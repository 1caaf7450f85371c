------------------------------ MODULE JobQueue ------------------------------
(***************************************************************************)
(* The lease protocol of the job queue: the queue_jobs table, the three    *)
(* kinds of worker that run its rows, and the operator's commands.         *)
(*                                                                         *)
(*   QueueWorkers  processes running worker_base.QueueWorker               *)
(*   NamedWorkers  request-addressed workers (coding_provision), which use *)
(*                 claim_job_with_envelope and start/succeed/fail_job      *)
(*   Herders       cat_herder daemons on development/harness_queue         *)
(*                                                                         *)
(* One action is one committed transaction.  Time is not a clock: a lease  *)
(* is "live" (lease_expires_at > now), "edge" (= now) or "past" (< now),   *)
(* and Elapse moves it; a not_before is "null", "due" or "later".          *)
(* PostgreSQL's NOW() is the time the transaction began: Open records the  *)
(* lease as the transaction's NOW() sees it, and the guarded UPDATE that   *)
(* follows (possibly after waiting for a row lock) uses that record.       *)
(*                                                                         *)
(* Each column is a function of the row.  Dedupe keys are the subject of   *)
(* EnqueueModes.                                                           *)
(***************************************************************************)
EXTENDS Naturals, FiniteSets

CONSTANTS
  Jobs,           \* rows that may be inserted
  FlakeJobs,      \* the rows of queue 'flake_mutation', which no worker claims
  QueueWorkers, NamedWorkers, Herders,
  Operators,      \* sessions of `tgw dead-letter --requeue`
  Outcomes,       \* how the handlers of this instance may end
  Checkpoints,    \* the observations a handler may try to bind
  MaxAttempts,    \* max_attempts of every row
  MaxHiccups,     \* bound: transient failures per row
  NoJob, NoWorker, NoCheckpoint

Workers == QueueWorkers \cup NamedWorkers \cup Herders

\* What a QueueWorker does to its row from inside or after handle().
ALL_OUTCOMES == {"checkpoint", "succeed", "evaluate", "timer", "transient",
                 "error", "hard"}

ASSUME RowsAssumption ==
  FlakeJobs \subseteq Jobs /\ NoJob \notin Jobs
ASSUME WorkersAssumption ==
  /\ NoWorker \notin Workers
  /\ QueueWorkers \cap NamedWorkers = {}
  /\ QueueWorkers \cap Herders = {}
  /\ NamedWorkers \cap Herders = {}
ASSUME BoundsAssumption ==
  /\ MaxAttempts \in Nat \ {0}
  /\ MaxHiccups \in Nat
ASSUME OutcomesAssumption == Outcomes \subseteq ALL_OUTCOMES
ASSUME CheckpointsAssumption == NoCheckpoint \notin Checkpoints

VARIABLES
  \* columns of queue_jobs
  state, owner, token, lease, notBefore, attempts,
  \* keys of payload_json: observation_checkpoint, result, origin_job_id (or
  \* the job a timer continues), result.stop_control and its acknowledgement
  checkpoint, result, origin, stop, acked,
  \* history: leases granted and transient failures so far, and the dead
  \* letter a row was cloned from
  grants, hiccups, cloneOf,
  \* locals of a worker process: the job dict and the token it was handed,
  \* the transaction it has open and the lease as its NOW() sees it
  phase, wjob, wtoken, op, txLease,
  \* the dead letter an operator session has read and is about to requeue
  requeuing

leaseCols == <<owner, token, lease>>
payload   == <<checkpoint, result, origin, stop, acked>>
history   == <<grants, hiccups, cloneOf>>
locals    == <<phase, wjob, wtoken, op, txLease>>
vars == <<state, leaseCols, notBefore, attempts, payload, history, locals,
          requeuing>>

Lifecycle == INSTANCE JobLifecycle

Active   == {"leased", "running"}          \* states that carry a lease
Pending  == {"queued", "retry_wait"}
NoStop   == [owner |-> NoWorker, token |-> 0]

-----------------------------------------------------------------------------
(* The table before any enqueue, and idle workers. *)
Init ==
  /\ state = [j \in Jobs |-> "absent"]
  /\ owner = [j \in Jobs |-> NoWorker]
  /\ token = [j \in Jobs |-> 0]
  /\ lease = [j \in Jobs |-> "none"]
  /\ notBefore = [j \in Jobs |-> "null"]
  /\ attempts = [j \in Jobs |-> 0]
  /\ checkpoint = [j \in Jobs |-> NoCheckpoint]
  /\ result = [j \in Jobs |-> "none"]
  /\ origin = [j \in Jobs |-> NoJob]
  /\ stop = [j \in Jobs |-> NoStop]
  /\ acked = [j \in Jobs |-> FALSE]
  /\ grants = [j \in Jobs |-> 0]
  /\ hiccups = [j \in Jobs |-> 0]
  /\ cloneOf = [j \in Jobs |-> NoJob]
  /\ phase = [w \in Workers |-> "idle"]
  /\ wjob = [w \in Workers |-> NoJob]
  /\ wtoken = [w \in Workers |-> 0]
  /\ op = [w \in Workers |-> "none"]
  /\ txLease = [w \in Workers |-> "none"]
  /\ requeuing = [o \in Operators |-> NoJob]

\* lease_owner, lease_token and lease_expires_at set to NULL.
ReleaseLease(j) ==
  /\ owner' = [owner EXCEPT ![j] = NoWorker]
  /\ token' = [token EXCEPT ![j] = 0]
  /\ lease' = [lease EXCEPT ![j] = "none"]

\* The worker is back in its claim loop: the job is reported, or the process
\* died (a lost lease ends it with a RuntimeError) and systemd restarted it.
ToLoop(w) ==
  /\ phase' = [phase EXCEPT ![w] = "idle"]
  /\ wjob' = [wjob EXCEPT ![w] = NoJob]
  /\ wtoken' = [wtoken EXCEPT ![w] = 0]
  /\ op' = [op EXCEPT ![w] = "none"]
  /\ txLease' = [txLease EXCEPT ![w] = "none"]

\* The row still carries exactly the lease this worker was handed.
Holds(w) ==
  /\ wjob[w] \in Jobs
  /\ owner[wjob[w]] = w
  /\ token[wjob[w]] = wtoken[w]

-----------------------------------------------------------------------------
(* enqueue_job's INSERT (the collision modes are EnqueueModes' subject). *)
Enqueue(j, nb) ==
  /\ state[j] = "absent"
  /\ state' = [state EXCEPT ![j] = "queued"]
  /\ notBefore' = [notBefore EXCEPT ![j] = nb]
  /\ UNCHANGED <<leaseCols, attempts, payload, history, locals, requeuing>>

\* The UPDATE of a claim: any due queued row, since SKIP LOCKED may pass over
\* an earlier one, now owned by w under token t.
ClaimWith(w, j, t) ==
  /\ phase[w] = "idle"
  /\ j \notin FlakeJobs
  /\ state[j] = "queued"
  /\ notBefore[j] \in {"null", "due"}
  /\ state' = [state EXCEPT ![j] = "leased"]
  /\ owner' = [owner EXCEPT ![j] = w]
  /\ token' = [token EXCEPT ![j] = t]
  /\ lease' = [lease EXCEPT ![j] = "live"]
  /\ attempts' = [attempts EXCEPT ![j] = @ + 1]
  /\ grants' = [grants EXCEPT ![j] = @ + 1]
  /\ phase' = [phase EXCEPT ![w] = "claimed"]
  /\ wjob' = [wjob EXCEPT ![w] = j]
  /\ wtoken' = [wtoken EXCEPT ![w] = t]
  /\ UNCHANGED <<notBefore, payload, hiccups, cloneOf, op, txLease, requeuing>>

\* Mutant: the token is derived from the row instead of drawn afresh.
Claim_RowToken(w, j) == ClaimWith(w, j, 1)

(* claim_queue_jobs, claim_job and claim_job_with_envelope draw a fresh token
   (a uuid: here the count of leases granted on the row). *)
Claim(w, j) == ClaimWith(w, j, grants[j] + 1)

(* A worker opens the transaction of its next statement: mark_running or
   start_job after the claim; a checkpoint, or the mark_ call its handler's
   outcome leads to. *)
Open(w, o) ==
  /\ op[w] = "none"
  /\ \/ phase[w] = "claimed" /\ w \notin Herders /\ o = "start"
     \/ phase[w] = "handling" /\ w \in QueueWorkers /\ o \in Outcomes
  /\ o = "transient" => hiccups[wjob[w]] < MaxHiccups
  /\ op' = [op EXCEPT ![w] = o]
  /\ txLease' = [txLease EXCEPT ![w] = lease[wjob[w]]]
  /\ UNCHANGED <<state, leaseCols, notBefore, attempts, payload, history,
                 phase, wjob, wtoken, requeuing>>

\* The WHERE clause of mark_running (lease_expires_at > NOW()) and of
\* start_job (>= NOW()).
MayStart(w) ==
  /\ Holds(w)
  /\ state[wjob[w]] = "leased"
  /\ \/ txLease[w] = "live"
     \/ txLease[w] = "edge" /\ w \in NamedWorkers

\* Mutant: the WHERE clause does not compare lease_owner and lease_token.
MayReport_AnyLease(w) ==
  wjob[w] \in Jobs /\ state[wjob[w]] = "running" /\ txLease[w] = "live"

\* The WHERE clause every mark_ function of state_machine.py shares.
MayReport(w) ==
  /\ Holds(w)
  /\ state[wjob[w]] = "running"
  /\ txLease[w] = "live"

\* Mutant: any handler of a cancelled row takes the stop for its own.
StopNames_AnyLease(w) ==
  wjob[w] \in Jobs /\ state[wjob[w]] = "cancelled" /\ stop[wjob[w]] # NoStop

\* A durable stop request names the lease this worker was handed.
StopNames(w) ==
  /\ wjob[w] \in Jobs
  /\ state[wjob[w]] = "cancelled"
  /\ stop[wjob[w]] = [owner |-> w, token |-> wtoken[w]]

MarkRunning(w) ==
  /\ op[w] = "start"
  /\ MayStart(w)
  /\ state' = [state EXCEPT ![wjob[w]] = "running"]
  /\ phase' = [phase EXCEPT ![w] = "handling"]
  /\ op' = [op EXCEPT ![w] = "none"]
  /\ txLease' = [txLease EXCEPT ![w] = "none"]
  /\ UNCHANGED <<leaseCols, notBefore, attempts, payload, history, wjob,
                 wtoken, requeuing>>

(* _process: mark_running raised, or handle() noticed, because an operator
   stopped exactly this lease; JobCancelled leads to the acknowledgement. *)
NoticeStop(w) ==
  /\ w \in QueueWorkers
  /\ op[w] = "start" \/ (phase[w] = "handling" /\ op[w] = "none")
  /\ StopNames(w)
  /\ op' = [op EXCEPT ![w] = "acknowledge"]
  /\ UNCHANGED <<state, leaseCols, notBefore, attempts, payload, history,
                 phase, wjob, wtoken, txLease, requeuing>>

AcknowledgeCancellation(w) ==
  /\ op[w] = "acknowledge"
  /\ StopNames(w)
  /\ ~acked[wjob[w]]
  /\ acked' = [acked EXCEPT ![wjob[w]] = TRUE]
  /\ ToLoop(w)
  /\ UNCHANGED <<state, leaseCols, notBefore, attempts, checkpoint, result,
                 origin, stop, history, requeuing>>

-----------------------------------------------------------------------------
\* The first value is bound; replaying it returns, and another value raises,
\* with the row as it was.
Bind(old, c) == IF old = NoCheckpoint THEN c ELSE old

CheckpointRunningJob(w, c) ==
  /\ op[w] = "checkpoint"
  /\ MayReport(w)
  /\ checkpoint' = [checkpoint EXCEPT ![wjob[w]] = Bind(@, c)]
  /\ op' = [op EXCEPT ![w] = "none"]
  /\ txLease' = [txLease EXCEPT ![w] = "none"]
  /\ UNCHANGED <<state, leaseCols, notBefore, attempts, result, origin, stop,
                 acked, history, phase, wjob, wtoken, requeuing>>

\* The receipt, when handle() returned one, becomes payload_json.result.
MarkSucceeded(w) ==
  /\ op[w] = "succeed"
  /\ MayReport(w)
  /\ state' = [state EXCEPT ![wjob[w]] = "succeeded"]
  /\ \E r \in {result[wjob[w]], "receipt"} :
       result' = [result EXCEPT ![wjob[w]] = r]
  /\ ReleaseLease(wjob[w])
  /\ ToLoop(w)
  /\ UNCHANGED <<notBefore, attempts, checkpoint, origin, stop, acked,
                 history, requeuing>>

\* Mutant: the follow-up is committed although the lease was lost.
CompleteTreatment_Apart(w, e) ==
  /\ op[w] \in {"evaluate", "timer"}
  /\ ~MayReport(w)
  /\ state[e] = "absent"
  /\ state' = [state EXCEPT ![e] = "queued"]
  /\ origin' = [origin EXCEPT ![e] = wjob[w]]
  /\ ToLoop(w)
  /\ UNCHANGED <<leaseCols, notBefore, attempts, checkpoint, result, stop,
                 acked, history, requeuing>>

(* complete_treatment_and_enqueue_evaluation and
   complete_treatment_and_schedule_timer: the receipt and the row e that
   follows from it are one transaction.  Evidence reported as unchanged
   needs no evaluation. *)
CompleteTreatment(w, e) ==
  /\ op[w] \in {"evaluate", "timer"}
  /\ MayReport(w)
  /\ state[e] = "absent"
  /\ state' = [state EXCEPT ![wjob[w]] = "succeeded", ![e] = "queued"]
  /\ result' = [result EXCEPT ![wjob[w]] = op[w]]
  /\ origin' = [origin EXCEPT ![e] = wjob[w]]
  /\ notBefore' = [notBefore EXCEPT ![e] =
                     IF op[w] = "timer" THEN "later" ELSE "null"]
  /\ ReleaseLease(wjob[w])
  /\ ToLoop(w)
  /\ UNCHANGED <<attempts, checkpoint, stop, acked, history, requeuing>>

CompleteUnchanged(w) ==
  /\ op[w] = "evaluate"
  /\ MayReport(w)
  /\ state' = [state EXCEPT ![wjob[w]] = "succeeded"]
  /\ result' = [result EXCEPT ![wjob[w]] = "unchanged"]
  /\ ReleaseLease(wjob[w])
  /\ ToLoop(w)
  /\ UNCHANGED <<notBefore, attempts, checkpoint, origin, stop, acked,
                 history, requeuing>>

\* Mutant: one attempt too many.
FailureState_OffByOne(j) ==
  IF attempts[j] > MaxAttempts THEN "dead_letter" ELSE "retry_wait"

\* Mutant: a state that the CHECK constraint of queue_jobs does not know.
FailureState_Unknown(j) ==
  IF attempts[j] >= MaxAttempts THEN "exhausted" ELSE "retry_wait"

\* next_failure_state, with the failed row promoted to dead_letter at once.
FailureState(j) ==
  IF attempts[j] >= MaxAttempts THEN "dead_letter" ELSE "retry_wait"

\* not_before after a failure: a backoff, or untouched when there is no retry.
RetryAfter(j, nb) ==
  IF attempts[j] >= MaxAttempts THEN notBefore[j] ELSE nb

MarkFailed(w) ==
  LET j == wjob[w] IN
  /\ op[w] = "error"
  /\ MayReport(w)
  /\ state' = [state EXCEPT ![j] = FailureState(j)]
  /\ notBefore' = [notBefore EXCEPT ![j] = RetryAfter(j, "later")]
  /\ ReleaseLease(j)
  /\ ToLoop(w)
  /\ UNCHANGED <<attempts, payload, history, requeuing>>

\* The result, when the failure carries one, replaces payload_json.result.
MarkDeadLetter(w) ==
  /\ op[w] = "hard"
  /\ MayReport(w)
  /\ state' = [state EXCEPT ![wjob[w]] = "dead_letter"]
  /\ \E r \in {result[wjob[w]], "failure"} :
       result' = [result EXCEPT ![wjob[w]] = r]
  /\ ReleaseLease(wjob[w])
  /\ ToLoop(w)
  /\ UNCHANGED <<notBefore, attempts, checkpoint, origin, stop, acked,
                 history, requeuing>>

\* A transient error waits and starts counting its attempts again.
RequeueWithBackoff(w) ==
  LET j == wjob[w] IN
  /\ op[w] = "transient"
  /\ MayReport(w)
  /\ state' = [state EXCEPT ![j] = "retry_wait"]
  /\ notBefore' = [notBefore EXCEPT ![j] = "later"]
  /\ attempts' = [attempts EXCEPT ![j] = 1]
  /\ hiccups' = [hiccups EXCEPT ![j] = @ + 1]
  /\ ReleaseLease(j)
  /\ ToLoop(w)
  /\ UNCHANGED <<payload, grants, cloneOf, requeuing>>

-----------------------------------------------------------------------------
(* succeed_job and fail_job read the clock at the statement, not at the
   start of the transaction. *)
MayReportNamed(w) ==
  /\ w \in NamedWorkers
  /\ phase[w] = "handling"
  /\ Holds(w)
  /\ state[wjob[w]] = "running"
  /\ lease[wjob[w]] = "live"

SucceedClaimedJob(w) ==
  /\ MayReportNamed(w)
  /\ state' = [state EXCEPT ![wjob[w]] = "succeeded"]
  /\ result' = [result EXCEPT ![wjob[w]] = "receipt"]
  /\ notBefore' = [notBefore EXCEPT ![wjob[w]] = "null"]
  /\ ReleaseLease(wjob[w])
  /\ ToLoop(w)
  /\ UNCHANGED <<attempts, checkpoint, origin, stop, acked, history, requeuing>>

\* fail_job leaves an exhausted row in 'failed', with the result if there is one.
FailClaimedJob(w) ==
  LET j == wjob[w]
      exhausted == attempts[j] >= MaxAttempts
  IN
  /\ MayReportNamed(w)
  /\ state' = [state EXCEPT ![j] = IF exhausted THEN "failed" ELSE "retry_wait"]
  /\ notBefore' = [notBefore EXCEPT ![j] = RetryAfter(j, "due")]
  /\ \E r \in {result[j]} \cup IF exhausted THEN {"failure"} ELSE {} :
       result' = [result EXCEPT ![j] = r]
  /\ ReleaseLease(j)
  /\ ToLoop(w)
  /\ UNCHANGED <<attempts, checkpoint, origin, stop, acked, history, requeuing>>

-----------------------------------------------------------------------------
(* harness_queue compares the token alone: no owner and no expiry. *)
HerderHolds(w) ==
  /\ w \in Herders
  /\ wjob[w] \in Jobs
  /\ token[wjob[w]] = wtoken[w]

HerderMarkRunning(w) ==
  /\ HerderHolds(w)
  /\ phase[w] = "claimed"
  /\ state[wjob[w]] = "leased"
  /\ state' = [state EXCEPT ![wjob[w]] = "running"]
  /\ phase' = [phase EXCEPT ![w] = "handling"]
  /\ UNCHANGED <<leaseCols, notBefore, attempts, payload, history, wjob,
                 wtoken, op, txLease, requeuing>>

\* heartbeat: also revives a lease that expired and was not yet recovered.
HerderHeartbeat(w) ==
  /\ HerderHolds(w)
  /\ phase[w] = "handling"
  /\ state[wjob[w]] \in Active
  /\ lease[wjob[w]] # "live"
  /\ lease' = [lease EXCEPT ![wjob[w]] = "live"]
  /\ UNCHANGED <<state, owner, token, notBefore, attempts, payload, history,
                 locals, requeuing>>

\* _finish: succeed, park (also of a job whose payload is unusable) and
\* retry_later.
HerderFinish(w, s) ==
  LET j == wjob[w] IN
  /\ HerderHolds(w)
  /\ \/ phase[w] = "handling" /\ s \in {"succeeded", "cancelled", FailureState(j)}
     \/ phase[w] = "claimed" /\ s = "cancelled"
  /\ state' = [state EXCEPT ![j] = s]
  /\ notBefore' = [notBefore EXCEPT ![j] =
                     IF s = "retry_wait" THEN "later" ELSE "null"]
  /\ ReleaseLease(j)
  /\ ToLoop(w)
  /\ UNCHANGED <<attempts, payload, history, requeuing>>

-----------------------------------------------------------------------------
(* The guarded statement matched no row.  A QueueWorker dies of the
   RuntimeError and is restarted; the others report the loss and go on. *)
LostLease(w) ==
  /\ \/ op[w] = "start" /\ ~MayStart(w) /\ ~(w \in QueueWorkers /\ StopNames(w))
     \/ op[w] \in ALL_OUTCOMES /\ ~MayReport(w)
     \/ op[w] = "acknowledge" /\ (~StopNames(w) \/ acked[wjob[w]])
     \/ w \in NamedWorkers /\ phase[w] = "handling" /\ ~MayReportNamed(w)
     \/ w \in Herders /\ phase[w] # "idle" /\ ~HerderHolds(w)
  /\ ToLoop(w)
  /\ UNCHANGED <<state, leaseCols, notBefore, attempts, payload, history,
                 requeuing>>

\* The process or its host dies wherever it is.
Crash(w) ==
  /\ phase[w] # "idle"
  /\ ToLoop(w)
  /\ UNCHANGED <<state, leaseCols, notBefore, attempts, payload, history,
                 requeuing>>

-----------------------------------------------------------------------------
\* Mutant: a lease whose worker died before mark_running is overlooked.
Expired_RunningOnly == {j \in Jobs : state[j] = "running" /\ lease[j] = "past"}

\* Rows the first and the second statement of recover_expired_jobs() select.
Expired == {j \in Jobs : state[j] \in Active /\ lease[j] = "past"}
Matured == {j \in Jobs : state[j] = "retry_wait" /\ notBefore[j] = "due"}

RecoverExpiredJobs ==
  /\ Expired \cup Matured # {}
  /\ state' = [j \in Jobs |->
                 IF j \in Matured THEN "queued"
                 ELSE IF j \notin Expired THEN state[j]
                 ELSE IF attempts[j] >= MaxAttempts THEN "dead_letter"
                 ELSE "queued"]
  /\ notBefore' = [j \in Jobs |->
                     IF j \in Matured THEN "null"
                     ELSE IF j \in Expired THEN RetryAfter(j, "due")
                     ELSE notBefore[j]]
  /\ owner' = [j \in Jobs |-> IF j \in Expired THEN NoWorker ELSE owner[j]]
  /\ token' = [j \in Jobs |-> IF j \in Expired THEN 0 ELSE token[j]]
  /\ lease' = [j \in Jobs |-> IF j \in Expired THEN "none" ELSE lease[j]]
  /\ UNCHANGED <<attempts, payload, history, locals, requeuing>>

\* Time passes for a lease, and for a not_before.
Elapse(j) ==
  /\ lease[j] \in {"live", "edge"}
  /\ lease' = [lease EXCEPT ![j] = IF @ = "live" THEN "edge" ELSE "past"]
  /\ UNCHANGED <<state, owner, token, notBefore, attempts, payload, history,
                 locals, requeuing>>

Mature(j) ==
  /\ notBefore[j] = "later"
  /\ notBefore' = [notBefore EXCEPT ![j] = "due"]
  /\ UNCHANGED <<state, leaseCols, attempts, payload, history, locals,
                 requeuing>>

-----------------------------------------------------------------------------
(* cancel_job.  With a runner stop the request records the lease it stops,
   and a row without one is refused; a plain cancel may carry no result. *)
CancelJob(j, runner) ==
  /\ state[j] \in Pending \cup Active
  /\ runner => token[j] # 0
  /\ state' = [state EXCEPT ![j] = "cancelled"]
  /\ \E r \in {"stopped"} \cup IF runner THEN {} ELSE {result[j]} :
       result' = [result EXCEPT ![j] = r]
  /\ stop' = [stop EXCEPT ![j] = IF runner
                                 THEN [owner |-> owner[j], token |-> token[j]]
                                 ELSE NoStop]
  /\ ReleaseLease(j)
  /\ UNCHANGED <<notBefore, attempts, checkpoint, origin, acked, history,
                 locals, requeuing>>

\* Mutant: the UPDATE does not check the state again.
OperatorCancel_Unchecked(j) ==
  /\ state[j] \in Pending \cup Active
  /\ state' = [state EXCEPT ![j] = "cancelled"]
  /\ UNCHANGED <<leaseCols, notBefore, attempts, payload, history, locals,
                 requeuing>>

\* POST /api/jobs/{job_id}/cancel: the state is checked again in the UPDATE,
\* and the lease columns are not touched.
OperatorCancel(j) ==
  /\ state[j] \in Pending \cup {"failed", "dead_letter"}
  /\ state' = [state EXCEPT ![j] = "cancelled"]
  /\ UNCHANGED <<leaseCols, notBefore, attempts, payload, history, locals,
                 requeuing>>

\* cancel_queued and clear_dead_letter: every row of the queue in state s.
CancelAll(s) ==
  /\ \E j \in Jobs : state[j] = s
  /\ state' = [j \in Jobs |-> IF state[j] = s THEN "cancelled" ELSE state[j]]
  /\ UNCHANGED <<leaseCols, notBefore, attempts, payload, history, locals,
                 requeuing>>

\* Mutant: any finished row can be requeued.
RequeueRead_AnyFinished(o, j) ==
  /\ requeuing[o] = NoJob
  /\ state[j] \in Lifecycle!TERMINAL
  /\ requeuing' = [requeuing EXCEPT ![o] = j]
  /\ UNCHANGED <<state, leaseCols, notBefore, attempts, payload, history,
                 locals>>

\* requeue_dead_letter_job: a SELECT that locks nothing ...
RequeueRead(o, j) ==
  /\ requeuing[o] = NoJob
  /\ state[j] = "dead_letter"
  /\ requeuing' = [requeuing EXCEPT ![o] = j]
  /\ UNCHANGED <<state, leaseCols, notBefore, attempts, payload, history,
                 locals>>

\* ... then an UPDATE by job_id alone, and a clone of the payload in e.
RequeueWrite(o, e) ==
  LET j == requeuing[o] IN
  /\ j # NoJob
  /\ state[e] = "absent"
  /\ state' = [state EXCEPT ![j] = "cancelled", ![e] = "queued"]
  /\ checkpoint' = [checkpoint EXCEPT ![e] = checkpoint[j]]
  /\ result' = [result EXCEPT ![e] = result[j]]
  /\ origin' = [origin EXCEPT ![e] = origin[j]]
  /\ cloneOf' = [cloneOf EXCEPT ![e] = j]
  /\ requeuing' = [requeuing EXCEPT ![o] = NoJob]
  /\ UNCHANGED <<leaseCols, notBefore, attempts, stop, acked, grants, hiccups,
                 locals>>

\* mark_flake_mutation_executed: a person attests the push was done by hand.
MarkFlakeMutationExecuted(j) ==
  /\ j \in FlakeJobs
  /\ state[j] = "queued"
  /\ state' = [state EXCEPT ![j] = "succeeded"]
  /\ UNCHANGED <<leaseCols, notBefore, attempts, payload, history, locals,
                 requeuing>>

-----------------------------------------------------------------------------
\* Everything a worker does once it has claimed, dying excepted.
WorkerStep(w) ==
  \/ \E o \in Outcomes \cup {"start"} : Open(w, o)
  \/ MarkRunning(w)
  \/ NoticeStop(w)
  \/ AcknowledgeCancellation(w)
  \/ \E c \in Checkpoints : CheckpointRunningJob(w, c)
  \/ MarkSucceeded(w)
  \/ \E e \in Jobs : CompleteTreatment(w, e)
  \/ CompleteUnchanged(w)
  \/ MarkFailed(w)
  \/ MarkDeadLetter(w)
  \/ RequeueWithBackoff(w)
  \/ SucceedClaimedJob(w)
  \/ FailClaimedJob(w)
  \/ HerderMarkRunning(w)
  \/ \E s \in Lifecycle!STATES : HerderFinish(w, s)
  \/ LostLease(w)

OperatorStep ==
  \/ \E j \in Jobs, runner \in BOOLEAN : CancelJob(j, runner)
  \/ \E j \in Jobs : OperatorCancel(j)
  \/ \E s \in {"queued", "dead_letter"} : CancelAll(s)
  \/ \E o \in Operators, j \in Jobs : RequeueRead(o, j)
  \/ \E o \in Operators, e \in Jobs : RequeueWrite(o, e)
  \/ \E j \in Jobs : MarkFlakeMutationExecuted(j)

Next ==
  \/ \E j \in Jobs, nb \in {"null", "later"} : Enqueue(j, nb)
  \/ \E w \in Workers, j \in Jobs : Claim(w, j)
  \/ \E w \in Workers : WorkerStep(w)
  \/ \E w \in Workers : HerderHeartbeat(w)
  \/ \E w \in Workers : Crash(w)
  \/ RecoverExpiredJobs
  \/ \E j \in Jobs : Elapse(j) \/ Mature(j)
  \/ OperatorStep

Spec == Init /\ [][Next]_vars

\* Workers poll, recover every 60 s, and report what they handle; time passes.
FairSpec ==
  /\ Spec
  /\ \A j \in Jobs : WF_vars(\E w \in Workers : Claim(w, j))
  /\ \A w \in Workers : WF_vars(WorkerStep(w))
  /\ WF_vars(RecoverExpiredJobs)
  /\ \A j \in Jobs : WF_vars(Elapse(j)) /\ WF_vars(Mature(j))

-----------------------------------------------------------------------------
LeaseStatus == {"none", "live", "edge", "past"}
Rows == Jobs \cup {NoJob}

\* Every column, payload key and worker local has the type the code gives it.
TypeOK ==
  /\ state \in [Jobs -> Lifecycle!STATES \cup {"absent"}]
  /\ owner \in [Jobs -> Workers \cup {NoWorker}]
  /\ token \in [Jobs -> Nat]
  /\ lease \in [Jobs -> LeaseStatus]
  /\ notBefore \in [Jobs -> {"null", "due", "later"}]
  /\ attempts \in [Jobs -> Nat]
  /\ checkpoint \in [Jobs -> Checkpoints \cup {NoCheckpoint}]
  /\ result \in [Jobs -> {"none", "receipt", "evaluate", "timer", "unchanged",
                          "failure", "stopped"}]
  /\ origin \in [Jobs -> Rows]
  /\ stop \in [Jobs -> [owner : Workers \cup {NoWorker}, token : Nat]]
  /\ acked \in [Jobs -> BOOLEAN]
  /\ grants \in [Jobs -> Nat]
  /\ hiccups \in [Jobs -> Nat]
  /\ cloneOf \in [Jobs -> Rows]
  /\ phase \in [Workers -> {"idle", "claimed", "handling"}]
  /\ wjob \in [Workers -> Rows]
  /\ wtoken \in [Workers -> Nat]
  /\ op \in [Workers -> ALL_OUTCOMES \cup {"none", "start", "acknowledge"}]
  /\ txLease \in [Workers -> LeaseStatus]
  /\ requeuing \in [Operators -> Rows]

\* A row carries a lease exactly while it is leased or running.  Two of the
\* cancelling statements (the HTTP cancel and requeue_dead_letter_job) do not
\* clear the lease columns, and the latter does not check the state either:
\* a lease left on a row that ended would let recovery or a token-only
\* statement of harness_queue bring the row back.
LeaseColumns ==
  \A j \in Jobs :
    /\ (state[j] \in Active) <=> (token[j] # 0)
    /\ (token[j] # 0) <=> (owner[j] # NoWorker)
    /\ (token[j] # 0) <=> (lease[j] # "none")

\* A worker whose token is the row's token is its only owner, and the row is
\* in the state that worker believes: no two processes ever hold one lease,
\* although the handlers of an expired lease and of its successor may overlap.
SoleHolder ==
  \A w \in Workers :
    (wjob[w] \in Jobs /\ token[wjob[w]] = wtoken[w]) =>
      /\ owner[wjob[w]] = w
      /\ phase[w] = "claimed" => state[wjob[w]] = "leased"
      /\ phase[w] = "handling" => state[wjob[w]] = "running"

\* Tokens are never reused: a row's token is the newest granted on it, every
\* busy worker holds one granted on its row, and no two hold the same.
TokensFresh ==
  /\ \A j \in Jobs : token[j] \in {0, grants[j]}
  /\ \A w \in Workers :
       IF phase[w] = "idle"
       THEN wjob[w] = NoJob
       ELSE wjob[w] \in Jobs /\ wtoken[w] \in 1..grants[wjob[w]]
  /\ \A v, w \in Workers :
       v # w /\ wjob[v] = wjob[w] /\ wjob[v] \in Jobs => wtoken[v] # wtoken[w]

\* The row an operator session read as a dead letter has not been revived
\* when the session writes: at worst another session has cancelled it.
RequeueTargets ==
  \A o \in Operators : requeuing[o] \in Jobs =>
    state[requeuing[o]] \in {"dead_letter", "cancelled"}

\* The columns of a row that a report can change.
Row(j) == <<state[j], owner[j], token[j], lease[j], notBefore[j], attempts[j],
            checkpoint[j], result[j]>>

\* A step of a worker whose token is no longer the row's leaves the row alone.
StaleStep ==
  \A w \in Workers, j \in Jobs :
    /\ wjob[w] = j
    /\ token[j] # wtoken[w]
    /\ phase'[w] # phase[w] \/ op'[w] # op[w]
    => Row(j)' = Row(j)

\* A worker whose lease was recovered, stolen or cancelled while it was
\* handling never changes the row, whatever step it takes next.
StaleWorkerHarmless == [][StaleStep]_vars

\* A step may only cancel a row that ended, and only if it failed.
EndedStep ==
  \A j \in Jobs :
    state[j] \in Lifecycle!TERMINAL =>
      \/ state'[j] = state[j]
      \/ state[j] \in {"failed", "dead_letter"} /\ state'[j] = "cancelled"

\* A row that ended never becomes runnable again: succeeded and cancelled are
\* final, a failed or dead row can only be cancelled.  The declared matrix
\* allows more (dead_letter -> queued); no statement uses it, because requeue
\* clones.
EndedStaysEnded == [][EndedStep]_vars

\* A completed treatment has exactly one follow-up row, its evaluation event
\* or its timer (an operator's clone of that row apart), and a follow-up
\* exists only for a completed treatment: "a crash cannot leave a completed
\* transport attempt without its future work (or vice versa)", and neither can
\* a worker whose lease was lost.
FollowUpExact ==
  /\ \A e \in Jobs : origin[e] # NoJob =>
       /\ state[origin[e]] = "succeeded"
       /\ result[origin[e]] \in {"evaluate", "timer"}
  /\ \A j \in Jobs : result[j] \in {"evaluate", "timer"} =>
       Cardinality({e \in Jobs : origin[e] = j /\ cloneOf[e] = NoJob}) = 1

\* checkpoint_running_job binds an observation to the row for good: no later
\* attempt, of any worker, replaces it.
CheckpointImmutable ==
  [][\A j \in Jobs :
       checkpoint[j] # NoCheckpoint => checkpoint'[j] = checkpoint[j]]_vars

\* An acknowledged stop "confirms a closed runner scope": no process is still
\* working under the lease that the stop named.
AckMeansReaped ==
  \A j \in Jobs : acked[j] =>
    /\ state[j] = "cancelled"
    /\ stop[j] # NoStop
    /\ \A w \in Workers : ~(wjob[w] = j /\ wtoken[w] = stop[j].token)

\* No row is run more often than its max_attempts since the last transient
\* requeue, which restarts the count at 1 (so a row with max_attempts = 1 may
\* run twice).
AttemptsBounded ==
  \A j \in Jobs :
    attempts[j] <= IF MaxAttempts = 1 THEN 2 ELSE MaxAttempts

\* recover_expired_jobs() promotes only rows whose not_before is not NULL: a
\* retry_wait row without one would wait for ever.
RetryWaitPromotable ==
  \A j \in Jobs : state[j] = "retry_wait" => notBefore[j] # "null"

\* The SQL statements together move rows only along ALLOWED_TRANSITIONS.
RefinesLifecycle == Lifecycle!Spec

\* "A terminal operation that waits behind a lock must re-check wall clock time
\* at its statement": succeed_job and fail_job do.  Whatever moves the row of a
\* request-addressed worker as only its report can, does so under an unexpired
\* lease, however long the report waited and whoever else acted meanwhile.
NamedReportsUnexpired ==
  [][\A w \in NamedWorkers :
       /\ Holds(w)
       /\ state[wjob[w]] = "running"
       /\ state'[wjob[w]] \in {"succeeded", "failed", "retry_wait"}
       => lease[wjob[w]] = "live"]_vars

\* Every row that enters the queue is eventually brought to an end, through
\* crashes, lost leases and retries (a flake mutation waits for a person).
EveryJobEnds ==
  \A j \in Jobs \ FlakeJobs :
    state[j] \in Pending \cup Active ~> state[j] \in Lifecycle!TERMINAL
=============================================================================
