------------------------- MODULE JobQueueRowsProofs -------------------------
(***************************************************************************)
(* What a row of JobQueue carries through its life, proved on top of the   *)
(* lease invariant of JobQueueProofs: its attempts, its observation        *)
(* checkpoint and its follow-up.                                           *)
(***************************************************************************)
EXTENDS JobQueueProofs, FiniteSetTheorems

FollowUp == {"evaluate", "timer"}

\* A row that is not inserted yet carries nothing.
Blank ==
  \A j \in Jobs : state[j] = "absent" =>
    /\ attempts[j] = 0 /\ checkpoint[j] = NoCheckpoint /\ result[j] = "none"
    /\ origin[j] = NoJob /\ cloneOf[j] = NoJob

Limit == IF MaxAttempts = 1 THEN 2 ELSE MaxAttempts

\* A row that waits has an attempt left.
Budget ==
  \A j \in Jobs : /\ attempts[j] <= Limit
                  /\ state[j] \in Pending => attempts[j] < Limit

\* x is the one follow-up of j that is not a clone.
Follows(x, j) == \A e \in Jobs : origin[e] = j /\ cloneOf[e] = NoJob <=> e = x

\* Follow-ups come from completed treatments, and each of those has one.
FollowUps ==
  /\ \A e \in Jobs : origin[e] # NoJob =>
       state[origin[e]] = "succeeded" /\ result[origin[e]] \in FollowUp
  /\ \A j \in Jobs : result[j] \in FollowUp =>
       state[j] = "succeeded" /\ \E x \in Jobs : Follows(x, j)

\* Only a QueueWorker opens transactions for its outcomes.
OpsOwn == \A w \in Workers \ QueueWorkers : op[w] \in {"none", "start"}

RowInv == Blank /\ Budget /\ RetryWaitPromotable /\ FollowUps /\ OpsOwn

-----------------------------------------------------------------------------
\* A step that inserts no follow-up and reports no treatment ...
Unfollowed ==
  /\ origin' = origin /\ cloneOf' = cloneOf
  /\ \A j \in Jobs : \/ result'[j] = result[j]
                     \/ state[j] # "succeeded" /\ result'[j] \notin FollowUp

\* ... keeps them all.
LEMMA FollowUpsKept ==
  ASSUME IInv, RowInv, [Next]_vars, Unfollowed
  PROVE  FollowUps'
<1> USE DEF Unfollowed
<1>1. \A j \in Jobs : state[j] = "succeeded" => state'[j] = "succeeded"
  BY RowStep DEF Moves
<1>2. ASSUME NEW j \in Jobs, NEW x \in Jobs, Follows(x, j)
      PROVE  Follows(x, j)'
  BY <1>2 DEF Follows
<1>3. ASSUME NEW j \in Jobs, result'[j] \in FollowUp
      PROVE  state'[j] = "succeeded" /\ \E x \in Jobs : Follows(x, j)'
  BY <1>1, <1>2, <1>3 DEF RowInv, FollowUps
<1>4. ASSUME NEW e \in Jobs, origin'[e] # NoJob
      PROVE  state'[origin'[e]] = "succeeded" /\ result'[origin'[e]] \in FollowUp
  <2>1. origin[e] \in Jobs /\ origin'[e] = origin[e]
    BY <1>4 DEF IInv, TypeOK, Rows
  <2> QED BY <1>1, <1>4, <2>1 DEF RowInv, FollowUps
<1> QED BY <1>3, <1>4 DEF FollowUps

\* Every step keeps the follow-ups: only two insert one.
LEMMA FollowUpsStep == IInv /\ RowInv /\ [Next]_vars => FollowUps'
<1> SUFFICES ASSUME IInv, RowInv, [Next]_vars
             PROVE  FollowUps'
  OBVIOUS
<1> USE RowsAssumption DEF IInv, TypeOK, FollowUp, Blank, Rows, payload, history
<1>1. ASSUME NEW w \in Workers, NEW e \in Jobs, CompleteTreatment(w, e)
      PROVE  FollowUps'
  <2>1. /\ wjob[w] \in Jobs /\ state[wjob[w]] = "running" /\ state[e] = "absent"
        /\ state' = [state EXCEPT ![wjob[w]] = "succeeded", ![e] = "queued"]
        /\ result' = [result EXCEPT ![wjob[w]] = op[w]] /\ op[w] \in FollowUp
        /\ origin' = [origin EXCEPT ![e] = wjob[w]] /\ cloneOf' = cloneOf
    BY <1>1 DEF CompleteTreatment, MayReport, Holds
  <2>2. \A j \in Jobs : origin[j] # wjob[w]
    BY <2>1 DEF RowInv, FollowUps
  <2>3. ASSUME NEW j \in Jobs, origin'[j] # NoJob
        PROVE  state'[origin'[j]] = "succeeded" /\ result'[origin'[j]] \in FollowUp
    <3>1. CASE j = e
      BY <2>1, <3>1
    <3>2. CASE j # e
      <4>1. origin'[j] = origin[j] /\ origin[j] \in Jobs
        BY <2>1, <2>3, <3>2
      <4>2. origin[j] # wjob[w] /\ origin[j] # e /\ result[origin[j]] \in FollowUp
            /\ state[origin[j]] = "succeeded"
        BY <2>1, <2>2, <2>3, <4>1 DEF RowInv, FollowUps
      <4> QED BY <2>1, <4>1, <4>2
    <3> QED BY <3>1, <3>2
  <2>4. ASSUME NEW j \in Jobs, result'[j] \in FollowUp
        PROVE  state'[j] = "succeeded" /\ \E x \in Jobs : Follows(x, j)'
    <3>1. CASE j = wjob[w]
      <4>1. Follows(e, j)'
        BY <2>1, <2>2, <3>1 DEF Follows, RowInv
      <4> QED BY <2>1, <3>1, <4>1
    <3>2. CASE j # wjob[w]
      <4>1. j # e /\ state[j] = "succeeded"
        BY <2>1, <2>4, <3>2 DEF RowInv, FollowUps
      <4>2. PICK x \in Jobs : Follows(x, j)
        BY <2>1, <2>4, <3>2 DEF RowInv, FollowUps
      <4>3. Follows(x, j)'
        BY <2>1, <3>2, <4>2 DEF Follows, RowInv
      <4> QED BY <2>1, <3>2, <4>1, <4>3
    <3> QED BY <3>1, <3>2
  <2> QED BY <2>3, <2>4 DEF FollowUps
<1>2. ASSUME NEW o \in Operators, NEW e \in Jobs, RequeueWrite(o, e)
      PROVE  FollowUps'
  <2> DEFINE d == requeuing[o]
  <2>1. /\ d \in Jobs /\ state[d] \in {"dead_letter", "cancelled"}
        /\ state[e] = "absent" /\ d # e
    BY <1>2 DEF RequeueWrite, RequeueTargets
  <2>2. /\ state' = [state EXCEPT ![d] = "cancelled", ![e] = "queued"]
        /\ result' = [result EXCEPT ![e] = result[d]]
        /\ origin' = [origin EXCEPT ![e] = origin[d]]
        /\ cloneOf' = [cloneOf EXCEPT ![e] = d]
    BY <1>2 DEF RequeueWrite
  <2> HIDE DEF d
  <2>3. \A j \in Jobs : state[j] = "succeeded" =>
          state'[j] = "succeeded" /\ result'[j] = result[j]
    BY <2>1, <2>2
  <2>4. ASSUME NEW j \in Jobs, origin'[j] # NoJob
        PROVE  state'[origin'[j]] = "succeeded" /\ result'[origin'[j]] \in FollowUp
    <3>1. PICK k \in Jobs : origin'[j] = origin[k]
      BY <2>1, <2>2
    <3>2. /\ origin[k] \in Jobs /\ state[origin[k]] = "succeeded"
          /\ result[origin[k]] \in FollowUp
      BY <2>4, <3>1 DEF RowInv, FollowUps
    <3> QED BY <2>3, <3>1, <3>2
  <2>5. ASSUME NEW j \in Jobs, result'[j] \in FollowUp
        PROVE  state'[j] = "succeeded" /\ \E x \in Jobs : Follows(x, j)'
    <3>1. result[d] \notin FollowUp
      BY <2>1 DEF RowInv, FollowUps
    <3>2. j # e /\ result[j] \in FollowUp
      BY <2>1, <2>2, <2>5, <3>1
    <3>3. state[j] = "succeeded" /\ \E x \in Jobs : Follows(x, j)
      BY <3>2 DEF RowInv, FollowUps
    <3>4. PICK x \in Jobs : Follows(x, j)
      BY <3>3
    <3>5. x # e
      BY <2>1, <3>4 DEF Follows, RowInv
    <3>6. Follows(x, j)'
      BY <2>1, <2>2, <3>4, <3>5 DEF Follows
    <3> QED BY <2>3, <3>3, <3>6
  <2> QED BY <2>4, <2>5 DEF FollowUps
<1>3. ASSUME NEW w \in Workers, WorkerStep(w),
             ~\E e \in Jobs : CompleteTreatment(w, e)
      PROVE  Unfollowed
  <2>1. CASE MarkSucceeded(w)
    BY <2>1 DEF Unfollowed, MarkSucceeded, MayReport, Holds
  <2>2. CASE CompleteUnchanged(w)
    BY <2>2 DEF Unfollowed, CompleteUnchanged, MayReport, Holds
  <2>3. CASE MarkDeadLetter(w)
    BY <2>3 DEF Unfollowed, MarkDeadLetter, MayReport, Holds
  <2>4. CASE SucceedClaimedJob(w)
    BY <2>4 DEF Unfollowed, SucceedClaimedJob, MayReportNamed, Holds
  <2>5. CASE FailClaimedJob(w)
    BY <2>5 DEF Unfollowed, FailClaimedJob, MayReportNamed, Holds
  <2>6. CASE UNCHANGED <<result, origin, cloneOf>>
    BY <2>6 DEF Unfollowed
  <2> HIDE DEF IInv, TypeOK
  <2> QED BY <1>3, <2>1, <2>2, <2>3, <2>4, <2>5, <2>6
          DEF WorkerStep, Open, MarkRunning, NoticeStop, AcknowledgeCancellation,
              CheckpointRunningJob, MarkFailed, RequeueWithBackoff,
              HerderMarkRunning, HerderFinish, LostLease
<1>4. ASSUME OperatorStep,
             ~\E o \in Operators, e \in Jobs : RequeueWrite(o, e)
      PROVE  Unfollowed
  <2>1. ASSUME NEW j \in Jobs, NEW runner \in BOOLEAN, CancelJob(j, runner)
        PROVE  Unfollowed
    BY <2>1 DEF Unfollowed, CancelJob, Pending, Active
  <2>2. CASE UNCHANGED <<result, origin, cloneOf>>
    BY <2>2 DEF Unfollowed
  <2> HIDE DEF IInv, TypeOK
  <2> QED BY <1>4, <2>1, <2>2
          DEF OperatorStep, OperatorCancel, CancelAll, RequeueRead,
              MarkFlakeMutationExecuted
<1>5. ASSUME UNCHANGED <<result, origin, cloneOf>>
      PROVE  Unfollowed
  BY <1>5 DEF Unfollowed
<1> HIDE DEF IInv, TypeOK
<1>6. CASE Unfollowed
  BY <1>6, FollowUpsKept
<1>7. ~(\E w \in Workers : WorkerStep(w)) /\ ~OperatorStep
        => UNCHANGED <<result, origin, cloneOf>>
  BY DEF Next, vars, Enqueue, Claim, ClaimWith, HerderHeartbeat, Crash,
         RecoverExpiredJobs, Elapse, Mature
<1> QED BY <1>1, <1>2, <1>3, <1>4, <1>5, <1>6, <1>7

\* Every step keeps it.
LEMMA RowInvStep == IInv /\ RowInv /\ [Next]_vars => RowInv'
<1> SUFFICES ASSUME IInv, RowInv, [Next]_vars
             PROVE  RowInv'
  OBVIOUS
<1> DEFINE Rest == Blank /\ Budget /\ RetryWaitPromotable /\ OpsOwn
<1>0. TypeOK' /\ FollowUps'
  BY TypeStep, FollowUpsStep DEF IInv
<1> SUFFICES Rest'
  BY <1>0 DEF RowInv
<1> HIDE DEF Rest
<1> USE RowsAssumption, WorkersAssumption, BoundsAssumption, OutcomesAssumption,
        <1>0
    DEF IInv, RowInv, TypeOK, Blank, Limit, Budget, RetryWaitPromotable, OpsOwn,
        Pending, Active, Rows, leaseCols, payload, history, locals
<1>1. ASSUME NEW j \in Jobs, NEW nb \in {"null", "later"}, Enqueue(j, nb)
      PROVE  Rest'
  BY <1>1 DEF Rest, Enqueue
<1>2. ASSUME NEW w \in Workers, NEW j \in Jobs, Claim(w, j)
      PROVE  Rest'
  BY <1>2 DEF Rest, Claim, ClaimWith
<1>3. ASSUME NEW w \in Workers, WorkerStep(w)
      PROVE  Rest'
  <2>1. ASSUME NEW o \in Outcomes \cup {"start"}, Open(w, o)
        PROVE  Rest'
    BY <2>1 DEF Rest, Open
  <2>2. CASE MarkRunning(w)
    BY <2>2 DEF Rest, MarkRunning, MayStart, Holds
  <2>3. CASE NoticeStop(w)
    BY <2>3 DEF Rest, NoticeStop
  <2>4. CASE AcknowledgeCancellation(w)
    BY <2>4 DEF Rest, AcknowledgeCancellation, ToLoop
  <2>5. ASSUME NEW c \in Checkpoints, CheckpointRunningJob(w, c)
        PROVE  Rest'
    BY <2>5 DEF Rest, CheckpointRunningJob, Bind, MayReport, Holds
  <2>6. CASE MarkSucceeded(w)
    BY <2>6 DEF Rest, MarkSucceeded, MayReport, Holds, ToLoop
  <2>7. ASSUME NEW e \in Jobs, CompleteTreatment(w, e)
        PROVE  Rest'
    BY <2>7 DEF Rest, CompleteTreatment, MayReport, Holds, ToLoop
  <2>8. CASE CompleteUnchanged(w)
    BY <2>8 DEF Rest, CompleteUnchanged, MayReport, Holds, ToLoop
  <2>9. CASE MarkFailed(w)
    BY <2>9 DEF Rest, MarkFailed, FailureState, RetryAfter, MayReport, Holds,
        ToLoop
  <2>10. CASE MarkDeadLetter(w)
    BY <2>10 DEF Rest, MarkDeadLetter, MayReport, Holds, ToLoop
  <2>11. CASE RequeueWithBackoff(w)
    BY <2>11 DEF Rest, RequeueWithBackoff, MayReport, Holds, ToLoop
  <2>12. CASE SucceedClaimedJob(w)
    BY <2>12 DEF Rest, SucceedClaimedJob, MayReportNamed, Holds, ToLoop
  <2>13. CASE FailClaimedJob(w)
    BY <2>13 DEF Rest, FailClaimedJob, RetryAfter, MayReportNamed, Holds, ToLoop
  <2>14. CASE HerderMarkRunning(w)
    BY <2>14 DEF Rest, HerderMarkRunning, HerderHolds
  <2>15. ASSUME NEW s \in Lifecycle!STATES, HerderFinish(w, s)
         PROVE  Rest'
    BY <2>15 DEF Rest, HerderFinish, HerderHolds, FailureState, LeaseColumns,
        TokensFresh, ToLoop
  <2>16. CASE LostLease(w)
    BY <2>16 DEF Rest, LostLease, ToLoop
  <2> HIDE DEF IInv, TypeOK
  <2> QED BY <1>3, <2>1, <2>2, <2>3, <2>4, <2>5, <2>6, <2>7, <2>8, <2>9,
             <2>10, <2>11, <2>12, <2>13, <2>14, <2>15, <2>16 DEF WorkerStep
<1>4. ASSUME NEW w \in Workers, HerderHeartbeat(w)
      PROVE  Rest'
  BY <1>4 DEF Rest, HerderHeartbeat
<1>5. ASSUME NEW w \in Workers, Crash(w)
      PROVE  Rest'
  BY <1>5 DEF Rest, Crash, ToLoop
<1>6. CASE RecoverExpiredJobs
  BY <1>6 DEF Rest, RecoverExpiredJobs, RetryAfter, Expired, Matured
<1>7. ASSUME NEW j \in Jobs, Elapse(j) \/ Mature(j)
      PROVE  Rest'
  BY <1>7 DEF Rest, Elapse, Mature
<1>8. CASE OperatorStep
  <2>1. ASSUME NEW j \in Jobs, NEW runner \in BOOLEAN, CancelJob(j, runner)
        PROVE  Rest'
    BY <2>1 DEF Rest, CancelJob
  <2>2. ASSUME NEW j \in Jobs, OperatorCancel(j)
        PROVE  Rest'
    BY <2>2 DEF Rest, OperatorCancel
  <2>3. ASSUME NEW s \in {"queued", "dead_letter"}, CancelAll(s)
        PROVE  Rest'
    BY <2>3 DEF Rest, CancelAll
  <2>4. ASSUME NEW o \in Operators, NEW j \in Jobs, RequeueRead(o, j)
        PROVE  Rest'
    BY <2>4 DEF Rest, RequeueRead
  <2>5. ASSUME NEW o \in Operators, NEW e \in Jobs, RequeueWrite(o, e)
        PROVE  Rest'
    BY <2>5 DEF Rest, RequeueWrite, RequeueTargets
  <2>6. ASSUME NEW j \in Jobs, MarkFlakeMutationExecuted(j)
        PROVE  Rest'
    BY <2>6 DEF Rest, MarkFlakeMutationExecuted
  <2> HIDE DEF IInv, TypeOK
  <2> QED BY <1>8, <2>1, <2>2, <2>3, <2>4, <2>5, <2>6 DEF OperatorStep
<1>9. CASE UNCHANGED vars
  BY <1>9 DEF Rest, vars
<1> HIDE DEF IInv, TypeOK
<1> QED BY <1>1, <1>2, <1>3, <1>4, <1>5, <1>6, <1>7, <1>8, <1>9 DEF Next

\* It holds in every reachable state.
LEMMA RowInductive == Spec => []RowInv
<1>1. Init => RowInv
  BY RowsAssumption, WorkersAssumption, BoundsAssumption
     DEF Init, RowInv, Blank, Limit, Budget, RetryWaitPromotable, FollowUps, FollowUp,
         OpsOwn, Pending
<1> QED BY <1>1, RowInvStep, Inductive, PTL DEF Spec

-----------------------------------------------------------------------------
\* No row is run more often than max_attempts allows, whichever of the four
\* failing statements, crashes and recoveries it went through.
THEOREM AttemptsBoundedInvariant == Spec => []AttemptsBounded
<1>1. RowInv => AttemptsBounded
  BY DEF RowInv, Budget, Limit, AttemptsBounded
<1> QED BY <1>1, RowInductive, PTL

\* No row waits in retry_wait without the not_before that recovery looks for.
THEOREM RetryWaitPromotableInvariant == Spec => []RetryWaitPromotable
<1>1. RowInv => RetryWaitPromotable
  BY DEF RowInv
<1> QED BY <1>1, RowInductive, PTL

\* A completed treatment has exactly one follow-up, and no other row has one.
THEOREM FollowUpExactInvariant == Spec => []FollowUpExact
<1>1. RowInv => FollowUpExact
  <2> SUFFICES ASSUME RowInv
               PROVE  FollowUpExact
    OBVIOUS
  <2>1. ASSUME NEW j \in Jobs, result[j] \in FollowUp
        PROVE  Cardinality({e \in Jobs : origin[e] = j /\ cloneOf[e] = NoJob}) = 1
    <3>1. PICK x \in Jobs : Follows(x, j)
      BY <2>1 DEF RowInv, FollowUps
    <3>2. {e \in Jobs : origin[e] = j /\ cloneOf[e] = NoJob} = {x}
      BY <3>1 DEF Follows
    <3> QED BY <3>2, FS_Singleton
  <2> QED BY <2>1 DEF RowInv, FollowUps, FollowUp, FollowUpExact
<1> QED BY <1>1, RowInductive, PTL

\* checkpoint_running_job binds an observation for good.
THEOREM CheckpointBound == Spec => CheckpointImmutable
<1> DEFINE Kept(j) == checkpoint[j] # NoCheckpoint => checkpoint'[j] = checkpoint[j]
<1>1. RowInv /\ IInv /\ [Next]_vars => [\A j \in Jobs : Kept(j)]_vars
  <2> SUFFICES ASSUME RowInv, IInv, Next, NEW j \in Jobs
               PROVE  Kept(j)
    OBVIOUS
  <2> USE DEF IInv, TypeOK, payload
  <2>1. ASSUME NEW w \in Workers, NEW c \in Checkpoints, CheckpointRunningJob(w, c)
        PROVE  Kept(j)
    BY <2>1 DEF CheckpointRunningJob, Bind
  <2>2. ASSUME NEW o \in Operators, NEW e \in Jobs, RequeueWrite(o, e)
        PROVE  Kept(j)
    BY <2>2 DEF RequeueWrite, RowInv, Blank
  <2>3. CASE checkpoint' = checkpoint
    BY <2>3
  <2> HIDE DEF IInv, TypeOK, Kept
  <2> QED BY <2>1, <2>2, <2>3
       DEF Next, Enqueue, Claim, ClaimWith, WorkerStep, Open, MarkRunning,
         NoticeStop, AcknowledgeCancellation, MarkSucceeded, CompleteTreatment,
         CompleteUnchanged, MarkFailed, MarkDeadLetter, RequeueWithBackoff,
         SucceedClaimedJob, FailClaimedJob, HerderMarkRunning, HerderFinish,
         LostLease, HerderHeartbeat, Crash, RecoverExpiredJobs, Elapse, Mature,
         OperatorStep, CancelJob, OperatorCancel, CancelAll, RequeueRead,
         MarkFlakeMutationExecuted
<1> QED BY <1>1, RowInductive, Inductive, PTL DEF Spec, CheckpointImmutable

\* succeed_job and fail_job change a row only under an unexpired lease.
THEOREM NamedReportsAreUnexpired == Spec => NamedReportsUnexpired
<1> DEFINE Timely(w) == /\ Holds(w)
                        /\ state[wjob[w]] = "running"
                        /\ state'[wjob[w]] \in {"succeeded", "failed", "retry_wait"}
                        => lease[wjob[w]] = "live"
<1>1. RowInv /\ IInv /\ [Next]_vars => [\A w \in NamedWorkers : Timely(w)]_vars
  <2> SUFFICES ASSUME RowInv, IInv, Next, NEW w \in NamedWorkers, Holds(w),
                      state[wjob[w]] = "running",
                      state'[wjob[w]] \in {"succeeded", "failed", "retry_wait"}
               PROVE  lease[wjob[w]] = "live"
    BY Zenon
  <2> DEFINE i == wjob[w]
  <2>1. /\ i \in Jobs /\ w \in Workers /\ w \notin QueueWorkers /\ w \notin Herders
        /\ op[w] \in {"none", "start"}
    BY WorkersAssumption DEF Holds, Workers, RowInv, OpsOwn
  <2>2. ASSUME NEW v \in Workers, v # w, Holds(v) \/ HerderHolds(v)
        PROVE  wjob[v] # i
    BY <2>1, <2>2 DEF Holds, HerderHolds, IInv, TokensFresh
  <2>3. ASSUME NEW v \in Workers, WorkerStep(v), v # w
        PROVE  state'[i] = state[i]
    BY <2>1, <2>2, <2>3 DEF IInv, TypeOK, WorkerStep, Open, MarkRunning, MayStart,
         NoticeStop, AcknowledgeCancellation, CheckpointRunningJob, MarkSucceeded,
         CompleteTreatment, CompleteUnchanged, MarkFailed, MarkDeadLetter,
         RequeueWithBackoff, MayReport, SucceedClaimedJob, FailClaimedJob,
         MayReportNamed, HerderMarkRunning, HerderFinish, LostLease
  <2>4. ASSUME WorkerStep(w)
        PROVE  state' = state \/ MayReportNamed(w)
    BY <2>1, <2>4 DEF WorkerStep, Open, MarkRunning, MayStart,
         NoticeStop, AcknowledgeCancellation, CheckpointRunningJob, MarkSucceeded,
         CompleteTreatment, CompleteUnchanged, MarkFailed, MarkDeadLetter,
         RequeueWithBackoff, SucceedClaimedJob, FailClaimedJob,
         HerderMarkRunning, HerderHolds, HerderFinish, LostLease
  <2>5. ASSUME NEW v \in Workers, WorkerStep(v)
        PROVE  lease[i] = "live"
    BY <2>3, <2>4, <2>5 DEF MayReportNamed
  <2>6. ASSUME OperatorStep \/ RecoverExpiredJobs
        PROVE  FALSE
    <3> USE <2>1, RowsAssumption DEF IInv, TypeOK
    <3>1. CASE RecoverExpiredJobs
      BY <3>1 DEF RecoverExpiredJobs
    <3>2. ASSUME NEW o \in Operators, NEW e \in Jobs, RequeueWrite(o, e)
          PROVE  FALSE
      BY <3>2 DEF RequeueWrite, Rows
    <3>3. ASSUME NEW j \in Jobs, NEW runner \in BOOLEAN, CancelJob(j, runner)
          PROVE  FALSE
      BY <3>3 DEF CancelJob
    <3>4. ASSUME NEW j \in Jobs, OperatorCancel(j) \/ MarkFlakeMutationExecuted(j)
          PROVE  FALSE
      BY <3>4 DEF OperatorCancel, MarkFlakeMutationExecuted, Pending
    <3>5. ASSUME NEW s \in {"queued", "dead_letter"}, CancelAll(s)
          PROVE  FALSE
      BY <3>5 DEF CancelAll
    <3>6. ASSUME NEW o \in Operators, NEW j \in Jobs, RequeueRead(o, j)
          PROVE  FALSE
      BY <3>6 DEF RequeueRead
    <3> HIDE DEF IInv, TypeOK
    <3> QED BY <2>6, <3>1, <3>2, <3>3, <3>4, <3>5, <3>6 DEF OperatorStep
  <2>7. ASSUME NEW v \in Workers, NEW j \in Jobs, Claim(v, j)
        PROVE  FALSE
    BY <2>1, <2>7 DEF Claim, ClaimWith, IInv, TypeOK
  <2>8. ASSUME NEW j \in Jobs, NEW nb \in {"null", "later"}, Enqueue(j, nb)
        PROVE  FALSE
    BY <2>1, <2>8 DEF Enqueue, IInv, TypeOK
  <2> QED BY <2>5, <2>6, <2>7, <2>8
          DEF Next, HerderHeartbeat, Crash, Elapse, Mature
<1> QED BY <1>1, RowInductive, Inductive, PTL DEF Spec, NamedReportsUnexpired
=============================================================================
