--------------------------- MODULE JobQueueProofs ---------------------------
(***************************************************************************)
(* What TLC checks of JobQueue on a few rows and workers, proved for every *)
(* number of rows, workers of each kind, operators, attempts and retries.  *)
(***************************************************************************)
EXTENDS JobQueue, TLAPS

\* Every step keeps the columns and the locals typed.  A worker that opens a
\* transaction has a row: that is the part of TokensFresh used.
LEMMA TypeStep == TypeOK /\ TokensFresh /\ [Next]_vars => TypeOK'
<1> SUFFICES ASSUME TypeOK, TokensFresh, [Next]_vars
             PROVE  TypeOK'
  OBVIOUS
<1> USE RowsAssumption, WorkersAssumption, BoundsAssumption,
        OutcomesAssumption DEF TypeOK, LeaseStatus, Rows, Lifecycle!STATES,
        ALL_OUTCOMES, leaseCols, payload, history, locals
<1>1. ASSUME NEW j \in Jobs, NEW nb \in {"null", "later"}, Enqueue(j, nb)
      PROVE  TypeOK'
  BY <1>1 DEF Enqueue
<1>2. ASSUME NEW w \in Workers, NEW j \in Jobs, Claim(w, j)
      PROVE  TypeOK'
  BY <1>2 DEF Claim, ClaimWith
<1>3. ASSUME NEW w \in Workers, WorkerStep(w)
      PROVE  TypeOK'
  <2>1. ASSUME NEW o \in Outcomes \cup {"start"}, Open(w, o)
        PROVE  TypeOK'
    <3>1. wjob[w] \in Jobs
      BY <2>1 DEF Open, TokensFresh
    <3> QED BY <2>1, <3>1 DEF Open
  <2>2. CASE MarkRunning(w)
    BY <2>2 DEF MarkRunning, MayStart, Holds
  <2>3. CASE NoticeStop(w)
    BY <2>3 DEF NoticeStop
  <2>4. CASE AcknowledgeCancellation(w)
    BY <2>4 DEF AcknowledgeCancellation, StopNames, ToLoop
  <2>5. ASSUME NEW c \in Checkpoints, CheckpointRunningJob(w, c)
        PROVE  TypeOK'
    BY <2>5 DEF CheckpointRunningJob, Bind, MayReport, Holds
  <2>6. CASE MarkSucceeded(w)
    <3>1. PICK r \in {result[wjob[w]], "receipt"} :
            result' = [result EXCEPT ![wjob[w]] = r]
      BY <2>6 DEF MarkSucceeded
    <3>2. result' \in [Jobs -> {"none", "receipt", "evaluate", "timer",
                               "unchanged", "failure", "stopped"}]
      BY <2>6, <3>1 DEF MarkSucceeded, MayReport, Holds
    <3> QED BY <2>6, <3>2 DEF MarkSucceeded, MayReport, Holds,
                              ReleaseLease, ToLoop
  <2>7. ASSUME NEW e \in Jobs, CompleteTreatment(w, e)
        PROVE  TypeOK'
    BY <2>7 DEF CompleteTreatment, MayReport, Holds, ReleaseLease, ToLoop
  <2>8. CASE CompleteUnchanged(w)
    BY <2>8 DEF CompleteUnchanged, MayReport, Holds, ReleaseLease, ToLoop
  <2>9. CASE MarkFailed(w)
    BY <2>9 DEF MarkFailed, FailureState, RetryAfter, MayReport, Holds,
                ReleaseLease, ToLoop
  <2>10. CASE MarkDeadLetter(w)
    <3>1. PICK r \in {result[wjob[w]], "failure"} :
            result' = [result EXCEPT ![wjob[w]] = r]
      BY <2>10 DEF MarkDeadLetter
    <3>2. result' \in [Jobs -> {"none", "receipt", "evaluate", "timer",
                               "unchanged", "failure", "stopped"}]
      BY <2>10, <3>1 DEF MarkDeadLetter, MayReport, Holds
    <3> QED BY <2>10, <3>2 DEF MarkDeadLetter, MayReport, Holds,
                               ReleaseLease, ToLoop
  <2>11. CASE RequeueWithBackoff(w)
    BY <2>11 DEF RequeueWithBackoff, MayReport, Holds, ReleaseLease, ToLoop
  <2>12. CASE SucceedClaimedJob(w)
    BY <2>12
    DEF SucceedClaimedJob, MayReportNamed, Holds, ReleaseLease, ToLoop
  <2>13. CASE FailClaimedJob(w)
    <3>1. PICK r \in {result[wjob[w]], "failure"} :
            result' = [result EXCEPT ![wjob[w]] = r]
      BY <2>13 DEF FailClaimedJob
    <3>2. result' \in [Jobs -> {"none", "receipt", "evaluate", "timer",
                               "unchanged", "failure", "stopped"}]
      BY <2>13, <3>1 DEF FailClaimedJob, MayReportNamed, Holds
    <3> QED BY <2>13, <3>2 DEF FailClaimedJob, RetryAfter, MayReportNamed,
                               Holds, ReleaseLease, ToLoop
  <2>14. CASE HerderMarkRunning(w)
    BY <2>14 DEF HerderMarkRunning, HerderHolds
  <2>15. ASSUME NEW s \in Lifecycle!STATES, HerderFinish(w, s)
         PROVE  TypeOK'
    BY <2>15 DEF HerderFinish, HerderHolds, ReleaseLease, ToLoop
  <2>16. CASE LostLease(w)
    BY <2>16 DEF LostLease, ToLoop
  <2> HIDE DEF TypeOK
  <2> QED BY <1>3, <2>1, <2>2, <2>3, <2>4, <2>5, <2>6, <2>7, <2>8, <2>9,
             <2>10, <2>11, <2>12, <2>13, <2>14, <2>15, <2>16 DEF WorkerStep
<1>4. ASSUME NEW w \in Workers, HerderHeartbeat(w)
      PROVE  TypeOK'
  BY <1>4 DEF HerderHeartbeat, HerderHolds
<1>9. ASSUME NEW w \in Workers, Crash(w)
      PROVE  TypeOK'
  BY <1>9 DEF Crash, ToLoop
<1>5. CASE RecoverExpiredJobs
  BY <1>5 DEF RecoverExpiredJobs, RetryAfter
<1>6. ASSUME NEW j \in Jobs, Elapse(j)
      PROVE  TypeOK'
  BY <1>6 DEF Elapse
<1>10. ASSUME NEW j \in Jobs, Mature(j)
       PROVE  TypeOK'
  BY <1>10 DEF Mature
<1>7. CASE OperatorStep
  <2>1. ASSUME NEW j \in Jobs, NEW runner \in BOOLEAN, CancelJob(j, runner)
        PROVE  TypeOK'
    <3>1. PICK r \in {"stopped", result[j]} : result' = [result EXCEPT ![j] = r]
      BY <2>1 DEF CancelJob
    <3>2. result' \in [Jobs -> {"none", "receipt", "evaluate", "timer",
                               "unchanged", "failure", "stopped"}]
      BY <3>1
    <3> QED BY <2>1, <3>2 DEF CancelJob, NoStop, ReleaseLease
  <2>2. ASSUME NEW j \in Jobs, OperatorCancel(j)
        PROVE  TypeOK'
    BY <2>2 DEF OperatorCancel
  <2>3. ASSUME NEW s \in {"queued", "dead_letter"}, CancelAll(s)
        PROVE  TypeOK'
    BY <2>3 DEF CancelAll
  <2>4. ASSUME NEW o \in Operators, NEW j \in Jobs, RequeueRead(o, j)
        PROVE  TypeOK'
    BY <2>4 DEF RequeueRead
  <2>5. ASSUME NEW o \in Operators, NEW e \in Jobs, RequeueWrite(o, e)
        PROVE  TypeOK'
    BY <2>5 DEF RequeueWrite
  <2>6. ASSUME NEW j \in Jobs, MarkFlakeMutationExecuted(j)
        PROVE  TypeOK'
    BY <2>6 DEF MarkFlakeMutationExecuted
  <2> HIDE DEF TypeOK
  <2> QED BY <1>7, <2>1, <2>2, <2>3, <2>4, <2>5, <2>6 DEF OperatorStep
<1>8. CASE UNCHANGED vars
  BY <1>8 DEF vars
<1> HIDE DEF TypeOK
<1> QED BY <1>1, <1>2, <1>3, <1>4, <1>5, <1>6, <1>7, <1>8, <1>9, <1>10
        DEF Next

\* The inductive invariant.
IInv == /\ TypeOK
        /\ TokensFresh
        /\ LeaseColumns
        /\ SoleHolder
        /\ RequeueTargets
        /\ AckMeansReaped

\* The token of a busy worker is not the 0 that stands for NULL.
LEMMA TokenPositive ==
  ASSUME TypeOK, TokensFresh, NEW w \in Workers, wjob[w] \in Jobs
  PROVE  wtoken[w] # 0
BY RowsAssumption DEF TypeOK, TokensFresh

\* Every step keeps the inductive invariant: one step per action, and under it
\* the conjuncts the action can disturb.
LEMMA InvStep == IInv /\ [Next]_vars => IInv'
<1> SUFFICES ASSUME IInv, [Next]_vars
             PROVE  IInv'
  OBVIOUS
<1> DEFINE Rest == TokensFresh /\ LeaseColumns /\ SoleHolder /\ RequeueTargets
                     /\ AckMeansReaped
<1>0. TypeOK'
  BY TypeStep DEF IInv
<1> SUFFICES Rest'
  BY <1>0 DEF Rest, IInv
<1> HIDE DEF Rest
<1> USE RowsAssumption, WorkersAssumption, BoundsAssumption, <1>0
    DEF IInv, TypeOK, TokensFresh, LeaseColumns, SoleHolder, RequeueTargets,
        AckMeansReaped, Active, Pending,
        leaseCols, payload, history, locals
<1>1. ASSUME NEW j \in Jobs, NEW nb \in {"null", "later"}, Enqueue(j, nb)
      PROVE  Rest'
  BY <1>1 DEF Rest, Enqueue
<1>2. ASSUME NEW w \in Workers, NEW j \in Jobs, Claim(w, j)
      PROVE  Rest'
  <2>1. TokensFresh'
    BY <1>2 DEF Claim, ClaimWith
  <2>2. LeaseColumns'
    BY <1>2 DEF Claim, ClaimWith
  <2>3. SoleHolder'
    BY <1>2 DEF Claim, ClaimWith
  <2>4. RequeueTargets'
    BY <1>2 DEF Claim, ClaimWith
  <2>5. AckMeansReaped'
    BY <1>2 DEF Claim, ClaimWith
  <2> QED BY <2>1, <2>2, <2>3, <2>4, <2>5 DEF Rest
<1>3. ASSUME NEW w \in Workers, WorkerStep(w)
      PROVE  Rest'
  <2>1. ASSUME NEW o \in Outcomes \cup {"start"}, Open(w, o)
        PROVE  Rest'
    BY <2>1 DEF Rest, Open
  <2>2. CASE MarkRunning(w)
    BY <2>2 DEF Rest, MarkRunning, MayStart, Holds
  <2>3. CASE NoticeStop(w)
    BY <2>3 DEF Rest, NoticeStop, StopNames
  <2>4. CASE AcknowledgeCancellation(w)
    BY <2>4 DEF Rest, AcknowledgeCancellation, StopNames, NoStop, ToLoop
  <2>5. ASSUME NEW c \in Checkpoints, CheckpointRunningJob(w, c)
        PROVE  Rest'
    BY <2>5 DEF Rest, CheckpointRunningJob, MayReport, Holds
  <2>6. CASE MarkSucceeded(w)
    BY <2>6 DEF Rest, MarkSucceeded, MayReport, Holds, ReleaseLease, ToLoop
  <2>7. ASSUME NEW e \in Jobs, CompleteTreatment(w, e)
        PROVE  Rest'
    <3>1. TokensFresh'
      BY <2>7 DEF CompleteTreatment, MayReport, Holds, ReleaseLease, ToLoop
    <3>2. LeaseColumns'
      BY <2>7 DEF CompleteTreatment, MayReport, Holds, ReleaseLease, ToLoop
    <3>3. SoleHolder'
      BY <2>7 DEF CompleteTreatment, MayReport, Holds, ReleaseLease, ToLoop
    <3>4. RequeueTargets'
      <4>1. state[wjob[w]] = "running" /\ state[e] = "absent"
        BY <2>7 DEF CompleteTreatment, MayReport
      <4>2. ASSUME NEW j \in Jobs, state[j] \in {"dead_letter", "cancelled"}
            PROVE  state'[j] = state[j]
        BY <2>7, <4>1, <4>2 DEF CompleteTreatment, MayReport, Holds
      <4>3. requeuing' = requeuing
        BY <2>7 DEF CompleteTreatment
      <4> QED BY <4>2, <4>3
    <3>5. AckMeansReaped'
      BY <2>7 DEF CompleteTreatment, MayReport, Holds, ReleaseLease, ToLoop
    <3> QED BY <3>1, <3>2, <3>3, <3>4, <3>5 DEF Rest
  <2>8. CASE CompleteUnchanged(w)
    BY <2>8
    DEF Rest, CompleteUnchanged, MayReport, Holds, ReleaseLease, ToLoop
  <2>9. CASE MarkFailed(w)
    BY <2>9
    DEF Rest, MarkFailed, FailureState, MayReport, Holds, ReleaseLease,
        ToLoop
  <2>10. CASE MarkDeadLetter(w)
    BY <2>10 DEF Rest, MarkDeadLetter, MayReport, Holds, ReleaseLease, ToLoop
  <2>11. CASE RequeueWithBackoff(w)
    BY <2>11
    DEF Rest, RequeueWithBackoff, MayReport, Holds, ReleaseLease, ToLoop
  <2>12. CASE SucceedClaimedJob(w)
    BY <2>12
    DEF Rest, SucceedClaimedJob, MayReportNamed, Holds, ReleaseLease, ToLoop
  <2>13. CASE FailClaimedJob(w)
    <3>1. TokensFresh'
      BY <2>13 DEF FailClaimedJob, MayReportNamed, Holds, ReleaseLease, ToLoop
    <3>2. LeaseColumns'
      BY <2>13 DEF FailClaimedJob, MayReportNamed, Holds, ReleaseLease, ToLoop
    <3>3. SoleHolder'
      <4>1. wjob[w] \in Jobs /\ wjob'[w] = NoJob
        BY <2>13 DEF FailClaimedJob, MayReportNamed, Holds, ToLoop
      <4>2. ASSUME NEW v \in Workers, wjob'[v] \in Jobs,
                   token'[wjob'[v]] = wtoken'[v]
            PROVE  /\ wjob'[v] = wjob[v] /\ wtoken'[v] = wtoken[v]
                   /\ phase'[v] = phase[v] /\ wjob[v] # wjob[w]
        BY <2>13, <4>1, <4>2 DEF FailClaimedJob, ReleaseLease, ToLoop
      <4>3. ASSUME NEW j \in Jobs, j # wjob[w]
            PROVE  /\ state'[j] = state[j] /\ owner'[j] = owner[j]
                   /\ token'[j] = token[j]
        BY <2>13, <4>1, <4>3 DEF FailClaimedJob, ReleaseLease
      <4> QED BY <4>2, <4>3
    <3>4. RequeueTargets'
      BY <2>13 DEF FailClaimedJob, MayReportNamed, Holds, ReleaseLease, ToLoop
    <3>5. AckMeansReaped'
      BY <2>13 DEF FailClaimedJob, MayReportNamed, Holds, ReleaseLease, ToLoop
    <3> QED BY <3>1, <3>2, <3>3, <3>4, <3>5 DEF Rest
  <2>14. CASE HerderMarkRunning(w)
    BY <2>14 DEF Rest, HerderMarkRunning, HerderHolds
  <2>15. ASSUME NEW s \in Lifecycle!STATES, HerderFinish(w, s)
        PROVE  Rest'
    <3>1. TokensFresh'
      BY <2>15
      DEF HerderFinish, FailureState, HerderHolds, ReleaseLease, ToLoop
    <3>2. LeaseColumns'
      BY <2>15
      DEF HerderFinish, FailureState, HerderHolds, ReleaseLease, ToLoop
    <3>3. SoleHolder'
      BY <2>15
      DEF HerderFinish, FailureState, HerderHolds, ReleaseLease, ToLoop
    <3>4. RequeueTargets'
      BY <2>15
      DEF HerderFinish, FailureState, HerderHolds, ReleaseLease, ToLoop
    <3>5. AckMeansReaped'
      BY <2>15
      DEF HerderFinish, FailureState, HerderHolds, ReleaseLease, ToLoop
    <3> QED BY <3>1, <3>2, <3>3, <3>4, <3>5 DEF Rest
  <2>16. CASE LostLease(w)
    BY <2>16 DEF Rest, LostLease, ToLoop
  <2> HIDE DEF IInv, TypeOK
  <2> QED BY <1>3, <2>1, <2>2, <2>3, <2>4, <2>5, <2>6, <2>7, <2>8, <2>9,
             <2>10, <2>11, <2>12, <2>13, <2>14, <2>15, <2>16
          DEF WorkerStep
<1>4. ASSUME NEW w \in Workers, HerderHeartbeat(w)
      PROVE  Rest'
  BY <1>4 DEF Rest, HerderHeartbeat, HerderHolds
<1>5. ASSUME NEW w \in Workers, Crash(w)
      PROVE  Rest'
  BY <1>5 DEF Rest, Crash, ToLoop
<1>6. CASE RecoverExpiredJobs
  <2>1. TokensFresh'
    BY <1>6 DEF RecoverExpiredJobs, Expired, Matured
  <2>2. LeaseColumns'
    BY <1>6 DEF RecoverExpiredJobs, Expired, Matured
  <2>3. SoleHolder'
    <3> SUFFICES ASSUME NEW v \in Workers, wjob[v] \in Jobs,
                        token'[wjob[v]] = wtoken[v]
                 PROVE  /\ token[wjob[v]] = wtoken[v]
                        /\ owner'[wjob[v]] = owner[wjob[v]]
                        /\ state'[wjob[v]] = state[wjob[v]]
      BY <1>6 DEF RecoverExpiredJobs
    <3>1. wtoken[v] # 0
      BY TokenPositive
    <3>2. wjob[v] \notin Expired
      BY <1>6, <3>1 DEF RecoverExpiredJobs
    <3>3. token[wjob[v]] = wtoken[v]
      BY <1>6, <3>2 DEF RecoverExpiredJobs
    <3>4. wjob[v] \notin Matured
      BY <3>1, <3>3 DEF Matured
    <3> QED BY <1>6, <3>2, <3>3, <3>4 DEF RecoverExpiredJobs
  <2>4. RequeueTargets'
    BY <1>6 DEF RecoverExpiredJobs, Expired, Matured
  <2>5. AckMeansReaped'
    BY <1>6 DEF RecoverExpiredJobs, Expired, Matured
  <2> QED BY <2>1, <2>2, <2>3, <2>4, <2>5 DEF Rest
<1>7. ASSUME NEW j \in Jobs, Elapse(j)
      PROVE  Rest'
  BY <1>7 DEF Rest, Elapse
<1>8. ASSUME NEW j \in Jobs, Mature(j)
      PROVE  Rest'
  BY <1>8 DEF Rest, Mature
<1>9. CASE OperatorStep
  <2>1. ASSUME NEW j \in Jobs, NEW runner \in BOOLEAN, CancelJob(j, runner)
        PROVE  Rest'
    BY <2>1 DEF Rest, CancelJob, ReleaseLease
  <2>2. ASSUME NEW j \in Jobs, OperatorCancel(j)
        PROVE  Rest'
    BY <2>2 DEF Rest, OperatorCancel
  <2>3. ASSUME NEW s \in {"queued", "dead_letter"}, CancelAll(s)
        PROVE  Rest'
    BY <2>3 DEF Rest, CancelAll
  <2>4. ASSUME NEW o \in Operators, NEW j \in Jobs, RequeueRead(o, j)
        PROVE  Rest'
    BY <2>4 DEF Rest, RequeueRead
  <2>5. ASSUME NEW o \in Operators, NEW e \in Jobs, RequeueWrite(o, e)
        PROVE  Rest'
    <3>1. TokensFresh'
      BY <2>5 DEF RequeueWrite
    <3>2. LeaseColumns'
      <4>1. requeuing[o] \in Jobs /\ requeuing[o] # e
        BY <2>5 DEF RequeueWrite, Rows
      <4>2. token[e] = 0 /\ token[requeuing[o]] = 0
        BY <2>5, <4>1 DEF RequeueWrite
      <4>3. ASSUME NEW j \in Jobs, j # e, j # requeuing[o]
            PROVE  state'[j] = state[j]
        BY <2>5, <4>1, <4>3 DEF RequeueWrite
      <4>4. state'[e] = "queued" /\ state'[requeuing[o]] = "cancelled"
        BY <2>5, <4>1 DEF RequeueWrite
      <4>5. owner' = owner /\ token' = token /\ lease' = lease
        BY <2>5 DEF RequeueWrite
      <4>6. ASSUME NEW j \in Jobs
            PROVE  state'[j] \in Active <=> state[j] \in Active
        BY <2>5, <4>1, <4>3, <4>4 DEF RequeueWrite
      <4> QED BY <4>5, <4>6
    <3>3. SoleHolder'
      BY <2>5 DEF RequeueWrite
    <3>4. RequeueTargets'
      <4>1. requeuing' = [requeuing EXCEPT ![o] = NoJob]
        BY <2>5 DEF RequeueWrite
      <4>2. state[e] = "absent"
            /\ state' = [state EXCEPT ![requeuing[o]] = "cancelled", ![e] = "queued"]
        BY <2>5 DEF RequeueWrite
      <4>3. ASSUME NEW p \in Operators, requeuing'[p] \in Jobs
            PROVE  state'[requeuing'[p]] \in {"dead_letter", "cancelled"}
        <5>1. p # o /\ requeuing'[p] = requeuing[p]
          BY <4>1, <4>3
        <5>2. state[requeuing[p]] \in {"dead_letter", "cancelled"}
          BY <4>3, <5>1
        <5> QED BY <4>2, <4>3, <5>1, <5>2
      <4> QED BY <4>3
    <3>5. AckMeansReaped'
      BY <2>5 DEF RequeueWrite
    <3> QED BY <3>1, <3>2, <3>3, <3>4, <3>5 DEF Rest
  <2>6. ASSUME NEW j \in Jobs, MarkFlakeMutationExecuted(j)
        PROVE  Rest'
    BY <2>6 DEF Rest, MarkFlakeMutationExecuted
  <2> HIDE DEF IInv, TypeOK
  <2> QED BY <1>9, <2>1, <2>2, <2>3, <2>4, <2>5, <2>6 DEF OperatorStep
<1>10. CASE UNCHANGED vars
  BY <1>10 DEF Rest, vars
<1> HIDE DEF IInv, TypeOK
<1> QED BY <1>1, <1>2, <1>3, <1>4, <1>5, <1>6, <1>7, <1>8, <1>9, <1>10
        DEF Next
\* The transitions that the statements really make, by the row's state: fewer
\* than ALLOWED_TRANSITIONS, but for an attested flake mutation.
Moves(j) ==
  \/ state'[j] = state[j]
  \/ state[j] = "absent" /\ state'[j] = "queued"
  \/ state[j] = "queued" /\ state'[j] \in {"leased", "cancelled"}
  \/ j \in FlakeJobs /\ state[j] = "queued" /\ state'[j] = "succeeded"
  \/ /\ state[j] = "leased"
     /\ state'[j] \in {"running", "queued", "dead_letter", "cancelled"}
  \/ /\ state[j] = "running"
     /\ state'[j] \in {"succeeded", "retry_wait", "failed", "dead_letter",
                      "queued", "cancelled"}
  \/ state[j] = "retry_wait" /\ state'[j] \in {"queued", "cancelled"}
  \/ state[j] \in {"failed", "dead_letter"} /\ state'[j] = "cancelled"

\* Every step of every actor moves every row along Moves.
LEMMA RowStep == IInv /\ [Next]_vars => \A j \in Jobs : Moves(j)
<1> SUFFICES ASSUME IInv, [Next]_vars, NEW i \in Jobs
             PROVE  Moves(i)
  OBVIOUS
<1> USE RowsAssumption DEF IInv, TypeOK, Active, Pending
<1>1. ASSUME NEW j \in Jobs, NEW nb \in {"null", "later"}, Enqueue(j, nb)
      PROVE  Moves(i)
  BY <1>1 DEF Moves, Enqueue
<1>2. ASSUME NEW w \in Workers, NEW j \in Jobs, Claim(w, j)
      PROVE  Moves(i)
  BY <1>2 DEF Moves, Claim, ClaimWith
<1>3. ASSUME NEW w \in Workers, WorkerStep(w)
      PROVE  Moves(i)
  <2>1. ASSUME NEW o \in Outcomes \cup {"start"}, Open(w, o)
        PROVE  Moves(i)
    BY <2>1 DEF Moves, Open
  <2>2. CASE MarkRunning(w)
    BY <2>2 DEF Moves, MarkRunning, MayStart
  <2>3. CASE NoticeStop(w)
    BY <2>3 DEF Moves, NoticeStop
  <2>4. CASE AcknowledgeCancellation(w)
    BY <2>4 DEF Moves, AcknowledgeCancellation
  <2>5. ASSUME NEW c \in Checkpoints, CheckpointRunningJob(w, c)
        PROVE  Moves(i)
    BY <2>5 DEF Moves, CheckpointRunningJob
  <2>6. CASE MarkSucceeded(w)
    BY <2>6 DEF Moves, MarkSucceeded, MayReport
  <2>7. ASSUME NEW e \in Jobs, CompleteTreatment(w, e)
        PROVE  Moves(i)
    BY <2>7 DEF Moves, CompleteTreatment, MayReport
  <2>8. CASE CompleteUnchanged(w)
    BY <2>8 DEF Moves, CompleteUnchanged, MayReport
  <2>9. CASE MarkFailed(w)
    BY <2>9 DEF Moves, MarkFailed, FailureState, MayReport
  <2>10. CASE MarkDeadLetter(w)
    BY <2>10 DEF Moves, MarkDeadLetter, MayReport
  <2>11. CASE RequeueWithBackoff(w)
    BY <2>11 DEF Moves, RequeueWithBackoff, MayReport
  <2>12. CASE SucceedClaimedJob(w)
    BY <2>12 DEF Moves, SucceedClaimedJob, MayReportNamed
  <2>13. CASE FailClaimedJob(w)
    BY <2>13 DEF Moves, FailClaimedJob, MayReportNamed
  <2>14. CASE HerderMarkRunning(w)
    BY <2>14 DEF Moves, HerderMarkRunning
  <2>15. ASSUME NEW s \in Lifecycle!STATES, HerderFinish(w, s)
        PROVE  Moves(i)
    BY <2>15
    DEF Moves, HerderFinish, HerderHolds, FailureState, SoleHolder,
        LeaseColumns, TokensFresh
  <2>16. CASE LostLease(w)
    BY <2>16 DEF Moves, LostLease
  <2> HIDE DEF IInv, TypeOK
  <2> QED BY <1>3, <2>1, <2>2, <2>3, <2>4, <2>5, <2>6, <2>7, <2>8, <2>9,
             <2>10, <2>11, <2>12, <2>13, <2>14, <2>15, <2>16 DEF WorkerStep
<1>4. CASE RecoverExpiredJobs
  BY <1>4 DEF Moves, RecoverExpiredJobs, Expired, Matured
<1>5. CASE OperatorStep
  <2>1. ASSUME NEW j \in Jobs, NEW runner \in BOOLEAN, CancelJob(j, runner)
        PROVE  Moves(i)
    BY <2>1 DEF Moves, CancelJob
  <2>2. ASSUME NEW j \in Jobs, OperatorCancel(j)
        PROVE  Moves(i)
    BY <2>2 DEF Moves, OperatorCancel
  <2>3. ASSUME NEW s \in {"queued", "dead_letter"}, CancelAll(s)
        PROVE  Moves(i)
    BY <2>3 DEF Moves, CancelAll
  <2>4. ASSUME NEW o \in Operators, NEW e \in Jobs, RequeueWrite(o, e)
        PROVE  Moves(i)
    BY <2>4 DEF Moves, RequeueWrite, RequeueTargets, Rows
  <2>5. ASSUME NEW j \in Jobs, MarkFlakeMutationExecuted(j)
        PROVE  Moves(i)
    BY <2>5 DEF Moves, MarkFlakeMutationExecuted
  <2>6. ASSUME NEW o \in Operators, NEW j \in Jobs, RequeueRead(o, j)
        PROVE  Moves(i)
    BY <2>6 DEF Moves, RequeueRead
  <2> HIDE DEF IInv, TypeOK
  <2> QED BY <1>5, <2>1, <2>2, <2>3, <2>4, <2>5, <2>6 DEF OperatorStep
<1>6. ASSUME state' = state
      PROVE  Moves(i)
  BY <1>6 DEF Moves
<1>7. ASSUME NEW w \in Workers, HerderHeartbeat(w) \/ Crash(w)
      PROVE  state' = state
  BY <1>7 DEF HerderHeartbeat, Crash
<1>8. ASSUME NEW j \in Jobs, Elapse(j) \/ Mature(j)
      PROVE  state' = state
  BY <1>8 DEF Elapse, Mature
<1>9. CASE UNCHANGED vars
  BY <1>9, <1>6 DEF vars
<1> HIDE DEF IInv, TypeOK
<1> QED BY <1>1, <1>2, <1>3, <1>4, <1>5, <1>6, <1>7, <1>8, <1>9 DEF Next

-----------------------------------------------------------------------------
\* The inductive invariant holds in every reachable state.
LEMMA Inductive == Spec => []IInv
<1>1. Init => IInv
  BY RowsAssumption, WorkersAssumption
  DEF Init, IInv, TypeOK, LeaseStatus, Rows, TokensFresh, LeaseColumns,
      SoleHolder, RequeueTargets, AckMeansReaped, NoStop, Active
<1> QED BY <1>1, InvStep, PTL DEF Spec

\* The columns of queue_jobs, the payload keys and the workers' locals keep
\* their types.
THEOREM TypeCorrect == Spec => []TypeOK
<1>1. IInv => TypeOK
  BY DEF IInv
<1> QED BY <1>1, Inductive, PTL

\* A row carries a lease exactly while it is leased or running, whichever of
\* the claiming, reporting, recovering and cancelling statements ran.
THEOREM LeaseColumnsInvariant == Spec => []LeaseColumns
<1>1. IInv => LeaseColumns
  BY DEF IInv
<1> QED BY <1>1, Inductive, PTL

\* At most one worker, of whichever kind, holds the lease of a row, and the
\* row is in the state that worker believes.
THEOREM SoleHolderInvariant == Spec => []SoleHolder
<1>1. IInv => SoleHolder
  BY DEF IInv
<1> QED BY <1>1, Inductive, PTL

\* Once a stop is acknowledged, no process works under the lease it named.
THEOREM AckMeansReapedInvariant == Spec => []AckMeansReaped
<1>1. IInv => AckMeansReaped
  BY DEF IInv
<1> QED BY <1>1, Inductive, PTL

\* No row that ended becomes runnable again.
THEOREM EndedForGood == Spec => EndedStaysEnded
<1>1. IInv /\ [Next]_vars => [EndedStep]_vars
  BY RowStep DEF Moves, EndedStep, Lifecycle!TERMINAL
<1> QED BY <1>1, Inductive, PTL DEF Spec, EndedStaysEnded

\* A worker that lost its lease cannot change the row, whatever its next step.
THEOREM StaleHarmless == Spec => StaleWorkerHarmless
<1>1. IInv /\ [Next]_vars => [StaleStep]_vars
  <2> SUFFICES ASSUME IInv, Next, NEW v \in Workers, NEW i \in Jobs,
                      wjob[v] = i, token[i] # wtoken[v],
                      phase'[v] # phase[v] \/ op'[v] # op[v]
               PROVE  Row(i)' = Row(i)
    BY DEF StaleStep
  <2> USE DEF leaseCols, payload, history, locals
  <2>1. ASSUME NEW w \in Workers, NEW j \in Jobs, Claim(w, j)
        PROVE  FALSE
    BY <2>1, RowsAssumption
    DEF Claim, ClaimWith, IInv, TypeOK, TokensFresh
  <2>2. ASSUME NEW w \in Workers, WorkerStep(w) \/ Crash(w)
        PROVE  w = v
    BY <2>2 DEF IInv, TypeOK, WorkerStep, Open, MarkRunning, NoticeStop,
         AcknowledgeCancellation, CheckpointRunningJob, MarkSucceeded,
         CompleteTreatment, CompleteUnchanged, MarkFailed, MarkDeadLetter,
         RequeueWithBackoff, SucceedClaimedJob, FailClaimedJob,
         HerderMarkRunning, HerderFinish, LostLease, Crash, ToLoop
  <2>3. ~Holds(v) /\ ~HerderHolds(v)
    BY DEF Holds, HerderHolds
  <2>4. ASSUME WorkerStep(v) \/ Crash(v)
        PROVE  UNCHANGED <<state, owner, token, lease, notBefore, attempts,
                           checkpoint, result>>
    BY <2>3, <2>4 DEF WorkerStep, Open, MarkRunning, MayStart, NoticeStop,
         AcknowledgeCancellation, CheckpointRunningJob, MarkSucceeded,
         CompleteTreatment, CompleteUnchanged, MarkFailed, MarkDeadLetter,
         RequeueWithBackoff, MayReport, SucceedClaimedJob, FailClaimedJob,
         MayReportNamed, HerderMarkRunning, HerderFinish, LostLease, Crash
  <2>5. CASE UNCHANGED <<phase, op>>
    BY <2>5
  <2>6. ASSUME NEW w \in Workers, HerderHeartbeat(w)
        PROVE  UNCHANGED <<phase, op>>
    BY <2>6 DEF HerderHeartbeat
  <2>7. ASSUME \/ \E j \in Jobs, nb \in {"null", "later"} : Enqueue(j, nb)
               \/ RecoverExpiredJobs
               \/ \E j \in Jobs : Elapse(j) \/ Mature(j)
               \/ OperatorStep
        PROVE  UNCHANGED <<phase, op>>
    BY <2>7 DEF Enqueue, RecoverExpiredJobs, Elapse, Mature, OperatorStep,
         CancelJob, OperatorCancel, CancelAll, RequeueRead, RequeueWrite,
         MarkFlakeMutationExecuted
  <2> QED BY <2>1, <2>2, <2>4, <2>5, <2>6, <2>7 DEF Next, Row
<1> QED BY <1>1, Inductive, PTL DEF Spec, StaleWorkerHarmless

\* Without flake mutations, the statements implement the declared matrix.
THEOREM ImplementsLifecycle ==
  ASSUME FlakeJobs = {}
  PROVE  Spec => RefinesLifecycle
<1>1. Init => Lifecycle!Init
  BY DEF Init, Lifecycle!Init
<1>2. IInv /\ IInv' /\ [Next]_vars => [Lifecycle!Next]_state
  <2> SUFFICES ASSUME IInv, IInv', [Next]_vars
               PROVE  Lifecycle!Next
    OBVIOUS
  <2>1. state' \in [Jobs -> Lifecycle!STATES \cup {"absent"}]
    BY DEF IInv, TypeOK
  <2>2. ASSUME NEW j \in Jobs
        PROVE  \/ state'[j] = state[j]
               \/ state[j] = "absent" /\ state'[j] = "queued"
               \/ Lifecycle!can_transition(state[j], state'[j])
    <3>1. Moves(j)
      BY RowStep
    <3> QED BY <3>1 DEF Moves, Lifecycle!can_transition, Lifecycle!STATES,
                        Lifecycle!ALLOWED_TRANSITIONS
  <2> QED BY <2>1, <2>2 DEF Lifecycle!Next
<1> QED BY <1>1, <1>2, Inductive, PTL
        DEF Spec, RefinesLifecycle, Lifecycle!Spec
=============================================================================
