----------------------- MODULE PublicationClosureProofs -----------------------
(***************************************************************************)
(* What TLC checks of PublicationClosure with three workers, proved for    *)
(* every number of workers and attempts.                                   *)
(***************************************************************************)
EXTENDS PublicationClosure, TLAPS

\* Places at which a worker holds the advisory lock.
Inside == {"fenced", "publishing", "updating", "undoing", "fencing", "repairing"}

\* The row has a lease exactly while it is worked, and it is the newest one;
\* no two workers were handed the same.
LeasesFresh ==
  /\ token # 0 <=> state \in {"leased", "running"}
  /\ token # 0 => token = attempts
  /\ \A w \in Workers : /\ pc[w] # "idle" => lease[w] # 0
                        /\ lease[w] <= attempts
  /\ \A w, v \in Workers : lease[w] # 0 /\ lease[w] = lease[v] => w = v

\* Who has the two locks.
LocksHeld ==
  /\ \A w \in Workers : pc[w] \in Inside <=> advisory = w
  /\ \A w \in Workers : pc[w] \in {"publishing", "updating"} => rowLock = w
  /\ \A w \in Workers : rowLock = w =>
       pc[w] \in {"publishing", "updating", "undoing"}
  /\ advisory = Backend <=> inflight # 0
  /\ rowLock = Backend <=> inflight # 0

\* While files are being written, and while the database still executes the
\* COMMIT, the row is the publisher's and says so.
PublisherHasRow ==
  /\ code = "closing" => evidence
  /\ \A w \in Workers : pc[w] \in {"publishing", "updating"} =>
       Mine(w) /\ code = "closing" /\ evidence
  /\ inflight # 0 => /\ state = "running" /\ token = inflight
                     /\ code = "closing" /\ evidence
                     /\ inflight \in tree
                     /\ \A w \in Workers :
                          lease[w] = inflight => pc[w] = "ambiguous"

\* Where the files of a lease can be.
FilesKnown ==
  /\ \A n \in tree : n # 0 /\ n <= attempts
  /\ state = "leased" => token \notin tree
  /\ \A w \in Workers :
       /\ pc[w] \in {"leased", "handling", "waiting", "fenced", "publishing",
                     "repairing"} => lease[w] \notin tree
       /\ pc[w] = "undoing" /\ lease[w] \in tree => undo[w]
       /\ pc[w] \in {"updating", "ambiguous"} => lease[w] \in tree /\ undo[w]

\* Nobody is left who would undo a success, or publish after a refusal.
AnswersFinal ==
  /\ state = "succeeded" => \A w \in Workers :
       lease[w] # 0 /\ lease[w] = commit => pc[w] = "ambiguous"
  /\ \A n \in no : /\ n # 0 /\ n <= attempts /\ n # inflight
                        /\ \A w \in Workers : lease[w] # n

IInv == /\ TypeOK
        /\ LeasesFresh /\ LocksHeld /\ PublisherHasRow
        /\ FilesKnown /\ AnswersFinal
        /\ SuccessKeepsFiles /\ AnswerHonest /\ FilesLeaveEvidence

-----------------------------------------------------------------------------
\* Every step keeps columns, locks and locals typed.
LEMMA TypeStep == TypeOK /\ [Next]_vars => TypeOK'
<1> SUFFICES ASSUME TypeOK, [Next]_vars
             PROVE  TypeOK'
  OBVIOUS
<1> USE WorkersAssumption, AttemptsAssumption
    DEF TypeOK, States, Codes, Places, row, locals, told, Goto
<1>1. ASSUME NEW w \in Workers, Claim(w)
      PROVE  TypeOK'
  <2>1. /\ state' \in States /\ token' \in Nat /\ attempts' \in Nat
        /\ code' \in Codes /\ commit' \in Nat
    BY <1>1 DEF Claim
  <2>2. pc' \in [Workers -> Places] /\ lease' \in [Workers -> Nat]
    BY <1>1 DEF Claim
  <2>3. timely' \in [Workers -> BOOLEAN] /\ undo' \in [Workers -> BOOLEAN]
    BY <1>1 DEF Claim
  <2>4. past' \in BOOLEAN
    BY <1>1 DEF Claim
  <2>5. evidence' \in BOOLEAN
    BY <1>1 DEF Claim
  <2> QED BY <1>1, <2>1, <2>2, <2>3, <2>4, <2>5 DEF Claim
<1>2. ASSUME NEW w \in Workers, MarkRunning(w)
      PROVE  TypeOK'
  <2>1. /\ state' \in States /\ token' \in Nat /\ attempts' \in Nat
        /\ code' \in Codes /\ commit' \in Nat
    BY <1>2 DEF MarkRunning, Leave
  <2>2. pc' \in [Workers -> Places] /\ lease' \in [Workers -> Nat]
    BY <1>2 DEF MarkRunning, Leave
  <2>3. timely' \in [Workers -> BOOLEAN] /\ undo' \in [Workers -> BOOLEAN]
    BY <1>2 DEF MarkRunning, Leave
  <2>4. past' \in BOOLEAN
    BY <1>2 DEF MarkRunning, Leave
  <2>5. evidence' \in BOOLEAN
    BY <1>2 DEF MarkRunning, Leave
  <2> QED BY <1>2, <2>1, <2>2, <2>3, <2>4, <2>5 DEF MarkRunning, Leave
<1>3. ASSUME NEW w \in Workers, MarkFailed(w)
      PROVE  TypeOK'
  BY <1>3 DEF MarkFailed, Leave, Unleased
<1>4. ASSUME NEW w \in Workers, Begin(w)
      PROVE  TypeOK'
  BY <1>4 DEF Begin
<1>5. ASSUME NEW w \in Workers, Fence(w)
      PROVE  TypeOK'
  <2>1. /\ state' \in States /\ token' \in Nat /\ attempts' \in Nat
        /\ code' \in Codes /\ commit' \in Nat
    BY <1>5 DEF Fence, Fencing, Leave
  <2>2. pc' \in [Workers -> Places] /\ lease' \in [Workers -> Nat]
    BY <1>5 DEF Fence, Fencing, Leave
  <2>3. timely' \in [Workers -> BOOLEAN] /\ undo' \in [Workers -> BOOLEAN]
    BY <1>5 DEF Fence, Fencing, Leave
  <2>4. past' \in BOOLEAN
    BY <1>5 DEF Fence, Fencing, Leave
  <2>5. evidence' \in BOOLEAN
    BY <1>5 DEF Fence, Fencing, Leave
  <2> QED BY <1>5, <2>1, <2>2, <2>3, <2>4, <2>5 DEF Fence, Fencing, Leave
<1>6. ASSUME NEW w \in Workers, Refuse(w)
      PROVE  TypeOK'
  BY <1>6 DEF Refuse, Leave
<1>7. ASSUME NEW w \in Workers, Relock(w)
      PROVE  TypeOK'
  BY <1>7 DEF Relock
<1>8. ASSUME NEW w \in Workers, Publish(w)
      PROVE  TypeOK'
  <2>1. undo' \in [Workers -> BOOLEAN] /\ pc' \in [Workers -> Places]
    BY <1>8 DEF Publish
  <2>2. tree' \subseteq Nat
    <3>1. tree' = tree \/ tree' = tree \cup {lease[w]}
      BY <1>8 DEF Publish
    <3>2. lease[w] \in Nat
      OBVIOUS
    <3> QED BY <3>1, <3>2
  <2> QED BY <1>8, <2>1, <2>2 DEF Publish
<1>9. ASSUME NEW w \in Workers, Commit(w)
      PROVE  TypeOK'
  <2>1. /\ state' \in States /\ token' \in Nat /\ attempts' \in Nat
        /\ code' \in Codes /\ commit' \in Nat
    BY <1>9 DEF Commit, Success, Unleased, Leave, Disconnect, Released
  <2>2. pc' \in [Workers -> Places] /\ lease' \in [Workers -> Nat]
    BY <1>9 DEF Commit, Success, Unleased, Leave, Disconnect, Released
  <2>3. timely' \in [Workers -> BOOLEAN] /\ undo' \in [Workers -> BOOLEAN]
    BY <1>9 DEF Commit, Success, Unleased, Leave, Disconnect, Released
  <2>4. past' \in BOOLEAN
    BY <1>9 DEF Commit, Success, Unleased, Leave, Disconnect, Released
  <2>5. evidence' \in BOOLEAN
    BY <1>9 DEF Commit, Success, Unleased, Leave, Disconnect, Released
  <2>6. inflight' \in Nat /\ yes' \subseteq Nat
    <3>1. yes' = yes \/ yes' = yes \cup {lease[w]}
      BY <1>9 DEF Commit
    <3>2. inflight' \in Nat /\ lease[w] \in Nat
      BY <1>9 DEF Commit
    <3> QED BY <3>1, <3>2
  <2> QED BY <1>9, <2>1, <2>2, <2>3, <2>4, <2>5, <2>6
      DEF Commit, Disconnect, Released
<1>10. ASSUME NEW w \in Workers, Reconnect(w)
       PROVE  TypeOK'
  <2>1. /\ state' \in States /\ token' \in Nat /\ attempts' \in Nat
        /\ code' \in Codes /\ commit' \in Nat
    BY <1>10 DEF Reconnect, MayRead, Leave
  <2>2. pc' \in [Workers -> Places] /\ lease' \in [Workers -> Nat]
    BY <1>10 DEF Reconnect, MayRead, Leave
  <2>3. timely' \in [Workers -> BOOLEAN] /\ undo' \in [Workers -> BOOLEAN]
    BY <1>10 DEF Reconnect, MayRead, Leave
  <2>4. past' \in BOOLEAN
    BY <1>10 DEF Reconnect, MayRead, Leave
  <2>5. evidence' \in BOOLEAN
    BY <1>10 DEF Reconnect, MayRead, Leave
  <2> QED BY <1>10, <2>1, <2>2, <2>3, <2>4, <2>5 DEF Reconnect, MayRead, Leave
<1>11. ASSUME NEW w \in Workers, Undo(w)
       PROVE  TypeOK'
  BY <1>11 DEF Undo, Released
<1>12. ASSUME NEW w \in Workers, FenceFailed(w)
       PROVE  TypeOK'
  <2>1. /\ state' \in States /\ token' \in Nat /\ attempts' \in Nat
        /\ code' \in Codes /\ commit' \in Nat
    BY <1>12 DEF FenceFailed, Fenced, Unleased, Leave, Disconnect, Released
  <2>2. pc' \in [Workers -> Places] /\ lease' \in [Workers -> Nat]
    BY <1>12 DEF FenceFailed, Fenced, Unleased, Leave, Disconnect, Released
  <2>3. timely' \in [Workers -> BOOLEAN] /\ undo' \in [Workers -> BOOLEAN]
    BY <1>12 DEF FenceFailed, Fenced, Unleased, Leave, Disconnect, Released
  <2>4. past' \in BOOLEAN
    BY <1>12 DEF FenceFailed, Fenced, Unleased, Leave, Disconnect, Released
  <2>5. evidence' \in BOOLEAN
    BY <1>12 DEF FenceFailed, Fenced, Unleased, Leave, Disconnect, Released
  <2> QED BY <1>12, <2>1, <2>2, <2>3, <2>4, <2>5
      DEF FenceFailed, Disconnect, Released
<1>13. ASSUME NEW w \in Workers, Repair(w)
       PROVE  TypeOK'
  BY <1>13 DEF Repair, RepairMatches, Leave, Disconnect, Released
<1>14. ASSUME NEW w \in Workers, Crash(w)
       PROVE  TypeOK'
  BY <1>14 DEF Crash, Leave, Disconnect, Released
<1>15. CASE BackendDone
  <2>1. /\ state' \in States /\ token' \in Nat /\ attempts' \in Nat
        /\ code' \in Codes /\ commit' \in Nat
    BY <1>15 DEF BackendDone, Success, Unleased
  <2>2. pc' \in [Workers -> Places] /\ lease' \in [Workers -> Nat]
    BY <1>15 DEF BackendDone, Success, Unleased
  <2>3. timely' \in [Workers -> BOOLEAN] /\ undo' \in [Workers -> BOOLEAN]
    BY <1>15 DEF BackendDone, Success, Unleased
  <2>4. past' \in BOOLEAN
    BY <1>15 DEF BackendDone, Success, Unleased
  <2>5. evidence' \in BOOLEAN
    BY <1>15 DEF BackendDone, Success, Unleased
  <2> QED BY <1>15, <2>1, <2>2, <2>3, <2>4, <2>5 DEF BackendDone
<1>16. CASE Cancel
  BY <1>16 DEF Cancel, Unleased, Refuses
<1>17. CASE Recover
  <2>1. /\ state' \in States /\ token' \in Nat /\ attempts' \in Nat
        /\ code' \in Codes /\ commit' \in Nat
    BY <1>17 DEF Recover, Unleased
  <2>2. pc' \in [Workers -> Places] /\ lease' \in [Workers -> Nat]
    BY <1>17 DEF Recover, Unleased
  <2>3. timely' \in [Workers -> BOOLEAN] /\ undo' \in [Workers -> BOOLEAN]
    BY <1>17 DEF Recover, Unleased
  <2>4. past' \in BOOLEAN
    BY <1>17 DEF Recover, Unleased
  <2>5. evidence' \in BOOLEAN
    BY <1>17 DEF Recover, Unleased
  <2> QED BY <1>17, <2>1, <2>2, <2>3, <2>4, <2>5 DEF Recover, Unleased
<1>18. CASE Elapse
  BY <1>18 DEF Elapse
<1>19. CASE UNCHANGED vars
  BY <1>19 DEF vars
<1> HIDE DEF TypeOK
<1> QED BY <1>1, <1>2, <1>3, <1>4, <1>5, <1>6, <1>7, <1>8, <1>9, <1>10, <1>11,
           <1>12, <1>13, <1>14, <1>15, <1>16, <1>17, <1>18, <1>19
        DEF Next, Closing

\* Every step keeps the inductive invariant.
LEMMA InvStep == IInv /\ [Next]_vars => IInv'
<1> SUFFICES ASSUME IInv, [Next]_vars
             PROVE  IInv'
  OBVIOUS
<1> DEFINE Rest == /\ LeasesFresh /\ LocksHeld /\ PublisherHasRow /\ FilesKnown
                   /\ AnswersFinal /\ SuccessKeepsFiles /\ AnswerHonest
                   /\ FilesLeaveEvidence
<1>0. TypeOK'
  BY TypeStep DEF IInv
<1> SUFFICES Rest'
  BY <1>0 DEF Rest, IInv
<1> HIDE DEF Rest
<1> USE WorkersAssumption, AttemptsAssumption, <1>0
    DEF IInv, TypeOK, Inside, Mine, row, locals, told, Goto,
        LeasesFresh, LocksHeld, PublisherHasRow, FilesKnown, AnswersFinal,
        SuccessKeepsFiles, AnswerHonest, FilesLeaveEvidence
<1>1. ASSUME NEW w \in Workers, Claim(w)
      PROVE  Rest'
  BY <1>1 DEF Rest, Claim
<1>2. ASSUME NEW w \in Workers, MarkRunning(w)
      PROVE  Rest'
  BY <1>2 DEF Rest, MarkRunning, Leave
<1>3. ASSUME NEW w \in Workers, MarkFailed(w)
      PROVE  Rest'
  BY <1>3 DEF Rest, MarkFailed, Leave, Unleased
<1>4. ASSUME NEW w \in Workers, Begin(w)
      PROVE  Rest'
  BY <1>4 DEF Rest, Begin
<1>5. ASSUME NEW w \in Workers, Fence(w)
      PROVE  Rest'
  BY <1>5 DEF Rest, Fence, Fencing, Leave
<1>6. ASSUME NEW w \in Workers, Refuse(w)
      PROVE  Rest'
  BY <1>6 DEF Rest, Refuse, Leave
<1>7. ASSUME NEW w \in Workers, Relock(w)
      PROVE  Rest'
  BY <1>7 DEF Rest, Relock
<1>8. ASSUME NEW w \in Workers, Publish(w)
      PROVE  Rest'
  BY <1>8 DEF Rest, Publish
<1>9. ASSUME NEW w \in Workers, Commit(w)
      PROVE  Rest'
  BY <1>9 DEF Rest, Commit, Success, Unleased, Leave, Disconnect, Released
<1>10. ASSUME NEW w \in Workers, Reconnect(w)
       PROVE  Rest'
  BY <1>10 DEF Rest, Reconnect, MayRead, Leave
<1>11. ASSUME NEW w \in Workers, Undo(w)
       PROVE  Rest'
  BY <1>11 DEF Rest, Undo, Released
<1>12. ASSUME NEW w \in Workers, FenceFailed(w)
       PROVE  Rest'
  BY <1>12 DEF Rest, FenceFailed, Fenced, Unleased, Leave, Disconnect, Released
<1>13. ASSUME NEW w \in Workers, Repair(w)
       PROVE  Rest'
  <2>1. /\ LeasesFresh' /\ LocksHeld' /\ PublisherHasRow' /\ FilesKnown'
        /\ AnswersFinal' /\ SuccessKeepsFiles' /\ AnswerHonest'
    BY <1>13 DEF Repair, RepairMatches, Leave, Disconnect, Released
  <2>2. FilesLeaveEvidence'
    <3>1. CASE RepairMatches(w)
      BY <1>13, <3>1 DEF Repair, RepairMatches
    <3>2. CASE UNCHANGED <<code, evidence>>
      BY <1>13, <3>2 DEF Repair
    <3> QED BY <1>13, <3>1, <3>2 DEF Repair
  <2> QED BY <2>1, <2>2 DEF Rest
<1>14. ASSUME NEW w \in Workers, Crash(w)
       PROVE  Rest'
  BY <1>14 DEF Rest, Crash, Leave, Disconnect, Released
<1>15. CASE BackendDone
  <2>1. /\ state = "running" /\ token = inflight /\ token = attempts
        /\ code = "closing" /\ evidence /\ inflight \in tree
        /\ advisory = Backend /\ rowLock = Backend
    BY <1>15 DEF BackendDone
  <2>2. \A w \in Workers : /\ pc[w] \notin Inside /\ rowLock # w
                          /\ lease[w] = inflight => pc[w] = "ambiguous"
    BY <1>15, <2>1 DEF BackendDone
  <2>3. CASE Success(inflight)
    BY <1>15, <2>1, <2>2, <2>3 DEF Rest, BackendDone, Success, Unleased
  <2>4. CASE UNCHANGED row
    BY <1>15, <2>1, <2>2, <2>4 DEF Rest, BackendDone
  <2> QED BY <1>15, <2>3, <2>4 DEF BackendDone
<1>16. CASE Cancel
  BY <1>16 DEF Rest, Cancel, Unleased, Refuses
<1>17. CASE Recover
  BY <1>17 DEF Rest, Recover, Unleased
<1>18. CASE Elapse
  BY <1>18 DEF Rest, Elapse
<1>19. CASE UNCHANGED vars
  BY <1>19 DEF Rest, vars
<1> QED BY <1>1, <1>2, <1>3, <1>4, <1>5, <1>6, <1>7, <1>8, <1>9, <1>10, <1>11,
           <1>12, <1>13, <1>14, <1>15, <1>16, <1>17, <1>18, <1>19
        DEF Next, Closing

\* The inductive invariant holds in every reachable state.
LEMMA Inductive == Spec => []IInv
<1>1. Init => IInv
  <2> SUFFICES ASSUME Init
               PROVE  IInv
    OBVIOUS
  <2> USE WorkersAssumption, AttemptsAssumption
      DEF Init, TypeOK, States, Codes, Places, Inside, Mine
  <2>1. TypeOK
    OBVIOUS
  <2>2. LeasesFresh /\ LocksHeld /\ PublisherHasRow /\ FilesKnown /\ AnswersFinal
    BY DEF LeasesFresh, LocksHeld, PublisherHasRow, FilesKnown, AnswersFinal
  <2>3. SuccessKeepsFiles /\ AnswerHonest /\ FilesLeaveEvidence
    BY DEF SuccessKeepsFiles, AnswerHonest, FilesLeaveEvidence
  <2> QED BY <2>1, <2>2, <2>3 DEF IInv
<1> QED BY <1>1, InvStep, PTL DEF Spec

-----------------------------------------------------------------------------
\* The columns, locks and locals of close_local_success keep their types.
THEOREM TypeCorrect == Spec => []TypeOK
BY Inductive, PTL DEF IInv

\* The files of a durably succeeded row are never compensated away.
THEOREM SuccessKeepsFilesInvariant == Spec => []SuccessKeepsFiles
BY Inductive, PTL DEF IInv

\* close_local_success answers True only to the lease that completed the row
\* and has its files in place, and False only to one that wrote none.
THEOREM AnswerHonestInvariant == Spec => []AnswerHonest
BY Inductive, PTL DEF IInv

\* A running row whose lease has files in place carries the repair evidence.
THEOREM FilesLeaveEvidenceInvariant == Spec => []FilesLeaveEvidence
BY Inductive, PTL DEF IInv

\* cancel_job takes no row from a lease that has published its files.
THEOREM StopIsHonest == Spec => StopHonest
<1>1. IInv /\ [Next]_vars => [state' = "cancelled" /\ state # "cancelled"
                                => token \notin tree]_vars
  <2> SUFFICES ASSUME IInv, Next, state' = "cancelled", state # "cancelled"
               PROVE  token \notin tree
    BY DEF vars
  <2>1. Cancel
    BY DEF Next, Closing, Claim, MarkRunning, MarkFailed, Begin, Fence, Refuse,
           Relock, Publish, Commit, Success, BackendDone, Reconnect, Undo,
           FenceFailed, Fenced, Repair, Crash, Recover, Elapse, row
  <2> QED BY <2>1 DEF Cancel, Refuses, IInv, TypeOK, LeasesFresh, FilesKnown,
                      FilesLeaveEvidence
<1> QED BY <1>1, Inductive, PTL DEF Spec, StopHonest

-----------------------------------------------------------------------------
\* The row as the only one of the abstract lifecycle.
Lifecycle == INSTANCE JobLifecycle WITH Jobs <- {0}, state <- [j \in {0} |-> state]

\* The closing condition, the lost COMMIT and the compensation move the row only
\* along ALLOWED_TRANSITIONS: every step of close_local_success and of those
\* who interfere with it is a step of the declared lifecycle, as are those of
\* the statements in JobQueue.
THEOREM FollowsLifecycle ==
  Spec => [][Lifecycle!Next]_[j \in {0} |-> state]
<1>1. IInv /\ [Next]_vars => [Lifecycle!Next]_[j \in {0} |-> state]
  <2> SUFFICES ASSUME IInv, [Next]_vars, state' # state
               PROVE  Lifecycle!Next
    OBVIOUS
  <2>1. state \in States /\ state' \in States
    BY TypeStep DEF IInv, TypeOK
  <2>2. \/ state = "queued" /\ state' \in {"leased", "cancelled"}
        \/ state = "leased" /\ state' \in {"running", "queued", "cancelled", "dead_letter"}
        \/ state = "running" /\ state' \in {"succeeded", "retry_wait", "failed", "queued",
                                            "cancelled", "dead_letter"}
        \/ state = "retry_wait" /\ state' \in {"queued", "cancelled"}
    <3>1. CASE \E w \in Workers : Claim(w) \/ MarkRunning(w) \/ MarkFailed(w)
      BY <3>1 DEF Claim, MarkRunning, MarkFailed, Mine
    <3>2. CASE \E w \in Workers : Commit(w)
      BY <3>2 DEF Commit, Success, IInv, PublisherHasRow, Mine, row
    <3>3. CASE \E w \in Workers : FenceFailed(w)
      BY <3>3 DEF FenceFailed, Fenced, row
    <3>4. CASE BackendDone
      BY <3>4 DEF BackendDone, Success, IInv, PublisherHasRow, row
    <3>5. CASE Cancel \/ Recover
      BY <3>5 DEF Cancel, Recover
    <3>6. ASSUME NEW w \in Workers, Begin(w) \/ Fence(w) \/ Refuse(w) \/ Relock(w)
                   \/ Publish(w) \/ Reconnect(w) \/ Undo(w) \/ Repair(w) \/ Crash(w)
          PROVE  FALSE
      BY <3>6 DEF Begin, Fence, Refuse, Relock, Publish, Reconnect, Undo, Repair,
                  Crash, row
    <3>7. ASSUME Elapse \/ UNCHANGED vars
          PROVE  FALSE
      BY <3>7 DEF Elapse, vars, row
    <3> QED BY <3>1, <3>2, <3>3, <3>4, <3>5, <3>6, <3>7 DEF Next, Closing
  <2>3. Lifecycle!can_transition(state, state')
    BY <2>2 DEF Lifecycle!can_transition, Lifecycle!STATES,
                Lifecycle!ALLOWED_TRANSITIONS
  <2> QED BY <2>1, <2>3 DEF Lifecycle!Next, Lifecycle!STATES, States
<1> QED BY <1>1, Inductive, PTL DEF Spec
=============================================================================
