------------------------- MODULE PublicationClosure -------------------------
(***************************************************************************)
(* close_local_success: a worker puts the files of a finished coding job   *)
(* in place between two commits on the job's row, while operators stop the *)
(* job, leases expire and are recovered, COMMIT answers get lost and       *)
(* processes die.                                                          *)
(*                                                                         *)
(* One row.  A lease is the number of the claim that granted it: owner and *)
(* lease_token in one, since every claim draws a new token.  The files are *)
(* the set of leases whose publication is in place.                        *)
(***************************************************************************)
EXTENDS Naturals

CONSTANTS
  Workers,
  MaxAttempts,  \* max_attempts of the row, and so a bound on its leases
  Free,         \* nobody holds the lock
  Backend       \* a database session whose client got an error from COMMIT

ASSUME WorkersAssumption ==
  Free \notin Workers /\ Backend \notin Workers /\ Free # Backend
ASSUME AttemptsAssumption == MaxAttempts \in Nat \ {0}

VARIABLES
  state, token, past, attempts,  \* columns of the row; token: its lease (0: none)
  code,       \* error_code
  evidence,   \* payload_json has publication_reconciliation
  commit,     \* lease named by payload_json's publication_commit (0: none)
  pc, lease,  \* where each worker is, and the lease it was handed (0: none)
  timely,     \* its lease had not expired when its transaction began
  undo,       \* register_undo has been called
  advisory,   \* holder of the advisory lock (job_id, 1792)
  rowLock,    \* holder of a row lock that outlasts a statement
  inflight,   \* the lease whose final COMMIT the Backend still executes
  tree,       \* leases whose files are in place
  yes, no     \* history: leases to which close_local_success answered so

row    == <<state, token, past, attempts, code, evidence, commit>>
locals == <<pc, lease, timely, undo>>
told   == <<yes, no>>
vars   == <<row, locals, advisory, rowLock, inflight, tree, told>>

States == {"queued", "retry_wait", "leased", "running",
           "succeeded", "failed", "dead_letter", "cancelled"}
Codes == {"none", "closing", "reconcile", "expired", "exception", "cancelled"}

Places == {"idle", "leased", "handling", "waiting", "fenced", "publishing",
           "updating", "ambiguous", "undoing", "fencing", "repairing"}

Init ==
  /\ state = "queued" /\ token = 0 /\ past = FALSE /\ attempts = 0
  /\ code = "none" /\ evidence = FALSE /\ commit = 0
  /\ pc = [w \in Workers |-> "idle"]
  /\ lease = [w \in Workers |-> 0]
  /\ timely = [w \in Workers |-> FALSE]
  /\ undo = [w \in Workers |-> FALSE]
  /\ advisory = Free
  /\ rowLock = Free
  /\ inflight = 0
  /\ tree = {}
  /\ yes = {} /\ no = {}

-----------------------------------------------------------------------------
Goto(w, p) == pc' = [pc EXCEPT ![w] = p]

\* The call, or the process, is over: back to the poll loop.
Leave(w) ==
  /\ Goto(w, "idle")
  /\ lease' = [lease EXCEPT ![w] = 0]
  /\ timely' = [timely EXCEPT ![w] = FALSE]
  /\ undo' = [undo EXCEPT ![w] = FALSE]

\* Mutant: the unlock is forgotten.
Released_Never(lock, w) == lock

\* What a lock is once w's session has ended or released it.
Released(lock, w) == IF lock = w THEN Free ELSE lock

\* w's session ends: its transaction is rolled back and its locks are gone.
Disconnect(w) ==
  /\ advisory' = Released(advisory, w)
  /\ rowLock' = Released(rowLock, w)

Mine(w) == state = "running" /\ token = lease[w]

\* The row keeps no lease when it stops being worked.
Unleased == token' = 0 /\ past' = FALSE

-----------------------------------------------------------------------------
(* claim_queue_jobs (error_code and payload stay), then mark_running. *)
Claim(w) ==
  /\ pc[w] = "idle"
  /\ state = "queued"
  /\ state' = "leased" /\ past' = FALSE
  /\ attempts' = attempts + 1 /\ token' = attempts + 1
  /\ lease' = [lease EXCEPT ![w] = attempts + 1]
  /\ Goto(w, "leased")
  /\ UNCHANGED <<code, evidence, commit, timely, undo,
                 advisory, rowLock, inflight, tree, told>>

MarkRunning(w) ==
  /\ pc[w] = "leased"
  /\ \/ /\ state = "leased" /\ token = lease[w] /\ ~past
        /\ state' = "running"
        /\ Goto(w, "handling")
        /\ UNCHANGED <<lease, timely, undo>>
     \/ /\ token # lease[w] \/ past
        /\ Leave(w)
        /\ UNCHANGED state
  /\ UNCHANGED <<token, past, attempts, code, evidence, commit,
                 advisory, rowLock, inflight, tree, told>>

(* mark_failed: handle() raised. *)
MarkFailed(w) ==
  /\ pc[w] = "handling"
  /\ Mine(w) /\ ~past
  /\ state' = IF attempts >= MaxAttempts THEN "dead_letter" ELSE "retry_wait"
  /\ code' = "exception"
  /\ Unleased
  /\ Leave(w)
  /\ UNCHANGED <<attempts, evidence, commit,
                 advisory, rowLock, inflight, tree, told>>

-----------------------------------------------------------------------------
(* close_local_success begins a transaction, whose NOW() it keeps, and waits
   for the advisory lock. *)
Begin(w) ==
  /\ pc[w] = "handling"
  /\ timely' = [timely EXCEPT ![w] = ~past]
  /\ Goto(w, "waiting")
  /\ UNCHANGED <<row, lease, undo, advisory, rowLock, inflight, tree, told>>

\* Mutant: the closing condition is not recorded in the payload.
Fencing_CodeOnly == code' = "closing" /\ UNCHANGED evidence

\* The UPDATE that makes the row non-cancellable before any file is written.
Fencing == code' = "closing" /\ evidence' = TRUE

\* The lock is there and so is the lease: the closing condition is committed.
Fence(w) ==
  /\ pc[w] = "waiting"
  /\ advisory = Free /\ rowLock = Free
  /\ Mine(w) /\ timely[w]
  /\ Fencing
  /\ \/ /\ Goto(w, "fenced")
        /\ advisory' = w
        /\ UNCHANGED <<lease, timely, undo>>
     \/ Leave(w) /\ UNCHANGED advisory   \* committed, but COMMIT raised
  /\ UNCHANGED <<state, token, past, attempts, commit,
                 rowLock, inflight, tree, told>>

\* ... or somebody else has the row by now: return False.
Refuse(w) ==
  /\ pc[w] = "waiting"
  /\ advisory = Free /\ rowLock = Free
  /\ ~(Mine(w) /\ timely[w])
  /\ no' = no \cup {lease[w]}
  /\ Leave(w)
  /\ UNCHANGED <<row, yes, advisory, rowLock, inflight, tree>>

(* The second transaction locks the row again, unless recovery took it. *)
Relock(w) ==
  /\ pc[w] = "fenced"
  /\ rowLock = Free
  /\ IF Mine(w) /\ code = "closing"
     THEN Goto(w, "publishing") /\ rowLock' = w
     ELSE Goto(w, "undoing") /\ UNCHANGED rowLock
  /\ UNCHANGED <<row, lease, timely, undo, advisory, inflight, tree, told>>

(* publish(register_undo): registers the undo before it writes a file, and
   may raise before, between and after. *)
Publish(w) ==
  /\ pc[w] = "publishing"
  /\ \/ UNCHANGED <<undo, tree>> /\ Goto(w, "undoing")
     \/ /\ undo' = [undo EXCEPT ![w] = TRUE]
        /\ \/ UNCHANGED tree /\ Goto(w, "undoing")
           \/ /\ tree' = tree \cup {lease[w]}
              /\ Goto(w, "undoing") \/ Goto(w, "updating")
  /\ UNCHANGED <<row, lease, timely, advisory, rowLock, inflight, told>>

-----------------------------------------------------------------------------
\* Mutant: success keeps the previous lease's commit record.
Success_OldCommit(n) ==
  /\ state' = "succeeded" /\ code' = "none" /\ evidence' = FALSE
  /\ Unleased
  /\ UNCHANGED <<attempts, commit>>

\* The UPDATE to succeeded, with the commit record of lease n.
Success(n) ==
  /\ state' = "succeeded" /\ code' = "none" /\ evidence' = FALSE /\ commit' = n
  /\ Unleased
  /\ UNCHANGED attempts

(* UPDATE and COMMIT: both succeed; or the UPDATE raises; or the client gets
   an error from COMMIT, which the database still executes. *)
Commit(w) ==
  /\ pc[w] = "updating"
  /\ \/ /\ Success(lease[w])
        /\ yes' = yes \cup {lease[w]}
        /\ Leave(w)
        /\ Disconnect(w)
        /\ UNCHANGED inflight
     \/ /\ Goto(w, "undoing")
        /\ UNCHANGED <<row, lease, timely, undo,
                       advisory, rowLock, inflight, yes>>
     \/ /\ Goto(w, "ambiguous")
        /\ inflight' = lease[w]
        /\ advisory' = Backend /\ rowLock' = Backend
        /\ UNCHANGED <<row, lease, timely, undo, yes>>
  /\ UNCHANGED <<tree, no>>

(* The database finishes the COMMIT, one way or the other, and the orphaned
   session ends. *)
BackendDone ==
  /\ inflight # 0
  /\ Success(inflight) \/ UNCHANGED row
  /\ inflight' = 0
  /\ advisory' = Free /\ rowLock' = Free
  /\ UNCHANGED <<locals, tree, told>>

\* Mutant: the durable state is read without the advisory lock.
MayRead_Unlocked == TRUE

\* The new session must hold the lock before it reads.
MayRead == advisory = Free

(* A new session takes the lock and reads what has become of the row: success
   is reported, an open closure is compensated, anything else is left for
   reconciliation, as it is when the database cannot be reached. *)
Reconnect(w) ==
  /\ pc[w] = "ambiguous"
  /\ \/ /\ MayRead
        /\ \/ /\ state = "succeeded" /\ commit = lease[w]
              /\ yes' = yes \cup {lease[w]}
              /\ Leave(w)
              /\ UNCHANGED advisory
           \/ /\ Mine(w) /\ evidence
              /\ advisory' = w
              /\ Goto(w, "undoing")
              /\ UNCHANGED <<lease, timely, undo, yes>>
           \/ /\ ~(state = "succeeded" /\ commit = lease[w])
              /\ ~(Mine(w) /\ evidence)
              /\ Leave(w)
              /\ UNCHANGED <<advisory, yes>>
     \/ Leave(w) /\ UNCHANGED <<advisory, yes>>
  /\ UNCHANGED <<row, rowLock, inflight, tree, no>>

(* rollback_publication(), if there is one, then con.rollback(). *)
Undo(w) ==
  /\ pc[w] = "undoing"
  /\ \/ ~undo[w] /\ UNCHANGED tree /\ Goto(w, "repairing")
     \/ undo[w] /\ tree' = tree \ {lease[w]} /\ Goto(w, "repairing")
     \/ undo[w] /\ UNCHANGED tree /\ Goto(w, "fencing")
  /\ rowLock' = Released(rowLock, w)
  /\ UNCHANGED <<row, lease, timely, undo, advisory, inflight, told>>

\* The failed compensation is recorded, whoever has the lease.
Fenced ==
  /\ state = "running" /\ code = "closing"
  /\ state' = "failed" /\ code' = "reconcile" /\ evidence' = TRUE
  /\ Unleased
  /\ UNCHANGED <<attempts, commit>>

(* Compensation failed: mark the row, if that can be done, and raise. *)
FenceFailed(w) ==
  /\ pc[w] = "fencing"
  /\ rowLock = Free
  /\ Fenced \/ UNCHANGED row
  /\ Leave(w)
  /\ Disconnect(w)
  /\ UNCHANGED <<inflight, tree, told>>

\* WHERE clause of the repair.
RepairMatches(w) == Mine(w) /\ code = "closing"

(* Compensation succeeded: lift the closing condition, if that can be done,
   and raise. *)
Repair(w) ==
  /\ pc[w] = "repairing"
  /\ rowLock = Free
  /\ \/ RepairMatches(w) /\ code' = "none" /\ evidence' = FALSE
     \/ UNCHANGED <<code, evidence>>
  /\ Leave(w)
  /\ Disconnect(w)
  /\ UNCHANGED <<state, token, past, attempts, commit, inflight, tree, told>>

Crash(w) ==
  /\ pc[w] # "idle"
  /\ Leave(w)
  /\ Disconnect(w)
  /\ UNCHANGED <<row, inflight, tree, told>>

-----------------------------------------------------------------------------
\* Mutant: only a failed compensation stops a cancellation.
Refuses_ReconcileOnly == state = "running" /\ code = "reconcile"

\* cancel_job leaves a running row alone that is being published.
Refuses == state = "running" /\ code \in {"closing", "reconcile"}

(* cancel_job, under the same advisory lock. *)
Cancel ==
  /\ advisory = Free /\ rowLock = Free
  /\ state \in {"queued", "leased", "running", "retry_wait"}
  /\ ~Refuses
  /\ state' = "cancelled" /\ code' = "cancelled"
  /\ Unleased
  /\ UNCHANGED <<attempts, evidence, commit, locals,
                 advisory, rowLock, inflight, tree, told>>

(* recover_expired_jobs: error_code is kept when there is one; takes no
   advisory lock.  And a retry becomes due. *)
Recover ==
  /\ rowLock = Free
  /\ \/ /\ state \in {"leased", "running"} /\ past
        /\ state' = IF attempts >= MaxAttempts THEN "dead_letter" ELSE "queued"
        /\ code' = IF code = "none" THEN "expired" ELSE code
        /\ Unleased
     \/ /\ state = "retry_wait"
        /\ state' = "queued"
        /\ UNCHANGED <<token, past, code>>
  /\ UNCHANGED <<attempts, evidence, commit, locals,
                 advisory, rowLock, inflight, tree, told>>

\* Time passes.
Elapse ==
  /\ token # 0 /\ ~past
  /\ past' = TRUE
  /\ UNCHANGED <<state, token, attempts, code, evidence, commit, locals,
                 advisory, rowLock, inflight, tree, told>>

-----------------------------------------------------------------------------
\* The steps of the call; everything after it has the advisory lock is finite.
Closing(w) ==
  \/ Fence(w) \/ Refuse(w) \/ Relock(w) \/ Publish(w) \/ Commit(w)
  \/ Reconnect(w) \/ Undo(w) \/ FenceFailed(w) \/ Repair(w)

Next ==
  \/ \E w \in Workers : \/ Claim(w) \/ MarkRunning(w) \/ MarkFailed(w)
                        \/ Begin(w) \/ Closing(w) \/ Crash(w)
  \/ BackendDone
  \/ Cancel
  \/ Recover
  \/ Elapse

Spec == Init /\ [][Next]_vars

\* A call under way goes on, and the database answers.
FairSpec ==
  /\ Spec
  /\ \A w \in Workers : WF_vars(Closing(w))
  /\ WF_vars(BackendDone)

-----------------------------------------------------------------------------
\* Columns, locks and locals have their types.
TypeOK ==
  /\ state \in States /\ token \in Nat /\ past \in BOOLEAN /\ attempts \in Nat
  /\ code \in Codes /\ evidence \in BOOLEAN /\ commit \in Nat
  /\ pc \in [Workers -> Places]
  /\ lease \in [Workers -> Nat]
  /\ timely \in [Workers -> BOOLEAN]
  /\ undo \in [Workers -> BOOLEAN]
  /\ advisory \in Workers \cup {Free, Backend}
  /\ rowLock \in Workers \cup {Free, Backend}
  /\ inflight \in Nat
  /\ tree \subseteq Nat
  /\ yes \subseteq Nat /\ no \subseteq Nat

\* "A client-side commit error does not say whether PostgreSQL made the
\* transaction durable": whatever the client saw, the files of a row that is
\* durably succeeded are never taken away by the compensation.
SuccessKeepsFiles == state = "succeeded" => commit \in tree

\* close_local_success answers truthfully: True means that exactly this lease
\* completed the row and its files are in place, False that it wrote none.
AnswerHonest ==
  /\ \A n \in yes : state = "succeeded" /\ commit = n /\ n \in tree
  /\ no \cap tree = {}

\* "the already-committed closing condition remains repair evidence": while
\* the lease that put files in place is on the running row, the row says so.
FilesLeaveEvidence ==
  state = "running" /\ token \in tree =>
    code = "closing" /\ evidence

\* "Stop cannot misrepresent the row as cancelled work": no cancellation takes
\* a row from the lease that has published its files.
StopHonest ==
  [][state' = "cancelled" /\ state # "cancelled"
       => token \notin tree]_vars

\* A call that holds the advisory lock, or waits for the outcome of its COMMIT,
\* releases it: an operator's Stop does not wait for ever.
LockReleased == advisory # Free ~> advisory = Free

\* "Stop cannot misrepresent the row as cancelled work" after recovery, too: a
\* cancelled row has no files in place.
CancelledUnpublished == state = "cancelled" => tree = {}
=============================================================================
