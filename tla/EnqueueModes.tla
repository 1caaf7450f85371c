---------------------------- MODULE EnqueueModes ----------------------------
(***************************************************************************)
(* enqueue_job's four ways of meeting a dedupe_key that is taken, called   *)
(* concurrently by any number of clients for one key (calls for different  *)
(* keys do not meet), while workers claim and finish the rows.             *)
(*                                                                         *)
(* A call is one READ COMMITTED transaction of several statements; each    *)
(* action is one statement, and the last one commits.  What serialises the *)
(* calls is modelled as PostgreSQL does it: the advisory lock of the key,  *)
(* which only the debounce and idempotent modes take, the row locks of an  *)
(* uncommitted UPDATE (only supersede runs one before its INSERT), and the *)
(* unique index uq_queue_jobs_dedupe_key_active.                           *)
(*                                                                         *)
(* Payloads are reduced to the request they came from; not_before is left  *)
(* out, so a queued row may be claimed at any time.                        *)
(***************************************************************************)
EXTENDS Naturals, FiniteSets

CONSTANTS
  Rows,           \* rows that may be inserted
  Clients,        \* callers of enqueue_job, one call each
  Modes,          \* the modes they may use
  Manifests,      \* the requests idempotent clients may make
  NoRow, NoClient, NoBody

Answers == Rows \cup {"pending", "UniqueViolation", "ValueError"}

ASSUME ModesAssumption ==
  /\ Modes \subseteq {"plain", "idempotent", "supersede", "debounce"}
  /\ "idempotent" \in Modes => Manifests # {}
ASSUME AnswersAssumption ==
  /\ NoRow \notin Rows
  /\ Rows \cap {"pending", "UniqueViolation", "ValueError"} = {}
ASSUME BodiesAssumption ==
  /\ NoClient \notin Clients
  /\ Clients \cap Manifests = {}
  /\ NoBody \notin Clients \cup Manifests

VARIABLES
  state,      \* the state column
  keyed,      \* whether dedupe_key is the key, or NULL
  body,       \* payload_json: the request it was written by
  handed,     \* the payload the row's last claim returned to the worker
  lock,       \* who holds pg_advisory_xact_lock of the key
  pc,         \* the statement a client is about to execute
  seen,       \* the rows its last SELECT, or its UPDATE's snapshot, found
  doomed,     \* the rows a supersede has cancelled and not yet committed
  mode,       \* how a client's call treats a taken key
  manifest,   \* the request it makes
  answer,     \* what the call returned or raised
  cancelledBy \* history: the supersede that cancelled the row

table   == <<state, keyed, body, handed, cancelledBy>>
call    == <<mode, manifest>>
session == <<pc, seen, doomed, call, answer>>
vars    == <<table, lock, session>>

Lifecycle == INSTANCE JobLifecycle WITH Jobs <- Rows

Pending == {"queued", "retry_wait"}
Active  == {"leased", "running"}

\* The rows with the key in one of the states S, as a statement sees them.
Keyed(S) == {r \in Rows : keyed[r] /\ state[r] \in S}

\* A row another transaction has updated and not committed.
LockedFor(c, r) == \E d \in Clients \ {c} : r \in doomed[d]

-----------------------------------------------------------------------------
Init ==
  /\ state = [r \in Rows |-> "absent"]
  /\ keyed = [r \in Rows |-> FALSE]
  /\ body = [r \in Rows |-> NoBody]
  /\ handed = [r \in Rows |-> NoBody]
  /\ cancelledBy = [r \in Rows |-> NoClient]
  /\ lock = NoClient
  /\ mode \in [Clients -> Modes]
  /\ pc = [c \in Clients |->
             CASE mode[c] = "plain" -> "insert"
               [] mode[c] = "supersede" -> "snapshot"
               [] OTHER -> "lock"]
  /\ seen = [c \in Clients |-> {}]
  /\ doomed = [c \in Clients |-> {}]
  /\ manifest \in {m \in [Clients -> Clients \cup Manifests] :
                     \A c \in Clients :
                       IF mode[c] = "idempotent"
                       THEN m[c] \in Manifests ELSE m[c] = c}
  /\ answer = [c \in Clients |-> "pending"]

\* Mutant: a session-level advisory lock, which a raised error leaves held.
Return_KeepsLock(c, a) ==
  /\ answer' = [answer EXCEPT ![c] = a]
  /\ pc' = [pc EXCEPT ![c] = "done"]
  /\ seen' = [seen EXCEPT ![c] = {}]
  /\ doomed' = [doomed EXCEPT ![c] = {}]
  /\ lock' = IF lock = c /\ a \in Rows THEN NoClient ELSE lock
  /\ UNCHANGED call

\* The call returns or raises a: the transaction ends, and with it its locks.
Return(c, a) ==
  /\ answer' = [answer EXCEPT ![c] = a]
  /\ pc' = [pc EXCEPT ![c] = "done"]
  /\ seen' = [seen EXCEPT ![c] = {}]
  /\ doomed' = [doomed EXCEPT ![c] = {}]
  /\ lock' = IF lock = c THEN NoClient ELSE lock
  /\ UNCHANGED call

\* Mutant: the lock is not waited for.
Lock_Skipped(c) ==
  /\ pc[c] = "lock"
  /\ pc' = [pc EXCEPT ![c] = "select"]
  /\ UNCHANGED <<table, lock, seen, doomed, call, answer>>

(* SELECT pg_advisory_xact_lock(key). *)
Lock(c) ==
  /\ pc[c] = "lock"
  /\ lock = NoClient
  /\ lock' = c
  /\ pc' = [pc EXCEPT ![c] = "select"]
  /\ UNCHANGED <<table, seen, doomed, call, answer>>

\* The identity of a new row: gen_random_uuid() draws one not in use, and
\* identities are interchangeable.
NewRow == CHOOSE r \in Rows : state[r] = "absent"

(* INSERT ... RETURNING job_id, with the key (or NULL, which no index
   covers), and the commit.  A row that another transaction is changing makes
   the index check wait; a committed one raises and rolls back. *)
Insert(c, withKey) ==
  LET taken == IF withKey THEN Keyed(Pending \cup Active) \ doomed[c] ELSE {} IN
  /\ \A r \in taken : ~LockedFor(c, r)
  /\ \/ /\ taken # {}
        /\ Return(c, "UniqueViolation")
        /\ UNCHANGED table
     \/ /\ taken = {}
        /\ \E r \in Rows : state[r] = "absent"
        /\ state' = [r \in Rows |-> IF r = NewRow THEN "queued"
                                    ELSE IF r \in doomed[c] THEN "cancelled"
                                    ELSE state[r]]
        /\ cancelledBy' = [r \in Rows |-> IF r \in doomed[c] THEN c
                                          ELSE cancelledBy[r]]
        /\ keyed' = [keyed EXCEPT ![NewRow] = withKey]
        /\ body' = [body EXCEPT ![NewRow] = manifest[c]]
        /\ Return(c, NewRow)
        /\ UNCHANGED handed

InsertKeyed(c) ==
  /\ pc[c] = "insert"
  /\ Insert(c, TRUE)

-----------------------------------------------------------------------------
\* Mutant: the request behind the key is not compared.
SameRequest_Any(c, r) == TRUE

\* The row's manifest columns and payload are those of the call.
SameRequest(c, r) == body[r] = manifest[c]

(* idempotent: an active row of the same request is the answer, one of
   another request is an error. *)
IdempotentSelect(c) ==
  LET active == Keyed(Pending \cup Active) IN
  /\ mode[c] = "idempotent"
  /\ pc[c] = "select"
  /\ \/ /\ active = {}
        /\ pc' = [pc EXCEPT ![c] = "insert"]
        /\ UNCHANGED <<lock, seen, doomed, call, answer>>
     \/ \E r \in active :
          Return(c, IF SameRequest(c, r) THEN r ELSE "ValueError")
  /\ UNCHANGED table

(* supersede: UPDATE ... SET state = 'cancelled'.  The statement's snapshot
   picks the rows; it waits for those that another transaction has locked,
   and then looks at their state again. *)
SupersedeSnapshot(c) ==
  /\ pc[c] = "snapshot"
  /\ seen' = [seen EXCEPT ![c] = Keyed(Pending \cup {"failed", "dead_letter"})]
  /\ pc' = [pc EXCEPT ![c] = "cancel"]
  /\ UNCHANGED <<table, lock, doomed, call, answer>>

\* Mutant: the cancellation is a transaction of its own.
SupersedeCancel_Commits(c) ==
  /\ pc[c] = "cancel"
  /\ \A r \in seen[c] : ~LockedFor(c, r)
  /\ LET hit == {r \in seen[c] : state[r] \in Pending \cup {"failed", "dead_letter"}} IN
     /\ state' = [r \in Rows |-> IF r \in hit THEN "cancelled" ELSE state[r]]
     /\ cancelledBy' = [r \in Rows |-> IF r \in hit THEN c ELSE cancelledBy[r]]
  /\ pc' = [pc EXCEPT ![c] = "insert"]
  /\ UNCHANGED <<keyed, body, handed, lock, seen, doomed, call, answer>>

\* Mutant: the state that the snapshot saw is trusted.
SupersedeCancel_Stale(c) ==
  /\ pc[c] = "cancel"
  /\ \A r \in seen[c] : ~LockedFor(c, r)
  /\ doomed' = [doomed EXCEPT ![c] = seen[c]]
  /\ pc' = [pc EXCEPT ![c] = "insert"]
  /\ UNCHANGED <<table, lock, seen, call, answer>>

\* The rows stay locked until the transaction ends.
SupersedeCancel(c) ==
  /\ pc[c] = "cancel"
  /\ \A r \in seen[c] : ~LockedFor(c, r)
  /\ doomed' = [doomed EXCEPT ![c] =
                  {r \in seen[c] :
                     state[r] \in Pending \cup {"failed", "dead_letter"}}]
  /\ pc' = [pc EXCEPT ![c] = "insert"]
  /\ UNCHANGED <<table, lock, seen, call, answer>>

-----------------------------------------------------------------------------
(* debounce: SELECT the pending row of the key ... *)
DebounceSelect(c) ==
  /\ mode[c] = "debounce"
  /\ pc[c] = "select"
  /\ seen' = [seen EXCEPT ![c] = Keyed(Pending)]
  /\ pc' = [pc EXCEPT ![c] = IF Keyed(Pending) # {} THEN "extend" ELSE "probe"]
  /\ UNCHANGED <<table, lock, doomed, call, answer>>

(* ... and UPDATE it by its job_id, whatever its state is by now ... *)
DebounceExtend(c) ==
  /\ pc[c] = "extend"
  /\ \E r \in seen[c] :
       /\ ~LockedFor(c, r)
       /\ body' = [body EXCEPT ![r] = manifest[c]]
       /\ Return(c, r)
  /\ UNCHANGED <<state, keyed, handed, cancelledBy>>

(* ... or look for a leased or running one, which the new row must not meet. *)
DebounceProbe(c) ==
  /\ pc[c] = "probe"
  /\ pc' = [pc EXCEPT ![c] = IF Keyed(Active) # {} THEN "insert_null" ELSE "insert"]
  /\ UNCHANGED <<table, lock, seen, doomed, call, answer>>

DebounceInsertNull(c) ==
  /\ pc[c] = "insert_null"
  /\ Insert(c, FALSE)

-----------------------------------------------------------------------------
(* The rows' other life (JobQueue): a claim skips locked rows and hands the
   payload over; every other statement waits for the lock. *)
Claim(r) ==
  /\ state[r] = "queued"
  /\ ~LockedFor(NoClient, r)
  /\ state' = [state EXCEPT ![r] = "leased"]
  /\ handed' = [handed EXCEPT ![r] = body[r]]
  /\ UNCHANGED <<keyed, body, cancelledBy, lock, session>>

Move(r, s) ==
  /\ \/ state[r] = "leased" /\ s \in {"running", "queued", "dead_letter"}
     \/ state[r] = "running" /\ s \in {"succeeded", "retry_wait", "dead_letter",
                                       "queued"}
     \/ state[r] = "retry_wait" /\ s = "queued"
  /\ ~LockedFor(NoClient, r)
  /\ state' = [state EXCEPT ![r] = s]
  /\ UNCHANGED <<keyed, body, handed, cancelledBy, lock, session>>

-----------------------------------------------------------------------------
ClientStep(c) ==
  \/ Lock(c)
  \/ InsertKeyed(c)
  \/ IdempotentSelect(c)
  \/ SupersedeSnapshot(c)
  \/ SupersedeCancel(c)
  \/ DebounceSelect(c)
  \/ DebounceExtend(c)
  \/ DebounceProbe(c)
  \/ DebounceInsertNull(c)

Next ==
  \/ \E c \in Clients : ClientStep(c)
  \/ \E r \in Rows : Claim(r)
  \/ \E r \in Rows, s \in Lifecycle!STATES : Move(r, s)

Spec == Init /\ [][Next]_vars

\* A client executes its statements; a lock is granted in turn.
FairSpec == Spec /\ \A c \in Clients : SF_vars(ClientStep(c))

-----------------------------------------------------------------------------
\* Columns and locals have their types.
TypeOK ==
  /\ state \in [Rows -> Lifecycle!STATES \cup {"absent"}]
  /\ keyed \in [Rows -> BOOLEAN]
  /\ body \in [Rows -> Clients \cup Manifests \cup {NoBody}]
  /\ handed \in [Rows -> Clients \cup Manifests \cup {NoBody}]
  /\ cancelledBy \in [Rows -> Clients \cup {NoClient}]
  /\ lock \in Clients \cup {NoClient}
  /\ pc \in [Clients -> {"lock", "select", "snapshot", "cancel", "extend",
                         "probe", "insert", "insert_null", "done"}]
  /\ seen \in [Clients -> SUBSET Rows]
  /\ doomed \in [Clients -> SUBSET Rows]
  /\ mode \in [Clients -> Modes]
  /\ manifest \in [Clients -> Clients \cup Manifests]
  /\ answer \in [Clients -> Answers]

\* A scheduled row is cancelled only together with the insertion of the row
\* that replaces it: a supersede that is rejected, because a worker runs the
\* key or another client took it meanwhile, takes back its cancellations.
ReplacedNotDropped ==
  \A r \in Rows : state[r] = "cancelled" => answer[cancelledBy[r]] \in Rows

\* A row that a worker holds is never cancelled under it by an enqueue:
\* between the snapshot of the UPDATE and the commit the row can have been
\* claimed, run and recovered.
WorkedRowSpared ==
  [][\A r \in Rows : state[r] \in Active => state'[r] # "cancelled"]_vars

\* Idempotent calls never collide with one another: the advisory lock covers
\* both the SELECT and the INSERT, and a row ends only once.  The unique index
\* rejects one only for a row that a call of another mode has written.
IdempotentSerialised ==
  [][\A c \in Clients :
       /\ mode[c] = "idempotent"
       /\ answer[c] = "pending"
       /\ answer'[c] = "UniqueViolation"
       => \E r \in Keyed(Pending \cup Active) : body[r] \notin Manifests]_vars

\* Two idempotent calls of one request are answered by one row, unless the
\* first row had ended; calls of different requests never share a row.
IdempotentAgree ==
  \A c, d \in {b \in Clients : mode[b] = "idempotent"} :
    answer[c] \in Rows /\ answer[d] \in Rows =>
      /\ answer[c] = answer[d] => manifest[c] = manifest[d]
      /\ answer[c] # answer[d] =>
           \E r \in {answer[c], answer[d]} : state[r] \in Lifecycle!TERMINAL

\* The calls implement the declared transitions too.
RefinesLifecycle == Lifecycle!Spec

\* Every call returns or raises: the advisory lock and the row locks are
\* taken in no circular order and given back on every path.
EveryCallReturns == \A c \in Clients : <>(answer[c] # "pending")

\* "worst case is one extra distinct row, never a lost/orphaned one": a row
\* that succeeded was run with the payload it carries.
NeverLost ==
  \A r \in Rows : state[r] = "succeeded" => handed[r] = body[r]
=============================================================================
