---------------------------- MODULE ItemMutation ----------------------------
(***************************************************************************)
(* mutate_item and its reconcilers: one item document, changed under a     *)
(* per-item lock by operations that keep a journal in files, with a        *)
(* projection of the document in SQLite that can fail on its own.          *)
(* Processes die between any two file operations.                          *)
(*                                                                         *)
(* A document is its generation (a content hash, so an old one can come    *)
(* back).  An operation is bound to the generation it expects, and its     *)
(* transform of that document is a function of its payload: both are fixed *)
(* at the start.  The journal's files are written by rename, each at once. *)
(***************************************************************************)
EXTENDS Naturals

CONSTANTS
  Procs,         \* processes: workers, the HTTP server, repair tools
  Ops,           \* operations (operation_id)
  Gens,          \* generations
  MaxCrashes,    \* bound
  MaxErrors,     \* bound: file errors, and documents that cannot be read
  NoOp, NoGen, NoProc

ASSUME NamesAssumption == NoOp \notin Ops /\ NoGen \notin Gens /\ NoProc \notin Procs
ASSUME BoundsAssumption == MaxCrashes \in Nat /\ MaxErrors \in Nat

VARIABLES
  expected, target,  \* binding of each operation; never change
  item,              \* the canonical document
  proj,              \* the row projected from it
  intent,            \* journal: intent.json exists
  zip,               \* the generation archived under the operation's name
  archived,          \* journal: archive.json exists
  published,         \* journal: publication.json exists
  receipt,           \* journal: receipt.json
  attempt,           \* journal: the latest file of reconciliation-attempts
  lock,              \* holder of the item's lock
  pc, kind, op,      \* each process: where it is, in which call, for what
  ok,                \* the projection that it has just made succeeded
  applied,           \* history: times the operation was made canonical
  unread,            \* history: operations decided on an unreadable document
  crashes, errors    \* history: counts

binding == <<expected, target>>
journal == <<intent, zip, archived, published, receipt, attempt>>
history == <<applied, unread, crashes, errors>>
locals  == <<pc, kind, op, ok>>
vars    == <<binding, item, proj, journal, lock, locals, history>>

Outcomes == {"COMMITTED", "REPAIR_REQUIRED", "CONFLICT", "FAILED"}

Init ==
  /\ expected \in [Ops -> Gens] /\ target \in [Ops -> Gens]
  /\ item \in Gens /\ proj = item
  /\ intent = [o \in Ops |-> FALSE]
  /\ zip = [o \in Ops |-> NoGen]
  /\ archived = [o \in Ops |-> FALSE]
  /\ published = [o \in Ops |-> FALSE]
  /\ receipt = [o \in Ops |-> "none"]
  /\ attempt = [o \in Ops |-> "none"]
  /\ lock = NoProc
  /\ pc = [p \in Procs |-> "idle"]
  /\ kind = [p \in Procs |-> "none"]
  /\ op = [p \in Procs |-> NoOp]
  /\ ok = [p \in Procs |-> FALSE]
  /\ applied = [o \in Ops |-> 0]
  /\ unread = {}
  /\ crashes = 0 /\ errors = 0

-----------------------------------------------------------------------------
Goto(p, place) == pc' = [pc EXCEPT ![p] = place]

Call(p, k, o) == kind' = [kind EXCEPT ![p] = k] /\ op' = [op EXCEPT ![p] = o]

\* Mutant: the lock is not released.
Leave_KeepsLock(p) ==
  /\ UNCHANGED lock
  /\ Goto(p, "idle")
  /\ Call(p, "none", NoOp)
  /\ ok' = [ok EXCEPT ![p] = FALSE]

\* The call is over and the lock is free.
Leave(p) ==
  /\ lock' = IF lock = p THEN NoProc ELSE lock
  /\ Goto(p, "idle")
  /\ Call(p, "none", NoOp)
  /\ ok' = [ok EXCEPT ![p] = FALSE]

\* _record: the receipt is written and returned.
Record(p, o, s) == receipt' = [receipt EXCEPT ![o] = s] /\ Leave(p)

-----------------------------------------------------------------------------
\* Mutant: a publication that an earlier call did not finish is not recognised.
Admit_NoRecovery(o) == IF item = expected[o] THEN "plan" ELSE "stale"

\* Where mutate_item goes with the document it has read: on with the transform,
\* on with a publication that an earlier call did not finish, or nowhere.
Admit(o) ==
  IF item = expected[o] THEN "plan"
  ELSE IF archived[o] /\ intent[o] /\ item = target[o] THEN "recover"
  ELSE "stale"

\* mutate_item takes the lock; an operation with a receipt is not done again.
Mutate(p, o) ==
  /\ pc[p] = "idle" /\ lock = NoProc
  /\ receipt[o] = "none"
  /\ \/ /\ Admit(o) \in {"plan", "recover"}
        /\ lock' = p
        /\ Goto(p, IF Admit(o) = "plan" THEN "plan" ELSE "mark")
        /\ Call(p, IF Admit(o) = "plan" THEN "mutate" ELSE "recover", o)
        /\ UNCHANGED <<receipt, ok>>
     \/ Admit(o) = "stale" /\ Record(p, o, "CONFLICT")
  /\ UNCHANGED <<binding, item, proj, intent, zip, archived, published, attempt,
                 history>>

\* The document cannot be read: the receipt says so.
MutateUnread(p, o) ==
  /\ pc[p] = "idle" /\ lock = NoProc
  /\ receipt[o] = "none"
  /\ errors < MaxErrors /\ errors' = errors + 1
  /\ unread' = unread \cup {o}
  /\ Record(p, o, "FAILED")
  /\ UNCHANGED <<binding, item, proj, intent, zip, archived, published, attempt,
                 applied, crashes>>

(* The transform: no change (then project_noop may ask for a projection), or a
   complete intent on disk before the first effect. *)
Plan(p) ==
  /\ pc[p] = "plan"
  /\ \/ /\ target[op[p]] = item
        /\ \/ Record(p, op[p], "COMMITTED") /\ UNCHANGED intent
           \/ Goto(p, "project") /\ UNCHANGED <<receipt, intent, lock, kind, op, ok>>
     \/ /\ target[op[p]] # item
        /\ intent' = [intent EXCEPT ![op[p]] = TRUE]
        /\ Goto(p, "archive")
        /\ UNCHANGED <<receipt, lock, kind, op, ok>>
  /\ UNCHANGED <<binding, item, proj, zip, archived, published, attempt, history>>

(* _archive_once: a member of this name is written once. *)
Archive(p) ==
  /\ pc[p] = "archive"
  /\ zip' = IF archived[op[p]] \/ zip[op[p]] # NoGen THEN zip
            ELSE [zip EXCEPT ![op[p]] = item]
  /\ Goto(p, "archived")
  /\ UNCHANGED <<binding, item, proj, intent, archived, published, receipt,
                 attempt, lock, kind, op, ok, history>>

ArchiveMarker(p) ==
  /\ pc[p] = "archived"
  /\ archived' = [archived EXCEPT ![op[p]] = TRUE]
  /\ Goto(p, "publish")
  /\ UNCHANGED <<binding, item, proj, intent, zip, published, receipt, attempt,
                 lock, kind, op, ok, history>>

(* The canonical document is replaced. *)
Publish(p) ==
  /\ pc[p] = "publish"
  /\ item' = target[op[p]]
  /\ applied' = [applied EXCEPT ![op[p]] = @ + 1]
  /\ Goto(p, "mark")
  /\ UNCHANGED <<binding, proj, journal, lock, kind, op, ok, unread, crashes,
                 errors>>

PublicationMarker(p) ==
  /\ pc[p] = "mark"
  /\ published' = [published EXCEPT ![op[p]] = TRUE]
  /\ Goto(p, "project")
  /\ UNCHANGED <<binding, item, proj, intent, zip, archived, receipt, attempt,
                 lock, kind, op, ok, history>>

\* Mutant: a failure after the archive is always called FAILED.
Classify_Failed(o) == "FAILED"

\* What an exception of mutate_item is called, from persisted truth.
Classify(o) == IF item = target[o] /\ item # expected[o]
               THEN "REPAIR_REQUIRED" ELSE "FAILED"

(* An exception in the transform or in a file operation of mutate_item, before
   or after it took effect; the persisted document may be unreadable as well. *)
Except(p) ==
  /\ kind[p] = "mutate"
  /\ pc[p] \in {"plan", "archive", "archived", "publish", "mark"}
  /\ errors < MaxErrors /\ errors' = errors + 1
  /\ \/ Record(p, op[p], Classify(op[p])) /\ UNCHANGED unread
     \/ Record(p, op[p], "FAILED") /\ unread' = unread \cup {op[p]}
  /\ UNCHANGED <<binding, item, proj, intent, zip, archived, published, attempt,
                 applied, crashes>>

(* project(sku, document): may fail, and may have written all the same. *)
Project(p) ==
  /\ pc[p] = "project"
  /\ \/ proj' = item /\ ok' = [ok EXCEPT ![p] = TRUE] /\ UNCHANGED errors
     \/ /\ errors < MaxErrors /\ errors' = errors + 1
        /\ proj' \in {proj, item}
        /\ ok' = [ok EXCEPT ![p] = FALSE]
  /\ Goto(p, "receipt")
  /\ UNCHANGED <<binding, item, journal, lock, kind, op, applied, unread, crashes>>

\* Mutant: a failed projection is reported as committed.
Outcome_Always(good) == "COMMITTED"

\* What is recorded after the projection.
Outcome(good) == IF good THEN "COMMITTED" ELSE "REPAIR_REQUIRED"

(* The receipt, or for reconcile_mutation a further attempt. *)
Receipt(p) ==
  /\ pc[p] = "receipt"
  /\ IF kind[p] = "repair"
     THEN attempt' = [attempt EXCEPT ![op[p]] = Outcome(ok[p])] /\ UNCHANGED receipt
     ELSE receipt' = [receipt EXCEPT ![op[p]] = Outcome(ok[p])] /\ UNCHANGED attempt
  /\ Leave(p)
  /\ UNCHANGED <<binding, item, proj, intent, zip, archived, published, history>>

-----------------------------------------------------------------------------
\* An intent without receipt is discovered, and read before the lock is taken.
Discover(p, o) ==
  /\ pc[p] = "idle"
  /\ intent[o] /\ receipt[o] = "none"
  /\ Goto(p, "discovered")
  /\ Call(p, "finish", o)
  /\ UNCHANGED <<binding, item, proj, journal, lock, ok, history>>

\* Mutant: a receipt written in the meantime is not looked for.
StillUnfinished_Assumed(o) == TRUE

\* Under the lock: has somebody else finished the operation?
StillUnfinished(o) == receipt[o] = "none"

\* Mutant: an operation whose publication is not marked is published.
Resume_Blind(o) == IF published[o] THEN "project" ELSE "archive"

\* Where _reconcile_unfinished goes on with what it finds.
Resume(o) ==
  IF published[o] THEN IF item = target[o] THEN "project" ELSE "conflict"
  ELSE IF item = expected[o] THEN "archive"
  ELSE IF item = target[o] /\ archived[o] THEN "mark"
  ELSE "conflict"

(* _reconcile_unfinished, when it has the lock. *)
Finish(p) ==
  /\ pc[p] = "discovered" /\ kind[p] = "finish"
  /\ lock = NoProc
  /\ \/ ~StillUnfinished(op[p]) /\ Leave(p) /\ UNCHANGED <<receipt, unread, errors>>
     \/ /\ StillUnfinished(op[p]) /\ Resume(op[p]) # "conflict"
        /\ lock' = p
        /\ Goto(p, Resume(op[p]))
        /\ UNCHANGED <<receipt, kind, op, ok, unread, errors>>
     \/ /\ StillUnfinished(op[p]) /\ Resume(op[p]) = "conflict"
        /\ Record(p, op[p], "CONFLICT")
        /\ UNCHANGED <<unread, errors>>
     \/ /\ StillUnfinished(op[p]) /\ errors < MaxErrors
        /\ errors' = errors + 1
        /\ unread' = unread \cup {op[p]}
        /\ Record(p, op[p], "CONFLICT")
  /\ UNCHANGED <<binding, item, proj, intent, zip, archived, published, attempt,
                 applied, crashes>>

\* reconcile_mutation: a receipt that asks for repair ...
DiscoverRepair(p, o) ==
  /\ pc[p] = "idle"
  /\ receipt[o] = "REPAIR_REQUIRED" /\ attempt[o] # "COMMITTED"
  /\ Goto(p, "discovered")
  /\ Call(p, "repair", o)
  /\ UNCHANGED <<binding, item, proj, journal, lock, ok, history>>

\* The canonical document is still the one the operation wrote.
Repairable(o) == item = target[o]

(* ... is repaired only while the document is the one it names. *)
Repair(p) ==
  /\ pc[p] = "discovered" /\ kind[p] = "repair"
  /\ lock = NoProc
  /\ \/ attempt[op[p]] = "COMMITTED" /\ Leave(p) /\ UNCHANGED <<attempt, errors>>
     \/ /\ attempt[op[p]] # "COMMITTED" /\ Repairable(op[p])
        /\ lock' = p
        /\ Goto(p, "project")
        /\ UNCHANGED <<attempt, kind, op, ok, errors>>
     \/ /\ attempt[op[p]] # "COMMITTED"
        /\ \/ ~Repairable(op[p]) /\ UNCHANGED errors
           \/ errors < MaxErrors /\ errors' = errors + 1    \* unreadable
        /\ attempt' = [attempt EXCEPT ![op[p]] = "CONFLICT"]
        /\ Leave(p)
  /\ UNCHANGED <<binding, item, proj, intent, zip, archived, published, receipt,
                 applied, unread, crashes>>

\* The process dies, and its lock with it.
Crash(p) ==
  /\ pc[p] # "idle"
  /\ crashes < MaxCrashes /\ crashes' = crashes + 1
  /\ Leave(p)
  /\ UNCHANGED <<binding, item, proj, journal, applied, unread, errors>>

-----------------------------------------------------------------------------
Step(p) ==
  \/ Plan(p) \/ Archive(p) \/ ArchiveMarker(p) \/ Publish(p)
  \/ PublicationMarker(p) \/ Project(p) \/ Receipt(p) \/ Finish(p) \/ Repair(p)

Next ==
  \E p \in Procs :
    \/ \E o \in Ops : Mutate(p, o) \/ MutateUnread(p, o)
                      \/ Discover(p, o) \/ DiscoverRepair(p, o)
    \/ Step(p) \/ Except(p) \/ Crash(p)

Spec == Init /\ [][Next]_vars

\* File operations end, and the job of an unfinished operation is retried (as
\* the queue does: fewer crashes than max_attempts).
FairSpec ==
  /\ Spec
  /\ \A p \in Procs : WF_vars(Step(p))
  /\ \A o \in Ops : SF_vars(\E p \in Procs : intent[o] /\ Mutate(p, o))

-----------------------------------------------------------------------------
\* Files and locals have their types.
TypeOK ==
  /\ expected \in [Ops -> Gens] /\ target \in [Ops -> Gens]
  /\ item \in Gens /\ proj \in Gens
  /\ intent \in [Ops -> BOOLEAN]
  /\ zip \in [Ops -> Gens \cup {NoGen}]
  /\ archived \in [Ops -> BOOLEAN]
  /\ published \in [Ops -> BOOLEAN]
  /\ receipt \in [Ops -> Outcomes \cup {"none"}]
  /\ attempt \in [Ops -> Outcomes \cup {"none"}]
  /\ lock \in Procs \cup {NoProc}
  /\ pc \in [Procs -> {"idle", "plan", "archive", "archived", "publish", "mark",
                       "project", "receipt", "discovered"}]
  /\ kind \in [Procs -> {"none", "mutate", "recover", "finish", "repair"}]
  /\ op \in [Procs -> Ops \cup {NoOp}]
  /\ ok \in [Procs -> BOOLEAN]
  /\ applied \in [Ops -> Nat]
  /\ unread \subseteq Ops
  /\ crashes \in Nat /\ errors \in Nat

\* Nothing is waiting to be finished or repaired, and nobody is at work.
Quiet ==
  /\ \A p \in Procs : pc[p] = "idle"
  /\ \A o \in Ops : /\ intent[o] => receipt[o] # "none"
                    /\ receipt[o] = "REPAIR_REQUIRED" => attempt[o] = "COMMITTED"

\* "A successful canonical write followed by a failed projection is
\* REPAIR_REQUIRED": when no operation is unfinished and none asks for repair,
\* the projection is that of the canonical document, whatever crashed or failed
\* on the way (unless a document could not be read when its fate was decided).
ProjectionCurrent == Quiet /\ unread = {} => proj = item

\* The document that an operation replaces is in the archive, as it was, before
\* it is replaced.
PreimageArchived == \A o \in Ops : applied[o] > 0 => zip[o] = expected[o]

\* "once the planned generation is canonical, it is never truthful to call the
\* operation FAILED": a call that fails after its document became canonical
\* does not say that nothing happened.
FailedNotCanonical ==
  [][\A o \in Ops : receipt[o] = "none" /\ receipt'[o] = "FAILED"
       /\ o \notin unread' => item = expected[o]]_vars

\* The register that the receipts describe.
Register ==
  INSTANCE ItemRegister
    WITH confirmed <- {o \in Ops : published[o]}, answer <- receipt, blind <- unread

\* "Apply one locked, generation-fenced local item mutation": whoever writes the
\* document, a caller or a reconciler that knows the operation from its journal
\* only, replaces exactly the generation the operation was made for, at one
\* moment; and each operation is answered once, by whoever finishes it, with
\* what is true of the document at that moment.
RefinesRegister == Register!Spec

\* "The original terminal receipt is immutable", although callers and
\* reconcilers race to finish the same operation.
ReceiptImmutable ==
  [][\A o \in Ops : receipt[o] # "none" => receipt'[o] = receipt[o]]_vars

\* An operation with an intent on disk gets its receipt.
IntentSettled == \A o \in Ops : intent[o] ~> receipt[o] # "none"
=============================================================================
