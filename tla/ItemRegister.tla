---------------------------- MODULE ItemRegister ----------------------------
(***************************************************************************)
(* What mutate_item promises to whoever keeps only its receipts: the item  *)
(* is a register that an operation replaces at one moment, if it holds the *)
(* generation the operation expects, and every operation is answered once, *)
(* with what is true of the register when the answer is given.  There are  *)
(* no locks, journals, crashes or reconcilers here; ItemMutation, which    *)
(* has them, is shown to implement this.                                   *)
(***************************************************************************)
EXTENDS Naturals

CONSTANTS Ops, Gens

VARIABLES
  expected, target,  \* the operation replaces expected[o] by target[o]
  item,              \* the canonical document
  applied,           \* times the operation replaced it
  confirmed,         \* operations whose document was found to be canonical
  answer,            \* the status of the receipt
  blind              \* operations answered without reading the document

vars == <<expected, target, item, applied, confirmed, answer, blind>>

Init ==
  /\ expected \in [Ops -> Gens] /\ target \in [Ops -> Gens]
  /\ item \in Gens
  /\ applied = [o \in Ops |-> 0]
  /\ confirmed = {}
  /\ answer = [o \in Ops |-> "none"]
  /\ blind = {}

\* Compare and swap.  An operation that was not answered can be applied again,
\* if others have brought its generation back.
Apply(o) ==
  /\ answer[o] = "none"
  /\ item = expected[o] /\ target[o] # expected[o]
  /\ item' = target[o]
  /\ applied' = [applied EXCEPT ![o] = @ + 1]
  /\ UNCHANGED <<expected, target, confirmed, answer, blind>>

\* The document is found to be the operation's, whoever wrote it.
Confirm(o) ==
  /\ answer[o] = "none"
  /\ item = target[o]
  /\ confirmed' = confirmed \cup {o}
  /\ UNCHANGED <<expected, target, item, applied, answer, blind>>

\* COMMITTED and REPAIR_REQUIRED: the operation's document is there.  FAILED:
\* the document is as it was.  CONFLICT: neither has the operation an effect
\* that stands, nor could it be done, unless it was found done before.
Truthful(o, s) ==
  CASE s \in {"COMMITTED", "REPAIR_REQUIRED"} -> item = target[o]
    [] s = "FAILED"   -> item = expected[o]
    [] s = "CONFLICT" -> /\ item = target[o] => applied[o] = 0
                         /\ item = expected[o] => o \in confirmed

Answer(o, s) ==
  /\ answer[o] = "none"
  /\ answer' = [answer EXCEPT ![o] = s]
  /\ \/ Truthful(o, s) /\ UNCHANGED blind
     \/ s \in {"FAILED", "CONFLICT"} /\ blind' = blind \cup {o}
  /\ UNCHANGED <<expected, target, item, applied, confirmed>>

Next ==
  \E o \in Ops :
    \/ Apply(o)
    \/ Confirm(o)
    \/ \E s \in {"COMMITTED", "REPAIR_REQUIRED", "FAILED", "CONFLICT"} : Answer(o, s)

Spec == Init /\ [][Next]_vars
=============================================================================
