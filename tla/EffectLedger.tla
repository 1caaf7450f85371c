---------------------------- MODULE EffectLedger ----------------------------
(***************************************************************************)
(* What the ledger of external effects promises about one item, whoever    *)
(* dies, retries or supersedes: each of its operations happens at one      *)
(* moment.  An effect is reserved for the generation the item has, under   *)
(* an authority that is active and made for it, while no other effect of   *)
(* the item is open; its request leaves at most once; an open effect keeps *)
(* its authority, and is settled once.  ProviderEffects, with its locks,   *)
(* sessions, workers and observations, is shown to implement this.         *)
(***************************************************************************)

CONSTANTS Auths, Gens, NoAuth, NoGen

VARIABLES
  gen,              \* generation of the item document
  status, binding,  \* of an authority: is it in force, for which generation
  outcome,          \* of the effect of a generation
  under,            \* the authority it was reserved under
  request           \* what became of its request to the provider

vars == <<gen, status, binding, outcome, under, request>>

Init ==
  /\ gen \in Gens
  /\ status = [a \in Auths |-> "absent"]
  /\ binding = [a \in Auths |-> NoGen]
  /\ outcome = [g \in Gens |-> "none"]
  /\ under = [g \in Gens |-> NoAuth]
  /\ request = [g \in Gens |-> "none"]

\* The item is edited, perhaps back to an earlier content.
Edit ==
  /\ gen' \in Gens
  /\ UNCHANGED <<status, binding, outcome, under, request>>

Open == {g \in Gens : outcome[g] = "open"}

\* Authorities Old are superseded, none of which has an open effect, and at the
\* same moment the ones in New are issued for generation g.
Decide(Old, New, g) ==
  /\ \A a \in Old : status[a] = "active" /\ \A h \in Open : under[h] # a
  /\ \A a \in New : status[a] = "absent"
  /\ status' = [a \in Auths |-> IF a \in New THEN "active"
                                ELSE IF a \in Old THEN "superseded" ELSE status[a]]
  /\ binding' = [a \in Auths |-> IF a \in New THEN g ELSE binding[a]]
  /\ UNCHANGED <<gen, outcome, under, request>>

\* The effect of the current generation is reserved, once and for all.
Reserve(a) ==
  /\ status[a] = "active" /\ binding[a] = gen
  /\ Open = {}
  /\ outcome[gen] = "none"
  /\ outcome' = [outcome EXCEPT ![gen] = "open"]
  /\ under' = [under EXCEPT ![gen] = a]
  /\ UNCHANGED <<gen, status, binding, request>>

\* The request of a reserved effect leaves, perhaps only after an observer has
\* settled the effect without it.
Request(g) ==
  /\ outcome[g] # "none"
  /\ request[g] = "none"
  /\ request' = [request EXCEPT ![g] = "sent"]
  /\ UNCHANGED <<gen, status, binding, outcome, under>>

Provide(g, f) ==
  /\ request[g] = "sent"
  /\ request' = [request EXCEPT ![g] = f]
  /\ UNCHANGED <<gen, status, binding, outcome, under>>

\* Success is true.  A rejection may be an observation from before the request
\* was carried out, and promises nothing.
Settle(g, s) ==
  /\ outcome[g] = "open"
  /\ s = "succeeded" => request[g] = "applied"
  /\ outcome' = [outcome EXCEPT ![g] = s]
  /\ UNCHANGED <<gen, status, binding, under, request>>

Next ==
  \/ Edit
  \/ \E Old, New \in SUBSET Auths, g \in Gens : Decide(Old, New, g)
  \/ \E a \in Auths : Reserve(a)
  \/ \E g \in Gens : \/ Request(g)
                     \/ \E f \in {"applied", "refused"} : Provide(g, f)
                     \/ \E s \in {"succeeded", "rejected"} : Settle(g, s)

Spec == Init /\ [][Next]_vars
=============================================================================
