--------------------------- MODULE ProviderEffects ---------------------------
(***************************************************************************)
(* The ledger of external effects on one item (one provider and operation: *)
(* ebay stage-draft or publish-offer) and the operator authorities that    *)
(* permit them.  Workers reserve an effect, call the provider and record   *)
(* the outcome; operators issue and supersede authorities; the item is     *)
(* edited; a reconciler settles uncertain effects by observation.          *)
(*                                                                         *)
(* A generation is the content hash of the item, so an edit may bring an   *)
(* old one back.  Everything else that an authority or an effect is bound  *)
(* to is determined by the two, and left out.                              *)
(***************************************************************************)
EXTENDS Naturals, FiniteSets

CONSTANTS
  Workers,      \* processes of ebay_stage, or of ebay_publish
  Operators,    \* operator sessions, each with its own logical key
  Auths,        \* identities of authorities
  Gens,         \* item generations
  MaxCrashes,   \* bound
  Free, NoAuth, NoGen

ASSUME ProcsAssumption ==
  Workers \cap Operators = {} /\ Free \notin Workers \cup Operators
ASSUME NamesAssumption == NoAuth \notin Auths /\ NoGen \notin Gens
ASSUME BoundAssumption == MaxCrashes \in Nat

VARIABLES
  gen,         \* generation of the item document
  itemLock,    \* holder of the item's write lock
  status, operator, binding, fresh,  \* columns of operator_authorities
  rowLock,     \* holder of the row lock on an authority
  ledger,      \* table provider_effects: one row for each generation
  pc, job,     \* worker: where it is, and the authority in its payload
  valid,       \* worker: the authority as it was read under the lock
  session,     \* operator: candidates to supersede, the authority to insert
  rec,         \* reconciler: the effect and the observation it is to record
  wire,        \* provider: requests on their way, ...
  fate,        \* ... and what became of the ones that arrived
  sent,        \* history: requests sent for each effect
  crashes

auth == <<status, operator, binding, fresh>>
vars == <<gen, itemLock, auth, rowLock, ledger, pc, job, valid, session, rec,
          wire, fate, sent, crashes>>

Unresolved == {"dispatched", "ambiguous", "reconciliation_required"}
Settled    == {"succeeded", "rejected"}
NoSession  == [cands |-> {}, new |-> NoAuth, gen |-> NoGen]
NoRec      == [gen |-> NoGen, seen |-> "unclear"]

\* Authorities with an effect that is not settled.
Engaged == {ledger[g].auth : g \in {h \in Gens : ledger[h].state \in Unresolved}}

Init ==
  /\ gen \in Gens
  /\ itemLock = Free
  /\ status = [a \in Auths |-> "absent"]
  /\ operator = [a \in Auths |-> Free]
  /\ binding = [a \in Auths |-> NoGen]
  /\ fresh = [a \in Auths |-> FALSE]
  /\ rowLock = [a \in Auths |-> Free]
  /\ ledger = [g \in Gens |-> [state |-> "absent", auth |-> NoAuth]]
  /\ pc = [w \in Workers |-> "idle"]
  /\ job = [w \in Workers |-> NoAuth]
  /\ valid = [w \in Workers |-> FALSE]
  /\ session = [o \in Operators |-> NoSession]
  /\ rec = NoRec
  /\ wire = {}
  /\ fate = [g \in Gens |-> "none"]
  /\ sent = [g \in Gens |-> 0]
  /\ crashes = 0

-----------------------------------------------------------------------------
\* Rows that p's transaction had locked are free once it ends.
Unlock(p) == rowLock' = [a \in Auths |-> IF rowLock[a] = p THEN Free ELSE rowLock[a]]

Binding(o, g) == {a \in Auths : operator[a] = o /\ status[a] = "active"
                                 /\ binding[a] = g}

\* SELECT ... FOR UPDATE: waits until nobody else has one of the rows.
LockCandidates(o, C) ==
  /\ \A a \in C : rowLock[a] = Free
  /\ rowLock' = [a \in Auths |-> IF a \in C THEN o ELSE rowLock[a]]

(* issue_or_reuse_authority, when no unexpired authority with this binding is
   there to be returned: lock every active authority of the logical key ... *)
IssueLock(o, g) ==
  LET C == {a \in Auths : operator[a] = o /\ status[a] = "active"} IN
  /\ session[o] = NoSession
  /\ \A a \in Binding(o, g) : ~fresh[a]
  /\ LockCandidates(o, C)
  /\ \E n \in Auths :
       /\ status[n] = "absent"
       /\ \A p \in Operators : session[p].new # n
       /\ session' = [session EXCEPT ![o] = [cands |-> C, new |-> n, gen |-> g]]
  /\ UNCHANGED <<gen, itemLock, auth, ledger, pc, job, valid, rec, wire, fate,
                 sent, crashes>>

(* supersede_authority: lock the one ... *)
SupersedeLock(o, a) ==
  /\ session[o] = NoSession
  /\ status[a] = "active"
  /\ LockCandidates(o, {a})
  /\ session' = [session EXCEPT ![o] = [cands |-> {a}, new |-> NoAuth, gen |-> NoGen]]
  /\ UNCHANGED <<gen, itemLock, auth, ledger, pc, job, valid, rec, wire, fate,
                 sent, crashes>>

\* A candidate has an effect that is not settled: RuntimeError, or False.
Refused(o) == session[o].cands \cap Engaged # {}

(* ... then supersede the candidates and, for an issue, insert the new one. *)
SupersedeWrite(o) ==
  /\ session[o] # NoSession
  /\ \/ Refused(o) /\ UNCHANGED auth
     \/ /\ ~Refused(o)
        /\ status' = [a \in Auths |->
                       IF a = session[o].new THEN "active"
                       ELSE IF a \in session[o].cands THEN "superseded"
                       ELSE status[a]]
        /\ operator' = [a \in Auths |-> IF a = session[o].new THEN o ELSE operator[a]]
        /\ binding' = [a \in Auths |->
                        IF a = session[o].new THEN session[o].gen ELSE binding[a]]
        /\ fresh' = [a \in Auths |-> a = session[o].new \/ fresh[a]]
  /\ session' = [session EXCEPT ![o] = NoSession]
  /\ Unlock(o)
  /\ UNCHANGED <<gen, itemLock, ledger, pc, job, valid, rec, wire, fate, sent,
                 crashes>>

(* expires_at passes.  Only issue_or_reuse_authority looks at it. *)
Expire(a) ==
  /\ fresh[a]
  /\ fresh' = [fresh EXCEPT ![a] = FALSE]
  /\ UNCHANGED <<gen, itemLock, status, operator, binding, rowLock, ledger, pc,
                 job, valid, session, rec, wire, fate, sent, crashes>>

(* The item document is written, by an operator or as the projection of an
   effect, under the item's write lock. *)
EditItem(g) ==
  /\ itemLock = Free
  /\ g # gen
  /\ gen' = g
  /\ UNCHANGED <<itemLock, auth, rowLock, ledger, pc, job, valid, session, rec,
                 wire, fate, sent, crashes>>

-----------------------------------------------------------------------------
Leave(w) ==
  /\ pc' = [pc EXCEPT ![w] = "idle"]
  /\ job' = [job EXCEPT ![w] = NoAuth]
  /\ valid' = [valid EXCEPT ![w] = FALSE]

EffectGen(w) == binding[job[w]]

\* Mutant: the generation is not compared under the item's lock.
SameGeneration_Unchecked(a) == TRUE

\* Under the item's write lock the document is read again and compared.
SameGeneration(a) == gen = binding[a]

(* A job is handled, for the first time or again: take the item's write lock
   and compare the generation with the payload's. *)
Enter(w, a) ==
  /\ pc[w] = "idle"
  /\ itemLock = Free
  /\ status[a] # "absent"
  /\ SameGeneration(a)
  /\ itemLock' = w
  /\ job' = [job EXCEPT ![w] = a]
  /\ pc' = [pc EXCEPT ![w] = "entered"]
  /\ UNCHANGED <<gen, auth, rowLock, ledger, valid, session, rec, wire, fate,
                 sent, crashes>>

\* Mutant: get_authority without for_update.
LockAuthority_Unlocked(w) ==
  /\ pc[w] = "entered"
  /\ valid' = [valid EXCEPT ![w] = status[job[w]] = "active"]
  /\ pc' = [pc EXCEPT ![w] = "locked"]
  /\ UNCHANGED <<gen, itemLock, auth, rowLock, ledger, job, session, rec, wire,
                 fate, sent, crashes>>

(* reserve_and_begin_authorized_effect: read the authority FOR UPDATE ... *)
LockAuthority(w) ==
  /\ pc[w] = "entered"
  /\ rowLock[job[w]] = Free
  /\ rowLock' = [rowLock EXCEPT ![job[w]] = w]
  /\ valid' = [valid EXCEPT ![w] = status[job[w]] = "active"]
  /\ pc' = [pc EXCEPT ![w] = "locked"]
  /\ UNCHANGED <<gen, itemLock, auth, ledger, job, session, rec, wire, fate,
                 sent, crashes>>

\* Mutant: a crashed dispatch of the same effect is taken up again.
Admissible_Again(w) ==
  /\ \A g \in Gens \ {EffectGen(w)} : ledger[g].state \notin Unresolved
  /\ ledger[EffectGen(w)].state \notin Settled
  /\ valid[w]

\* Mutant: only this generation's effect is looked for.
Admissible_OwnGeneration(w) == ledger[EffectGen(w)].state = "absent" /\ valid[w]

\* No effect of the item is unresolved, this generation has none, and the
\* authority was valid when it was read.
Admissible(w) ==
  /\ \A g \in Gens : ledger[g].state \notin Unresolved
  /\ ledger[EffectGen(w)].state = "absent"
  /\ valid[w]

(* ... then, under the advisory lock of the item: insert the effect, or find
   another one, or one with an outcome, or an invalid authority.  In all these
   cases the job ends without a call. *)
Reserve(w) ==
  /\ pc[w] = "locked"
  /\ \/ /\ Admissible(w)
        /\ ledger' = [ledger EXCEPT ![EffectGen(w)] =
                        [state |-> "dispatched", auth |-> job[w]]]
        /\ pc' = [pc EXCEPT ![w] = "dispatching"]
        /\ UNCHANGED <<job, valid>>
     \/ ~Admissible(w) /\ Leave(w) /\ UNCHANGED ledger
  /\ Unlock(w)
  /\ itemLock' = Free
  /\ UNCHANGED <<gen, auth, session, rec, wire, fate, sent, crashes>>

(* publish_offer or stage_draft: the request leaves ... *)
Send(w) ==
  /\ pc[w] = "dispatching"
  /\ wire' = wire \cup {EffectGen(w)}
  /\ sent' = [sent EXCEPT ![EffectGen(w)] = @ + 1]
  /\ pc' = [pc EXCEPT ![w] = "calling"]
  /\ UNCHANGED <<gen, itemLock, auth, rowLock, ledger, job, valid, session, rec,
                 fate, crashes>>

(* ... and the provider carries it out or refuses it. *)
Provider(g) ==
  /\ g \in wire
  /\ wire' = wire \ {g}
  /\ \E f \in {"applied", "refused"} : fate' = [fate EXCEPT ![g] = f]
  /\ UNCHANGED <<gen, itemLock, auth, rowLock, ledger, pc, job, valid, session,
                 rec, sent, crashes>>

\* Mutant: a lost response counts as success.
Answers_Optimistic(g) ==
  {"succeeded"} \cup IF g \notin wire /\ fate[g] = "refused" THEN {"rejected"} ELSE {}

\* What the worker makes of the response: success, HTTP 400 or 422, or any
\* other error, which may come at any time.
Answers(g) ==
  {"ambiguous"} \cup
    IF g \in wire THEN {}
    ELSE IF fate[g] = "applied" THEN {"succeeded"} ELSE {"rejected"}

\* Mutant: the UPDATE names the effect only.
Finish_Unguarded(w) ==
  /\ pc[w] = "calling"
  /\ \E s \in Answers(EffectGen(w)) : ledger' = [ledger EXCEPT ![EffectGen(w)].state = s]
  /\ Leave(w)
  /\ UNCHANGED <<gen, itemLock, auth, rowLock, session, rec, wire, fate, sent,
                 crashes>>

(* finish_provider_effect: from dispatched only, otherwise it raises. *)
Finish(w) ==
  /\ pc[w] = "calling"
  /\ \/ /\ ledger[EffectGen(w)].state = "dispatched"
        /\ \E s \in Answers(EffectGen(w)) :
             ledger' = [ledger EXCEPT ![EffectGen(w)].state = s]
     \/ ledger[EffectGen(w)].state # "dispatched" /\ UNCHANGED ledger
  /\ Leave(w)
  /\ UNCHANGED <<gen, itemLock, auth, rowLock, session, rec, wire, fate, sent,
                 crashes>>

Crash(w) ==
  /\ pc[w] # "idle"
  /\ crashes < MaxCrashes
  /\ crashes' = crashes + 1
  /\ Leave(w)
  /\ Unlock(w)
  /\ itemLock' = IF itemLock = w THEN Free ELSE itemLock
  /\ UNCHANGED <<gen, auth, ledger, session, rec, wire, fate, sent>>

-----------------------------------------------------------------------------
(* reconcile_provider_effect: read the row and observe the provider ... *)
Observe(g) ==
  /\ rec = NoRec
  /\ ledger[g].state \in Unresolved
  /\ \E s \in {"unclear", IF fate[g] = "applied" THEN "succeeded" ELSE "not_applied"} :
       rec' = [gen |-> g, seen |-> s]
  /\ UNCHANGED <<gen, itemLock, auth, rowLock, ledger, pc, job, valid, session,
                 wire, fate, sent, crashes>>

Verdict(seen) == CASE seen = "succeeded"   -> "succeeded"
                   [] seen = "not_applied" -> "rejected"
                   [] OTHER                -> "reconciliation_required"

(* ... then record what was seen, if the effect is still unresolved. *)
RecordObservation ==
  /\ rec # NoRec
  /\ IF ledger[rec.gen].state \in Unresolved
     THEN ledger' = [ledger EXCEPT ![rec.gen].state = Verdict(rec.seen)]
     ELSE UNCHANGED ledger
  /\ rec' = NoRec
  /\ UNCHANGED <<gen, itemLock, auth, rowLock, pc, job, valid, session, wire,
                 fate, sent, crashes>>

-----------------------------------------------------------------------------
WorkerStep(w) == LockAuthority(w) \/ Reserve(w) \/ Send(w) \/ Finish(w)

Next ==
  \/ \E o \in Operators, g \in Gens : IssueLock(o, g)
  \/ \E o \in Operators, a \in Auths : SupersedeLock(o, a)
  \/ \E o \in Operators : SupersedeWrite(o)
  \/ \E a \in Auths : Expire(a)
  \/ \E g \in Gens : EditItem(g)
  \/ \E w \in Workers, a \in Auths : Enter(w, a)
  \/ \E w \in Workers : WorkerStep(w) \/ Crash(w)
  \/ \E g \in Gens : Provider(g) \/ Observe(g)
  \/ RecordObservation

Spec == Init /\ [][Next]_vars

-----------------------------------------------------------------------------
\* Tables, locks and locals have their types.
TypeOK ==
  /\ gen \in Gens
  /\ itemLock \in Workers \cup {Free}
  /\ status \in [Auths -> {"absent", "active", "superseded"}]
  /\ operator \in [Auths -> Operators \cup {Free}]
  /\ binding \in [Auths -> Gens \cup {NoGen}]
  /\ fresh \in [Auths -> BOOLEAN]
  /\ rowLock \in [Auths -> Workers \cup Operators \cup {Free}]
  /\ ledger \in [Gens -> [state : {"absent"} \cup Unresolved \cup Settled,
                          auth : Auths \cup {NoAuth}]]
  /\ pc \in [Workers -> {"idle", "entered", "locked", "dispatching", "calling"}]
  /\ job \in [Workers -> Auths \cup {NoAuth}]
  /\ valid \in [Workers -> BOOLEAN]
  /\ session \in [Operators -> [cands : SUBSET Auths, new : Auths \cup {NoAuth},
                              gen : Gens \cup {NoGen}]]
  /\ rec \in [gen : Gens \cup {NoGen},
              seen : {"unclear", "succeeded", "not_applied"}]
  /\ wire \subseteq Gens
  /\ fate \in [Gens -> {"none", "applied", "refused"}]
  /\ sent \in [Gens -> Nat]
  /\ crashes \in Nat

\* An authority whose effect is dispatched or uncertain is never superseded:
\* dispatch and supersession cannot "both win", whichever of the two locked
\* the authority's row first.
EngagedNotSuperseded == \A a \in Engaged : status[a] = "active"

\* "a crash after dispatch becomes durable ambiguity ... it is never blindly
\* dispatched": the request of an effect is sent at most once, through crashes,
\* retries of the job and changes of the item.
SentOnce == \A g \in Gens : sent[g] <= 1

\* "A changed item must not bypass an older ambiguous dispatch": at most one
\* effect of the item is unresolved, whatever generations come and go.
OneUnresolved ==
  \A g, h \in Gens : ledger[g].state \in Unresolved
                     /\ ledger[h].state \in Unresolved => g = h

\* An effect that the ledger holds to have succeeded was carried out.
SucceededApplied ==
  \A g \in Gens : ledger[g].state = "succeeded" => fate[g] = "applied"

\* The ledger as its users see it: the three unresolved states are one, and a
\* request is under way, has arrived, or was never sent.
Effects == INSTANCE EffectLedger WITH
  outcome <- [g \in Gens |->
                CASE ledger[g].state = "absent"       -> "none"
                  [] ledger[g].state \in Unresolved  -> "open"
                  [] OTHER                            -> ledger[g].state],
  under   <- [g \in Gens |-> ledger[g].auth],
  request <- [g \in Gens |-> IF g \in wire THEN "sent" ELSE fate[g]]

\* Workers that lock, reserve, send and finish in separate transactions, and
\* operators that check and write in two, are as good as the atomic ledger: an
\* effect is reserved for the generation the item has and under an authority
\* in force at that moment, its request leaves at most once, no authority is
\* superseded under an open effect, and an effect is settled once.
RefinesLedger == Effects!Spec

\* What has been settled stays: a late answer and a late observation are
\* refused.
SettledStays ==
  [][\A g \in Gens : ledger[g].state \in Settled => ledger'[g] = ledger[g]]_vars
=============================================================================
