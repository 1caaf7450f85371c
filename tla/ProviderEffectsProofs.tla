------------------------ MODULE ProviderEffectsProofs ------------------------
(***************************************************************************)
(* What TLC checks of ProviderEffects on two workers, two operators and    *)
(* two generations, proved for every number of them.                       *)
(***************************************************************************)
EXTENDS ProviderEffects, TLAPS

Entered == {"entered", "locked"}
Beyond  == {"dispatching", "calling"}

\* The item's write lock: its holder works on the generation of its authority.
ItemLocked ==
  \A w \in Workers :
    /\ pc[w] \in Entered <=> itemLock = w
    /\ itemLock = w => gen = EffectGen(w)

\* A busy worker and an unsettled effect have an authority, and a known
\* authority has a generation.
JobsBound ==
  /\ \A w \in Workers : pc[w] # "idle" =>
       job[w] \in Auths /\ status[job[w]] # "absent"
  /\ \A a \in Auths : status[a] # "absent" => binding[a] \in Gens
  /\ \A g \in Gens : ledger[g].state \in Unresolved => ledger[g].auth \in Auths

\* The row locks: a worker that has read its authority, and an operator that
\* has read his candidates, keep them from everybody else.
RowsLocked ==
  /\ \A w \in Workers : pc[w] = "locked" =>
       /\ rowLock[job[w]] = w
       /\ valid[w] => status[job[w]] = "active"
  /\ \A o \in Operators : \A a \in session[o].cands :
       rowLock[a] = o /\ status[a] = "active"

\* The authority that a session is to insert is new, and its own.
SessionsFresh ==
  /\ \A o \in Operators : session[o].new \in Auths =>
       status[session[o].new] = "absent" /\ session[o].gen \in Gens
  /\ \A o, p \in Operators : session[o].new \in Auths
       /\ session[o].new = session[p].new => o = p

\* Which requests can have been sent, and for whom.
RequestsCounted ==
  /\ \A g \in Gens : ledger[g].state = "absent" =>
       sent[g] = 0 /\ \A w \in Workers : pc[w] \in Beyond => EffectGen(w) # g
  /\ \A w \in Workers : pc[w] = "dispatching" => sent[EffectGen(w)] = 0
  /\ \A w, v \in Workers : pc[w] = "dispatching" /\ pc[v] = "dispatching"
       /\ EffectGen(w) = EffectGen(v) => w = v

\* The provider acts on what was sent, once.
ProviderHonest ==
  /\ \A g \in Gens : /\ sent[g] = 0 => fate[g] = "none" /\ g \notin wire
                     /\ fate[g] # "none" => g \notin wire
  /\ rec.gen \in Gens /\ rec.seen = "succeeded" => fate[rec.gen] = "applied"

IInv == /\ TypeOK
        /\ ItemLocked /\ JobsBound /\ RowsLocked /\ SessionsFresh
        /\ RequestsCounted /\ ProviderHonest
        /\ EngagedNotSuperseded /\ SentOnce /\ OneUnresolved /\ SucceededApplied

-----------------------------------------------------------------------------
EffectRows == [state : {"absent"} \cup Unresolved \cup Settled,
               auth : Auths \cup {NoAuth}]

\* Every step keeps tables, locks and locals typed.
LEMMA TypeStep == TypeOK /\ JobsBound /\ SessionsFresh /\ [Next]_vars => TypeOK'
<1> SUFFICES ASSUME TypeOK, JobsBound, SessionsFresh, [Next]_vars
             PROVE  TypeOK'
  OBVIOUS
<1> USE ProcsAssumption, NamesAssumption, BoundAssumption
    DEF TypeOK, Unresolved, Settled, auth
<1>1. ASSUME NEW o \in Operators, NEW g \in Gens, IssueLock(o, g)
      PROVE  TypeOK'
  BY <1>1 DEF IssueLock, LockCandidates
<1>2. ASSUME NEW o \in Operators, NEW a \in Auths, SupersedeLock(o, a)
      PROVE  TypeOK'
  BY <1>2 DEF SupersedeLock, LockCandidates
<1>3. ASSUME NEW o \in Operators, SupersedeWrite(o)
      PROVE  TypeOK'
  <2>1. session' \in [Operators -> [cands : SUBSET Auths, new : Auths \cup {NoAuth},
                                   gen : Gens \cup {NoGen}]]
    BY <1>3 DEF SupersedeWrite, NoSession
  <2>2. status' \in [Auths -> {"absent", "active", "superseded"}]
    BY <1>3 DEF SupersedeWrite
  <2>3. operator' \in [Auths -> Operators \cup {Free}]
    BY <1>3 DEF SupersedeWrite
  <2>5. binding' \in [Auths -> Gens \cup {NoGen}]
    BY <1>3 DEF SupersedeWrite
  <2>6. fresh' \in [Auths -> BOOLEAN]
    <3>1. CASE fresh' = fresh
      BY <3>1
    <3>2. CASE fresh' = [a \in Auths |-> a = session[o].new \/ fresh[a]]
      BY <3>2, Zenon
    <3> QED BY <1>3, <3>1, <3>2 DEF SupersedeWrite
  <2>4. rowLock' \in [Auths -> Workers \cup Operators \cup {Free}]
    BY <1>3 DEF SupersedeWrite, Unlock
  <2> QED BY <1>3, <2>1, <2>2, <2>3, <2>4, <2>5, <2>6 DEF SupersedeWrite
<1>4. ASSUME NEW a \in Auths, Expire(a)
      PROVE  TypeOK'
  BY <1>4 DEF Expire
<1>5. ASSUME NEW g \in Gens, EditItem(g)
      PROVE  TypeOK'
  BY <1>5 DEF EditItem
<1>6. ASSUME NEW w \in Workers, NEW a \in Auths, Enter(w, a)
      PROVE  TypeOK'
  BY <1>6 DEF Enter
<1>7. ASSUME NEW w \in Workers, LockAuthority(w)
      PROVE  TypeOK'
  BY <1>7 DEF LockAuthority, JobsBound
<1>8. ASSUME NEW w \in Workers, Reserve(w)
      PROVE  TypeOK'
  <2>1. job[w] \in Auths /\ EffectGen(w) \in Gens
    BY <1>8 DEF Reserve, JobsBound, EffectGen
  <2>2. ledger' \in [Gens -> EffectRows]
    <3>1. [state |-> "dispatched", auth |-> job[w]] \in EffectRows
          /\ ledger \in [Gens -> EffectRows]
      BY <2>1 DEF EffectRows
    <3> QED BY <1>8, <2>1, <3>1 DEF Reserve
  <2> QED BY <1>8, <2>1, <2>2 DEF Reserve, Leave, Unlock, EffectRows
<1>9. ASSUME NEW w \in Workers, Send(w)
      PROVE  TypeOK'
  BY <1>9 DEF Send, JobsBound, EffectGen
<1>10. ASSUME NEW w \in Workers, Finish(w)
       PROVE  TypeOK'
  <2>1. EffectGen(w) \in Gens
    BY <1>10 DEF Finish, JobsBound, EffectGen
  <2>2. ledger' \in [Gens -> EffectRows]
    <3>1. ASSUME NEW s \in Answers(EffectGen(w))
          PROVE  [ledger EXCEPT ![EffectGen(w)].state = s] \in [Gens -> EffectRows]
      BY <2>1 DEF Answers, EffectRows
    <3>2. ledger \in [Gens -> EffectRows]
      BY DEF EffectRows
    <3> QED BY <1>10, <3>1, <3>2 DEF Finish
  <2> QED BY <1>10, <2>2 DEF Finish, Leave, EffectRows
<1>11. ASSUME NEW w \in Workers, Crash(w)
       PROVE  TypeOK'
  BY <1>11 DEF Crash, Leave, Unlock
<1>12. ASSUME NEW g \in Gens, Provider(g)
       PROVE  TypeOK'
  BY <1>12 DEF Provider
<1>13. ASSUME NEW g \in Gens, Observe(g)
       PROVE  TypeOK'
  BY <1>13 DEF Observe
<1>14. CASE RecordObservation
  <2>1. ledger' \in [Gens -> EffectRows]
    BY <1>14 DEF RecordObservation, Verdict, EffectRows
  <2>2. rec' \in [gen : Gens \cup {NoGen},
                  seen : {"unclear", "succeeded", "not_applied"}]
    BY <1>14 DEF RecordObservation, NoRec
  <2> QED BY <1>14, <2>1, <2>2 DEF RecordObservation, EffectRows
<1>15. CASE UNCHANGED vars
  BY <1>15 DEF vars
<1> HIDE DEF TypeOK
<1> QED BY <1>1, <1>2, <1>3, <1>4, <1>5, <1>6, <1>7, <1>8, <1>9, <1>10, <1>11,
           <1>12, <1>13, <1>14, <1>15 DEF Next, WorkerStep

\* Every step keeps the inductive invariant.
LEMMA InvStep == IInv /\ [Next]_vars => IInv'
<1> SUFFICES ASSUME IInv, [Next]_vars
             PROVE  IInv'
  OBVIOUS
<1> DEFINE Rest == /\ ItemLocked /\ JobsBound /\ RowsLocked /\ SessionsFresh
                   /\ RequestsCounted /\ ProviderHonest
                   /\ EngagedNotSuperseded /\ SentOnce /\ OneUnresolved
                   /\ SucceededApplied
<1>0. TypeOK'
  BY TypeStep DEF IInv
<1> SUFFICES Rest'
  BY <1>0 DEF Rest, IInv
<1> HIDE DEF Rest
<1> USE ProcsAssumption, NamesAssumption, <1>0
    DEF IInv, TypeOK, Entered, Beyond, EffectGen, Engaged, Unresolved, Settled, auth,
        ItemLocked, JobsBound, RowsLocked, SessionsFresh, RequestsCounted,
        ProviderHonest, EngagedNotSuperseded, SentOnce, OneUnresolved, SucceededApplied
<1>1. ASSUME NEW o \in Operators, NEW g \in Gens, IssueLock(o, g)
      PROVE  Rest'
  BY <1>1 DEF Rest, IssueLock, LockCandidates
<1>2. ASSUME NEW o \in Operators, NEW a \in Auths, SupersedeLock(o, a)
      PROVE  Rest'
  BY <1>2 DEF Rest, SupersedeLock, LockCandidates
<1>3. ASSUME NEW o \in Operators, SupersedeWrite(o)
      PROVE  Rest'
  <2>1. ASSUME NEW a \in Auths, status[a] # "absent"
        PROVE  /\ a # session[o].new
               /\ status'[a] # "absent"
               /\ binding'[a] = binding[a]
               /\ a \notin session[o].cands => status'[a] = status[a]
               /\ a \in Engaged => status'[a] = status[a]
    BY <1>3, <2>1 DEF SupersedeWrite, Refused
  <2>3. ItemLocked'
    BY <1>3, <2>1 DEF SupersedeWrite
  <2>4. JobsBound'
    <3>1. ASSUME NEW a \in Auths, status'[a] # "absent"
          PROVE  binding'[a] \in Gens
      BY <1>3, <2>1, <3>1 DEF SupersedeWrite
    <3>2. pc' = pc /\ job' = job /\ ledger' = ledger
      BY <1>3 DEF SupersedeWrite
    <3> QED BY <2>1, <3>1, <3>2
  <2>5. RowsLocked'
    BY <1>3 DEF SupersedeWrite, Refused, Unlock, NoSession
  <2>6. SessionsFresh'
    <3>1. session' = [session EXCEPT ![o] = NoSession]
      BY <1>3 DEF SupersedeWrite
    <3>2. ASSUME NEW p \in Operators, session'[p].new \in Auths
          PROVE  p # o /\ session'[p] = session[p]
      BY <3>1, <3>2 DEF NoSession
    <3>3. ASSUME NEW p \in Operators, p # o, session[p].new \in Auths
          PROVE  status'[session[p].new] = "absent"
      BY <1>3, <3>3 DEF SupersedeWrite
    <3> QED BY <3>2, <3>3
  <2>7. RequestsCounted'
    BY <1>3, <2>1 DEF SupersedeWrite
  <2>8. ProviderHonest' /\ SentOnce' /\ OneUnresolved' /\ SucceededApplied'
    BY <1>3 DEF SupersedeWrite
  <2>9. EngagedNotSuperseded'
    <3>1. ledger' = ledger
      BY <1>3 DEF SupersedeWrite
    <3>2. ASSUME NEW g \in Gens, ledger[g].state \in Unresolved
          PROVE  status'[ledger[g].auth] = "active"
      <4>1. ledger[g].auth \in Engaged /\ ledger[g].auth \in Auths
        BY <3>2
      <4>2. status[ledger[g].auth] = "active"
        BY <4>1
      <4> QED BY <2>1, <4>1, <4>2
    <3> QED BY <3>1, <3>2
  <2> QED BY <2>3, <2>4, <2>5, <2>6, <2>7, <2>8, <2>9 DEF Rest
<1>4. ASSUME NEW a \in Auths, Expire(a)
      PROVE  Rest'
  BY <1>4 DEF Rest, Expire
<1>5. ASSUME NEW g \in Gens, EditItem(g)
      PROVE  Rest'
  BY <1>5 DEF Rest, EditItem
<1>6. ASSUME NEW w \in Workers, NEW a \in Auths, Enter(w, a)
      PROVE  Rest'
  BY <1>6 DEF Rest, Enter, SameGeneration
<1>7. ASSUME NEW w \in Workers, LockAuthority(w)
      PROVE  Rest'
  <2>1. ItemLocked'
    BY <1>7 DEF LockAuthority
  <2>2. JobsBound'
    BY <1>7 DEF LockAuthority
  <2>3. RowsLocked'
    <3>1. valid'[w] => status[job[w]] = "active"
      <4>1. valid' = [valid EXCEPT ![w] = status[job[w]] = "active"]
        BY <1>7 DEF LockAuthority
      <4>2. valid'[w] = (status[job[w]] = "active")
        BY <4>1
      <4> QED BY <4>2
    <3>2. ASSUME NEW v \in Workers, v # w
          PROVE  valid'[v] = valid[v] /\ pc'[v] = pc[v]
      BY <1>7, <3>2 DEF LockAuthority
    <3>3. /\ job' = job /\ status' = status /\ session' = session
          /\ rowLock[job[w]] = Free /\ job[w] \in Auths
          /\ rowLock' = [rowLock EXCEPT ![job[w]] = w]
      BY <1>7 DEF LockAuthority
    <3> QED BY <3>1, <3>2, <3>3
  <2>4. SessionsFresh'
    BY <1>7 DEF LockAuthority
  <2>5. RequestsCounted'
    BY <1>7 DEF LockAuthority
  <2>6. ProviderHonest'
    BY <1>7 DEF LockAuthority
  <2>7. EngagedNotSuperseded'
    BY <1>7 DEF LockAuthority
  <2>8. SentOnce'
    BY <1>7 DEF LockAuthority
  <2>9. OneUnresolved'
    BY <1>7 DEF LockAuthority
  <2>10. SucceededApplied'
    BY <1>7 DEF LockAuthority
  <2> QED BY <2>1, <2>2, <2>3, <2>4, <2>5, <2>6, <2>7, <2>8, <2>9, <2>10 DEF Rest
<1>8. ASSUME NEW w \in Workers, Reserve(w)
      PROVE  Rest'
  <2>1. ItemLocked'
    BY <1>8 DEF Reserve, Admissible, Leave, Unlock
  <2>2. JobsBound'
    <3>1. job[w] \in Auths /\ EffectGen(w) \in Gens
      BY <1>8 DEF Reserve
    <3>2. CASE Admissible(w)
      <4>1. /\ ledger' = [ledger EXCEPT ![EffectGen(w)] =
                            [state |-> "dispatched", auth |-> job[w]]]
            /\ pc' = [pc EXCEPT ![w] = "dispatching"]
            /\ UNCHANGED <<job, status, binding>>
        BY <1>8, <3>2 DEF Reserve
      <4>2. \A g \in Gens : ledger'[g].state \in Unresolved => ledger'[g].auth \in Auths
        BY <3>1, <4>1
      <4>3. \A v \in Workers : pc[v] # "idle" <=> pc'[v] # "idle"
        BY <1>8, <4>1 DEF Reserve
      <4> QED BY <4>1, <4>2, <4>3
    <3>3. CASE ~Admissible(w)
      BY <1>8, <3>3 DEF Reserve, Leave
    <3> QED BY <3>2, <3>3
  <2>3. RowsLocked'
    BY <1>8 DEF Reserve, Admissible, Leave, Unlock
  <2>4. SessionsFresh'
    BY <1>8 DEF Reserve, Admissible, Leave, Unlock
  <2>5. RequestsCounted'
    <3>1. CASE Admissible(w)
      <4>1. EffectGen(w) \in Gens /\ ledger[EffectGen(w)].state = "absent"
        BY <1>8, <3>1 DEF Reserve, Admissible
      <4>2. /\ pc' = [pc EXCEPT ![w] = "dispatching"]
            /\ ledger' = [ledger EXCEPT ![EffectGen(w)] =
                            [state |-> "dispatched", auth |-> job[w]]]
            /\ UNCHANGED <<job, binding, sent>>
        BY <1>8, <3>1 DEF Reserve
      <4> QED BY <4>1, <4>2
    <3>2. CASE ~Admissible(w)
      <4>1. /\ pc' = [pc EXCEPT ![w] = "idle"] /\ job' = [job EXCEPT ![w] = NoAuth]
            /\ UNCHANGED <<ledger, binding, sent>>
        BY <1>8, <3>2 DEF Reserve, Leave
      <4>2. ASSUME NEW v \in Workers, pc'[v] \in Beyond
            PROVE  v # w /\ pc'[v] = pc[v] /\ EffectGen(v)' = EffectGen(v)
        BY <4>1, <4>2
      <4> QED BY <4>1, <4>2
    <3> QED BY <3>1, <3>2
  <2>6. ProviderHonest'
    BY <1>8 DEF Reserve, Admissible, Leave, Unlock
  <2>7. EngagedNotSuperseded'
    BY <1>8 DEF Reserve, Admissible, Leave, Unlock
  <2>8. SentOnce'
    BY <1>8 DEF Reserve, Admissible, Leave, Unlock
  <2>9. OneUnresolved'
    BY <1>8 DEF Reserve, Admissible, Leave, Unlock
  <2>10. SucceededApplied'
    BY <1>8 DEF Reserve, Admissible, Leave, Unlock
  <2> QED BY <2>1, <2>2, <2>3, <2>4, <2>5, <2>6, <2>7, <2>8, <2>9, <2>10 DEF Rest
<1>9. ASSUME NEW w \in Workers, Send(w)
      PROVE  Rest'
  BY <1>9 DEF Rest, Send
<1>10. ASSUME NEW w \in Workers, Finish(w)
       PROVE  Rest'
  <2>1. EffectGen(w) \in Gens
    BY <1>10 DEF Finish
  <2>2. ASSUME NEW g \in Gens
        PROVE  /\ ledger'[g].auth = ledger[g].auth
               /\ ledger'[g].state # ledger[g].state =>
                    /\ ledger[g].state \in Unresolved
                    /\ ledger'[g].state \in Unresolved \cup Settled
                    /\ ledger'[g].state = "succeeded" => fate[g] = "applied"
    <3>1. CASE ledger' = ledger
      BY <3>1
    <3>2. ASSUME NEW s \in Answers(EffectGen(w)),
                 ledger[EffectGen(w)].state = "dispatched",
                 ledger' = [ledger EXCEPT ![EffectGen(w)].state = s]
          PROVE  <2>2!2
      BY <2>1, <3>2 DEF Answers
    <3> QED BY <1>10, <3>1, <3>2 DEF Finish
  <2>3. /\ pc' = [pc EXCEPT ![w] = "idle"] /\ job' = [job EXCEPT ![w] = NoAuth]
        /\ UNCHANGED <<gen, itemLock, auth, rowLock, session, rec, wire, fate, sent>>
    BY <1>10 DEF Finish, Leave
  <2>4. ItemLocked' /\ SessionsFresh' /\ ProviderHonest' /\ SentOnce'
    BY <1>10, <2>3 DEF Finish
  <2>10. JobsBound'
    <3>1. \A v \in Workers : pc'[v] # "idle" => pc[v] # "idle" /\ job'[v] = job[v]
      BY <2>3
    <3>2. \A g \in Gens : ledger'[g].state \in Unresolved => ledger[g].state \in Unresolved
      BY <2>2
    <3> QED BY <2>2, <2>3, <3>1, <3>2
  <2>5. RowsLocked'
    BY <1>10 DEF Finish, Leave
  <2>6. RequestsCounted'
    <3>1. \A g \in Gens : ledger'[g].state = "absent" => ledger[g].state = "absent"
      BY <2>2
    <3>2. ASSUME NEW v \in Workers, pc'[v] \in Beyond
          PROVE  v # w /\ pc'[v] = pc[v] /\ EffectGen(v)' = EffectGen(v)
      BY <2>3, <3>2
    <3> QED BY <2>3, <3>1, <3>2
  <2>7. EngagedNotSuperseded'
    BY <2>2, <2>3
  <2>8. OneUnresolved'
    BY <2>2
  <2>9. SucceededApplied'
    BY <2>2, <2>3
  <2> QED BY <2>4, <2>5, <2>6, <2>7, <2>8, <2>9, <2>10 DEF Rest
<1>11. ASSUME NEW w \in Workers, Crash(w)
       PROVE  Rest'
  BY <1>11 DEF Rest, Crash, Leave, Unlock
<1>12. ASSUME NEW g \in Gens, Provider(g)
       PROVE  Rest'
  BY <1>12 DEF Rest, Provider
<1>13. ASSUME NEW g \in Gens, Observe(g)
       PROVE  Rest'
  BY <1>13 DEF Rest, Observe, NoRec
<1>14. CASE RecordObservation
  <2>1. ASSUME NEW g \in Gens
        PROVE  /\ ledger'[g].auth = ledger[g].auth
               /\ ledger'[g].state # ledger[g].state =>
                    /\ ledger[g].state \in Unresolved
                    /\ ledger'[g].state \in Unresolved \cup Settled
                    /\ ledger'[g].state = "succeeded" => fate[g] = "applied"
    BY <1>14 DEF RecordObservation, NoRec, Verdict
  <2>2. UNCHANGED <<gen, itemLock, auth, rowLock, pc, job, valid, session, wire,
                    fate, sent>>
    BY <1>14 DEF RecordObservation
  <2>3. /\ ItemLocked' /\ RowsLocked' /\ SessionsFresh' /\ SentOnce'
    BY <2>2
  <2>9. JobsBound'
    <3>1. \A g \in Gens : ledger'[g].state \in Unresolved => ledger[g].state \in Unresolved
      BY <2>1
    <3> QED BY <2>1, <2>2, <3>1
  <2>4. ProviderHonest'
    BY <1>14, <2>2 DEF RecordObservation, NoRec
  <2>5. RequestsCounted'
    <3>1. \A g \in Gens : ledger'[g].state = "absent" => ledger[g].state = "absent"
      BY <2>1
    <3> QED BY <2>2, <3>1
  <2>6. EngagedNotSuperseded'
    BY <2>1, <2>2
  <2>7. OneUnresolved'
    BY <2>1
  <2>8. SucceededApplied'
    BY <2>1, <2>2
  <2> QED BY <2>3, <2>4, <2>5, <2>6, <2>7, <2>8, <2>9 DEF Rest
<1>15. CASE UNCHANGED vars
  BY <1>15 DEF Rest, vars
<1> HIDE DEF IInv, TypeOK
<1> QED BY <1>1, <1>2, <1>3, <1>4, <1>5, <1>6, <1>7, <1>8, <1>9, <1>10, <1>11,
           <1>12, <1>13, <1>14, <1>15 DEF Next, WorkerStep

-----------------------------------------------------------------------------
\* The inductive invariant holds in every reachable state.
LEMMA Inductive == Spec => []IInv
<1>1. Init => IInv
  BY ProcsAssumption, NamesAssumption, BoundAssumption
  DEF Init, IInv, TypeOK, Unresolved, Settled, NoSession, NoRec, ItemLocked,
      JobsBound, RowsLocked, SessionsFresh, RequestsCounted, ProviderHonest,
      EngagedNotSuperseded, Engaged, SentOnce, OneUnresolved, SucceededApplied,
      Entered, Beyond
<1> QED BY <1>1, InvStep, PTL DEF Spec

\* The tables, locks and locals keep their types.
THEOREM TypeCorrect == Spec => []TypeOK
<1>1. IInv => TypeOK
  BY DEF IInv
<1> QED BY <1>1, Inductive, PTL

\* Dispatch and supersession of an authority never both win, for any number of
\* operators, authorities and workers.
THEOREM EngagedNotSupersededInvariant == Spec => []EngagedNotSuperseded
<1>1. IInv => EngagedNotSuperseded
  BY DEF IInv
<1> QED BY <1>1, Inductive, PTL

\* The request of an effect is sent at most once, however often the workers
\* crash, the job is retried and the item changes.
THEOREM SentOnceInvariant == Spec => []SentOnce
<1>1. IInv => SentOnce
  BY DEF IInv
<1> QED BY <1>1, Inductive, PTL

\* A changed item never bypasses an unresolved effect.
THEOREM OneUnresolvedInvariant == Spec => []OneUnresolved
<1>1. IInv => OneUnresolved
  BY DEF IInv
<1> QED BY <1>1, Inductive, PTL

\* What the ledger calls succeeded was carried out by the provider, whether the
\* worker or the reconciler recorded it.
THEOREM SucceededAppliedInvariant == Spec => []SucceededApplied
<1>1. IInv => SucceededApplied
  BY DEF IInv
<1> QED BY <1>1, Inductive, PTL

\* What a step can do to the row of an effect.
EffectMoves(g) ==
  \/ ledger'[g] = ledger[g]
  \/ /\ ledger[g].state = "absent"
     /\ gen = g /\ status[ledger'[g].auth] = "active"
  \/ /\ ledger[g].state \in Unresolved
     /\ ledger'[g].state # "absent"

\* Every step moves every effect that way.
LEMMA EffectStep == IInv /\ [Next]_vars => \A g \in Gens : EffectMoves(g)
<1> SUFFICES ASSUME IInv, [Next]_vars, NEW g \in Gens
             PROVE  EffectMoves(g)
  OBVIOUS
<1>1. ASSUME NEW w \in Workers, Reserve(w)
      PROVE  EffectMoves(g)
  <2>1. CASE Admissible(w)
    <3>1. gen = EffectGen(w) /\ status[job[w]] = "active"
      BY <1>1, <2>1 DEF Reserve, Admissible, IInv, ItemLocked, RowsLocked, Entered
    <3>2. ledger' = [ledger EXCEPT ![EffectGen(w)] =
                       [state |-> "dispatched", auth |-> job[w]]]
      BY <1>1, <2>1 DEF Reserve
    <3> QED BY <2>1, <3>1, <3>2 DEF EffectMoves, Admissible, IInv, TypeOK
  <2>2. CASE ~Admissible(w)
    BY <1>1, <2>2 DEF Reserve, EffectMoves
  <2> QED BY <2>1, <2>2
<1>2. ASSUME NEW w \in Workers, Finish(w)
      PROVE  EffectMoves(g)
  <2>1. CASE ledger' = ledger
    BY <2>1 DEF EffectMoves
  <2>2. ASSUME NEW s \in Answers(EffectGen(w)),
               ledger[EffectGen(w)].state = "dispatched",
               ledger' = [ledger EXCEPT ![EffectGen(w)].state = s]
        PROVE  EffectMoves(g)
    BY <2>2 DEF EffectMoves, Answers, Unresolved, IInv, TypeOK
  <2> QED BY <1>2, <2>1, <2>2 DEF Finish
<1>3. CASE RecordObservation
  BY <1>3 DEF RecordObservation, Verdict, EffectMoves, IInv, TypeOK
<1>4. CASE UNCHANGED ledger
  BY <1>4 DEF EffectMoves
<1>5. ASSUME NEW w \in Workers,
             LockAuthority(w) \/ Send(w) \/ Crash(w) \/ \E a \in Auths : Enter(w, a)
      PROVE  UNCHANGED ledger
  BY <1>5 DEF LockAuthority, Send, Crash, Enter
<1>6. ASSUME NEW o \in Operators,
             \/ \E h \in Gens : IssueLock(o, h)
             \/ \E a \in Auths : SupersedeLock(o, a)
             \/ SupersedeWrite(o)
      PROVE  UNCHANGED ledger
  BY <1>6 DEF IssueLock, SupersedeLock, SupersedeWrite
<1>7. ASSUME \/ \E a \in Auths : Expire(a)
             \/ \E h \in Gens : EditItem(h) \/ Provider(h) \/ Observe(h)
             \/ UNCHANGED vars
      PROVE  UNCHANGED ledger
  BY <1>7 DEF Expire, EditItem, Provider, Observe, vars
<1> QED BY <1>1, <1>2, <1>3, <1>4, <1>5, <1>6, <1>7 DEF Next, WorkerStep

\* A request leaves only for the generation the item had, under the item's
\* lock, when the effect was reserved, and for an authority active then.
ReservedExactly ==
  [][\A g \in Gens : ledger[g].state = "absent" /\ ledger'[g].state # "absent"
       => gen = g /\ status[ledger'[g].auth] = "active"]_vars

\* An effect is reserved only for the generation that the item has then, and
\* under an authority that is active then.
THEOREM ReservedExactlyAlways == Spec => ReservedExactly
<1>1. IInv /\ [Next]_vars =>
        [\A g \in Gens : ledger[g].state = "absent" /\ ledger'[g].state # "absent"
           => gen = g /\ status[ledger'[g].auth] = "active"]_vars
  BY EffectStep DEF EffectMoves, Unresolved
<1> QED BY <1>1, Inductive, PTL DEF Spec, ReservedExactly

\* No late answer and no late observation changes a settled effect.
THEOREM SettledForGood == Spec => SettledStays
<1>1. IInv /\ [Next]_vars =>
        [\A g \in Gens : ledger[g].state \in Settled => ledger'[g] = ledger[g]]_vars
  BY EffectStep DEF EffectMoves, Unresolved, Settled
<1> QED BY <1>1, Inductive, PTL DEF Spec, SettledStays

-----------------------------------------------------------------------------
\* Open effects of the abstract ledger are the unresolved ones.
LEMMA OpenEffects ==
  ASSUME TypeOK
  PROVE  Effects!Open = {g \in Gens : ledger[g].state \in Unresolved}
BY DEF Effects!Open, TypeOK, Unresolved, Settled

\* Every step is a step of the atomic ledger, or changes nothing that it has.
LEMMA LedgerStep == IInv /\ [Next]_vars => [Effects!Next]_(Effects!vars)
<1> SUFFICES ASSUME IInv, [Next]_vars
             PROVE  Effects!Next \/ UNCHANGED Effects!vars
  OBVIOUS
<1> USE DEF Unresolved, Settled, auth
<1>t. TypeOK
  BY DEF IInv
<1>1. ASSUME UNCHANGED <<gen, status, binding, ledger, wire, fate>>
      PROVE  UNCHANGED Effects!vars
  BY <1>1 DEF Effects!vars
<1>2. ASSUME NEW o \in Operators, SupersedeWrite(o)
      PROVE  Effects!Next \/ UNCHANGED Effects!vars
  <2>1. CASE UNCHANGED auth
    BY <1>2, <2>1, <1>1 DEF SupersedeWrite
  <2>2. CASE ~Refused(o) /\ ~UNCHANGED auth
    <3> DEFINE Old == session[o].cands
               New == {session[o].new} \cap Auths
    <3>1. Old \in SUBSET Auths /\ New \in SUBSET Auths
      BY <1>t DEF TypeOK
    <3>2. \A a \in Old : status[a] = "active" /\ \A h \in Effects!Open : ledger[h].auth # a
      BY <2>2, <3>1, <1>t, OpenEffects DEF Refused, Engaged, IInv, RowsLocked
    <3>3. \A a \in New : status[a] = "absent"
      BY DEF IInv, SessionsFresh
    <3>4. PICK g \in Gens : New # {} => g = session[o].gen
      BY <1>t DEF IInv, SessionsFresh, TypeOK
    <3>5. /\ status' = [a \in Auths |-> IF a \in New THEN "active"
                                  ELSE IF a \in Old THEN "superseded" ELSE status[a]]
          /\ binding' = [a \in Auths |-> IF a \in New THEN g ELSE binding[a]]
          /\ UNCHANGED <<gen, ledger, wire, fate>>
      BY <1>2, <2>2, <3>4 DEF SupersedeWrite
    <3> HIDE DEF Old, New
    <3>6. Effects!Decide(Old, New, g)
      BY <3>2, <3>3, <3>5 DEF Effects!Decide, Effects!Open
    <3> QED BY <3>1, <3>6 DEF Effects!Next
  <2> QED BY <1>2, <2>1, <2>2 DEF SupersedeWrite
<1>3. ASSUME NEW g \in Gens, EditItem(g)
      PROVE  Effects!Next
  <2>1. Effects!Edit
    BY <1>3 DEF EditItem, Effects!Edit
  <2> QED BY <2>1 DEF Effects!Next
<1>4. ASSUME NEW w \in Workers, Reserve(w)
      PROVE  Effects!Next \/ UNCHANGED Effects!vars
  <2>1. CASE Admissible(w)
    <3>1. /\ gen = EffectGen(w) /\ status[job[w]] = "active"
          /\ job[w] \in Auths /\ gen \in Gens
      BY <1>4, <2>1, <1>t DEF Reserve, Admissible, IInv, ItemLocked, RowsLocked,
                              JobsBound, Entered, TypeOK
    <3>2. ledger' = [ledger EXCEPT ![gen] =
                       [state |-> "dispatched", auth |-> job[w]]]
      BY <1>4, <2>1, <3>1 DEF Reserve
    <3>3. Effects!Open = {} /\ ledger[gen].state = "absent"
      BY <1>t, <2>1, <3>1, OpenEffects DEF Admissible
    <3> DEFINE outcome == [g \in Gens |->
                 CASE ledger[g].state = "absent"      -> "none"
                   [] ledger[g].state \in Unresolved -> "open"
                   [] OTHER                           -> ledger[g].state]
    <3>4. PICK a \in Auths : a = job[w]
      BY <3>1
    <3>5. outcome' = [outcome EXCEPT ![gen] = "open"]
      BY <1>t, <3>1, <3>2 DEF TypeOK
    <3>6. [g \in Gens |-> ledger[g].auth]'
            = [[g \in Gens |-> ledger[g].auth] EXCEPT ![gen] = a]
      BY <1>t, <3>1, <3>2, <3>4 DEF TypeOK
    <3>7. outcome[gen] = "none"
      BY <3>1, <3>3
    <3>8. UNCHANGED <<gen, status, binding, wire, fate>> /\ binding[a] = gen
      BY <1>4, <3>1, <3>4 DEF Reserve, EffectGen
    <3>9. Effects!Reserve(a)
      BY <3>1, <3>3, <3>4, <3>5, <3>6, <3>7, <3>8 DEF Effects!Reserve
    <3> QED BY <3>9 DEF Effects!Next
  <2>2. CASE ~Admissible(w)
    BY <1>1, <1>4, <2>2 DEF Reserve
  <2> QED BY <2>1, <2>2
<1>5. ASSUME NEW w \in Workers, Send(w)
      PROVE  Effects!Next
  <2>1. PICK g \in Gens : g = EffectGen(w)
    BY <1>5 DEF Send, EffectGen, IInv, JobsBound
  <2>2. /\ ledger[g].state # "absent"
        /\ g \notin wire /\ fate[g] = "none"
    BY <1>5, <2>1 DEF Send, IInv, RequestsCounted, ProviderHonest, Beyond
  <2>3. Effects!Request(g)
    BY <1>5, <1>t, <2>1, <2>2 DEF Send, TypeOK, Effects!Request
  <2> QED BY <2>3 DEF Effects!Next
<1>6. ASSUME NEW g \in Gens, Provider(g)
      PROVE  Effects!Next
  <2>1. PICK f \in {"applied", "refused"} : fate' = [fate EXCEPT ![g] = f]
    BY <1>6 DEF Provider
  <2>2. Effects!Provide(g, f)
    BY <1>6, <1>t, <2>1 DEF Provider, TypeOK, Effects!Provide
  <2> QED BY <2>2 DEF Effects!Next
<1>7. ASSUME NEW g \in Gens, NEW s \in {"succeeded", "rejected"},
             ledger[g].state \in Unresolved,
             s = "succeeded" => fate[g] = "applied" /\ g \notin wire,
             ledger' = [ledger EXCEPT ![g].state = s],
             UNCHANGED <<gen, status, binding, wire, fate>>
      PROVE  Effects!Next
  <2> DEFINE outcome == [h \in Gens |->
               CASE ledger[h].state = "absent"      -> "none"
                 [] ledger[h].state \in Unresolved -> "open"
                 [] OTHER                           -> ledger[h].state]
  <2>2. outcome[g] = "open" /\ outcome' = [outcome EXCEPT ![g] = s]
    <3>1. outcome[g] = "open"
      BY <1>7
    <3>2. ledger'[g].state = s /\ \A h \in Gens \ {g} : ledger'[h] = ledger[h]
      BY <1>7, <1>t DEF TypeOK
    <3>3. ASSUME NEW h \in Gens
          PROVE  outcome'[h] = IF h = g THEN s ELSE outcome[h]
      BY <3>2
    <3> HIDE DEF outcome
    <3>4. DOMAIN outcome = Gens /\ DOMAIN outcome' = Gens
      BY DEF outcome
    <3>5. outcome' = [h \in Gens |-> outcome'[h]]
      BY DEF outcome
    <3> QED BY <3>1, <3>3, <3>4, <3>5
  <2>3. [h \in Gens |-> ledger[h].auth]' = [h \in Gens |-> ledger[h].auth]
    BY <1>7, <1>t DEF TypeOK
  <2>1. Effects!Settle(g, s)
    BY <1>7, <2>2, <2>3 DEF Effects!Settle
  <2> QED BY <2>1 DEF Effects!Next
<1>8. ASSUME NEW g \in Gens, NEW s \in Unresolved,
             ledger[g].state \in Unresolved,
             ledger' = [ledger EXCEPT ![g].state = s],
             UNCHANGED <<gen, status, binding, wire, fate>>
      PROVE  UNCHANGED Effects!vars
  BY <1>8, <1>t DEF TypeOK, Effects!vars
<1>9. ASSUME NEW w \in Workers, Finish(w)
      PROVE  Effects!Next \/ UNCHANGED Effects!vars
  <2>1. CASE ledger' = ledger
    BY <1>1, <1>9, <2>1 DEF Finish
  <2>2. ASSUME NEW s \in Answers(EffectGen(w)),
               ledger[EffectGen(w)].state = "dispatched",
               ledger' = [ledger EXCEPT ![EffectGen(w)].state = s]
        PROVE  Effects!Next \/ UNCHANGED Effects!vars
    <3>1. EffectGen(w) \in Gens
      BY <1>9 DEF Finish, EffectGen, IInv, JobsBound
    <3>2. UNCHANGED <<gen, status, binding, wire, fate>>
      BY <1>9 DEF Finish
    <3>3. CASE s = "ambiguous"
      BY <1>8, <2>2, <3>1, <3>2, <3>3
    <3>4. CASE s \in {"succeeded", "rejected"}
      BY <1>7, <2>2, <3>1, <3>2, <3>4 DEF Answers
    <3> QED BY <2>2, <3>3, <3>4 DEF Answers
  <2> QED BY <1>9, <2>1, <2>2 DEF Finish
<1>10. CASE RecordObservation
  <2>1. CASE ledger' = ledger
    BY <1>1, <1>10, <2>1 DEF RecordObservation
  <2>2. CASE ledger' # ledger
    <3>1. /\ ledger[rec.gen].state \in Unresolved
          /\ ledger' = [ledger EXCEPT ![rec.gen].state = Verdict(rec.seen)]
          /\ UNCHANGED <<gen, status, binding, wire, fate>>
      BY <1>10, <2>2 DEF RecordObservation
    <3>2. rec.gen \in Gens
      BY <1>t, <2>2, <3>1 DEF TypeOK
    <3>3. CASE rec.seen = "succeeded"
      BY <1>7, <3>1, <3>2, <3>3 DEF Verdict, IInv, ProviderHonest
    <3>4. CASE rec.seen = "not_applied"
      BY <1>7, <3>1, <3>2, <3>4 DEF Verdict
    <3>5. CASE rec.seen = "unclear"
      BY <1>8, <3>1, <3>2, <3>5 DEF Verdict
    <3> QED BY <1>t, <3>3, <3>4, <3>5 DEF TypeOK
  <2> QED BY <2>1, <2>2
<1>11. ASSUME NEW w \in Workers,
              LockAuthority(w) \/ Crash(w) \/ \E a \in Auths : Enter(w, a)
       PROVE  UNCHANGED Effects!vars
  BY <1>1, <1>11 DEF LockAuthority, Crash, Enter
<1>12. ASSUME NEW o \in Operators,
              \/ \E h \in Gens : IssueLock(o, h)
              \/ \E a \in Auths : SupersedeLock(o, a)
       PROVE  UNCHANGED Effects!vars
  BY <1>1, <1>12 DEF IssueLock, SupersedeLock
<1>13. ASSUME \/ \E a \in Auths : Expire(a)
              \/ \E h \in Gens : Observe(h)
              \/ UNCHANGED vars
       PROVE  UNCHANGED Effects!vars
  BY <1>1, <1>13 DEF Expire, Observe, vars
<1> QED BY <1>2, <1>3, <1>4, <1>5, <1>6, <1>9, <1>10, <1>11, <1>12, <1>13
        DEF Next, WorkerStep

\* The protocol of locks, reservations, requests and observations implements
\* the atomic ledger, for any number of workers, operators and generations.
THEOREM ImplementsLedger == Spec => RefinesLedger
<1>1. Init => Effects!Init
  <2> SUFFICES ASSUME Init
               PROVE  Effects!Init
    OBVIOUS
  <2>1. ledger = [g \in Gens |-> [state |-> "absent", auth |-> NoAuth]]
        /\ wire = {} /\ fate = [g \in Gens |-> "none"]
    BY DEF Init
  <2>2. [g \in Gens |-> CASE ledger[g].state = "absent"      -> "none"
                          [] ledger[g].state \in Unresolved -> "open"
                          [] OTHER                           -> ledger[g].state]
          = [g \in Gens |-> "none"]
    BY <2>1 DEF Unresolved
  <2> QED BY <2>1, <2>2 DEF Init, Effects!Init
<1> QED BY <1>1, LedgerStep, Inductive, PTL DEF Spec, RefinesLedger, Effects!Spec
=============================================================================
