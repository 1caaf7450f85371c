------------------------- MODULE EnqueueModesProofs -------------------------
(***************************************************************************)
(* What TLC checks of EnqueueModes with three callers and three rows,      *)
(* proved for every number of them, whatever modes they use.               *)
(***************************************************************************)
EXTENDS EnqueueModes, TLAPS

\* Which statement belongs to which call.
CallsOpen ==
  \A c \in Clients :
    /\ pc[c] = "done" <=> answer[c] # "pending"
    /\ doomed[c] # {} => pc[c] = "insert"
    /\ pc[c] \in {"extend", "probe", "insert_null"} => mode[c] = "debounce"
    /\ pc[c] \in {"snapshot", "cancel"} => mode[c] = "supersede"

\* The rows of an uncommitted supersede are locked: nobody else moves them.
DoomedHeld ==
  /\ \A c \in Clients : \A r \in doomed[c] :
       state[r] \in Pending \cup {"failed", "dead_letter"}
  /\ \A c, d \in Clients : \A r \in doomed[c] : r \in doomed[d] => c = d

\* A cancelled row knows the call that replaced it.
CancelledReplaced ==
  \A r \in Rows : state[r] = "cancelled" =>
    cancelledBy[r] \in Clients /\ answer[cancelledBy[r]] \in Rows

\* uq_queue_jobs_dedupe_key_active.
KeyUnique == \A r, s \in Keyed(Pending \cup Active) : r = s

\* An idempotent call has the advisory lock from its SELECT to its INSERT, and
\* no other idempotent request has the key then.
IdempotentLocked ==
  \A c \in Clients :
    /\ IF mode[c] = "idempotent" THEN manifest[c] \in Manifests
                                 ELSE manifest[c] = c
    /\ mode[c] = "idempotent" /\ pc[c] \in {"select", "insert"} => lock = c
    /\ mode[c] = "idempotent" /\ pc[c] = "insert" =>
         \A r \in Keyed(Pending \cup Active) : body[r] \notin Manifests

\* The row an idempotent call was answered with is of its request, unless a
\* debounce has rewritten it since.
AnswerOwn ==
  \A c \in Clients : mode[c] = "idempotent" /\ answer[c] \in Rows =>
    /\ keyed[answer[c]] /\ state[answer[c]] # "absent"
    /\ body[answer[c]] = manifest[c] \/ body[answer[c]] \notin Manifests

\* Calls of different requests do not share a row.
AnswersApart ==
  \A c, d \in Clients :
    /\ mode[c] = "idempotent" /\ mode[d] = "idempotent"
    /\ answer[c] \in Rows /\ answer[c] = answer[d]
    => manifest[c] = manifest[d]

IInv == /\ TypeOK
        /\ CallsOpen /\ DoomedHeld /\ CancelledReplaced /\ KeyUnique
        /\ IdempotentLocked /\ AnswerOwn /\ AnswersApart

-----------------------------------------------------------------------------
\* gen_random_uuid() returns a row that is not in use.
LEMMA NewRowFree ==
  ASSUME \E r \in Rows : state[r] = "absent"
  PROVE  NewRow \in Rows /\ state[NewRow] = "absent"
BY DEF NewRow

\* Every step keeps columns and locals typed.
LEMMA TypeStep == TypeOK /\ [Next]_vars => TypeOK'
<1> SUFFICES ASSUME TypeOK, [Next]_vars
             PROVE  TypeOK'
  OBVIOUS
<1> USE ModesAssumption, AnswersAssumption, BodiesAssumption
    DEF TypeOK, Answers, Lifecycle!STATES, Pending, Active, Keyed,
        table, call, session
<1>1. ASSUME NEW c \in Clients, Lock(c)
      PROVE  TypeOK'
  BY <1>1 DEF Lock
<1>2. ASSUME NEW c \in Clients, IdempotentSelect(c)
      PROVE  TypeOK'
  BY <1>2 DEF IdempotentSelect, SameRequest, Return
<1>3. ASSUME NEW c \in Clients, SupersedeSnapshot(c)
      PROVE  TypeOK'
  BY <1>3 DEF SupersedeSnapshot
<1>4. ASSUME NEW c \in Clients, SupersedeCancel(c)
      PROVE  TypeOK'
  BY <1>4 DEF SupersedeCancel
<1>5. ASSUME NEW c \in Clients, DebounceSelect(c)
      PROVE  TypeOK'
  BY <1>5 DEF DebounceSelect
<1>6. ASSUME NEW c \in Clients, DebounceExtend(c)
      PROVE  TypeOK'
  BY <1>6 DEF DebounceExtend, LockedFor, Return
<1>7. ASSUME NEW c \in Clients, DebounceProbe(c)
      PROVE  TypeOK'
  BY <1>7 DEF DebounceProbe
<1>8. ASSUME NEW c \in Clients, NEW k \in BOOLEAN, Insert(c, k)
      PROVE  TypeOK'
  <2>1. CASE Return(c, "UniqueViolation") /\ UNCHANGED table
    BY <2>1 DEF Return
  <2>2. CASE ~(Return(c, "UniqueViolation") /\ UNCHANGED table)
    <3>1. NewRow \in Rows
      BY <1>8, <2>2, NewRowFree DEF Insert
    <3>2. /\ state' \in [Rows -> Lifecycle!STATES \cup {"absent"}]
          /\ cancelledBy' \in [Rows -> Clients \cup {NoClient}]
      BY <1>8, <2>2, <3>1 DEF Insert
    <3>3. keyed' \in [Rows -> BOOLEAN]
      BY <1>8, <2>2, <3>1 DEF Insert
    <3>4. body' \in [Rows -> Clients \cup Manifests \cup {NoBody}]
      BY <1>8, <2>2, <3>1 DEF Insert
    <3>5. Return(c, NewRow) /\ UNCHANGED handed
      BY <1>8, <2>2 DEF Insert
    <3> QED BY <3>1, <3>2, <3>3, <3>4, <3>5 DEF Return
  <2> QED BY <2>1, <2>2
<1>9. ASSUME NEW r \in Rows, Claim(r)
      PROVE  TypeOK'
  BY <1>9 DEF Claim
<1>10. ASSUME NEW r \in Rows, NEW s \in Lifecycle!STATES, Move(r, s)
       PROVE  TypeOK'
  BY <1>10 DEF Move
<1>11. CASE UNCHANGED vars
  BY <1>11 DEF vars
<1> HIDE DEF TypeOK
<1> QED BY <1>1, <1>2, <1>3, <1>4, <1>5, <1>6, <1>7, <1>8, <1>9, <1>10, <1>11
        DEF Next, ClientStep, InsertKeyed, DebounceInsertNull

\* Every step keeps the inductive invariant.
LEMMA InvStep == IInv /\ [Next]_vars => IInv'
<1> SUFFICES ASSUME IInv, [Next]_vars
             PROVE  IInv'
  OBVIOUS
<1> DEFINE Rest == /\ CallsOpen /\ DoomedHeld /\ CancelledReplaced /\ KeyUnique
                   /\ IdempotentLocked /\ AnswerOwn /\ AnswersApart
<1>0. TypeOK'
  BY TypeStep DEF IInv
<1> SUFFICES Rest'
  BY <1>0 DEF Rest, IInv
<1> HIDE DEF Rest
<1> USE ModesAssumption, AnswersAssumption, BodiesAssumption, <1>0
    DEF IInv, TypeOK, Answers, Pending, Active, Keyed, LockedFor,
        table, call, session,
        CallsOpen, DoomedHeld, CancelledReplaced, KeyUnique,
        IdempotentLocked, AnswerOwn, AnswersApart
<1>1. ASSUME NEW c \in Clients, Lock(c)
      PROVE  Rest'
  BY <1>1 DEF Rest, Lock
<1>2. ASSUME NEW c \in Clients, IdempotentSelect(c)
      PROVE  Rest'
  <2>1. CallsOpen'
    BY <1>2 DEF IdempotentSelect, SameRequest, Return
  <2>2. DoomedHeld'
    <3>1. state' = state /\ \A d \in Clients : doomed'[d] \subseteq doomed[d]
      BY <1>2 DEF IdempotentSelect, Return
    <3> QED BY <3>1
  <2>3. CancelledReplaced'
    BY <1>2 DEF IdempotentSelect, SameRequest, Return
  <2>4. KeyUnique'
    BY <1>2 DEF IdempotentSelect, SameRequest, Return
  <2>5. IdempotentLocked'
    BY <1>2 DEF IdempotentSelect, SameRequest, Return
  <2>6. AnswerOwn'
    BY <1>2 DEF IdempotentSelect, SameRequest, Return
  <2>7. AnswersApart'
    BY <1>2 DEF IdempotentSelect, SameRequest, Return
  <2> QED BY <2>1, <2>2, <2>3, <2>4, <2>5, <2>6, <2>7 DEF Rest
<1>3. ASSUME NEW c \in Clients, SupersedeSnapshot(c)
      PROVE  Rest'
  BY <1>3 DEF Rest, SupersedeSnapshot
<1>4. ASSUME NEW c \in Clients, SupersedeCancel(c)
      PROVE  Rest'
  BY <1>4 DEF Rest, SupersedeCancel
<1>5. ASSUME NEW c \in Clients, DebounceSelect(c)
      PROVE  Rest'
  BY <1>5 DEF Rest, DebounceSelect
<1>6. ASSUME NEW c \in Clients, DebounceExtend(c)
      PROVE  Rest'
  BY <1>6 DEF Rest, DebounceExtend, LockedFor, Return
<1>7. ASSUME NEW c \in Clients, DebounceProbe(c)
      PROVE  Rest'
  BY <1>7 DEF Rest, DebounceProbe
<1>8. ASSUME NEW c \in Clients, NEW k \in BOOLEAN, Insert(c, k),
             pc[c] = IF k THEN "insert" ELSE "insert_null"
      PROVE  Rest'
  <2>1. CASE Return(c, "UniqueViolation") /\ UNCHANGED table
    <3>1. CallsOpen'
      BY <1>8, <2>1 DEF Return
    <3>2. DoomedHeld'
      BY <1>8, <2>1 DEF Return
    <3>3. CancelledReplaced'
      BY <1>8, <2>1 DEF Return
    <3>4. KeyUnique'
      BY <1>8, <2>1 DEF Return
    <3>5. IdempotentLocked'
      BY <1>8, <2>1 DEF Return
    <3>6. AnswerOwn'
      BY <1>8, <2>1 DEF Return
    <3>7. AnswersApart'
      BY <1>8, <2>1 DEF Return
    <3> QED BY <3>1, <3>2, <3>3, <3>4, <3>5, <3>6, <3>7 DEF Rest
  <2>2. CASE ~(Return(c, "UniqueViolation") /\ UNCHANGED table)
    <3>0. NewRow \in Rows /\ state[NewRow] = "absent"
      BY <1>8, <2>2, NewRowFree DEF Insert
    <3>1. CallsOpen'
      BY <1>8, <2>2, <3>0 DEF Insert, Return
    <3>2. DoomedHeld'
      <4>1. doomed' = [doomed EXCEPT ![c] = {}]
        BY <1>8, <2>2 DEF Insert, Return
      <4>2. ASSUME NEW d \in Clients, d # c, NEW r \in doomed[d]
            PROVE  state'[r] = state[r]
        <5>1. r \in Rows /\ r # NewRow /\ r \notin doomed[c]
          BY <3>0, <4>2
        <5> QED BY <1>8, <2>2, <5>1 DEF Insert
      <4> QED BY <4>1, <4>2
    <3>3. CancelledReplaced'
      BY <1>8, <2>2, <3>0 DEF Insert, Return
    <3>4. KeyUnique'
      BY <1>8, <2>2, <3>0 DEF Insert, Return
    <3>5. IdempotentLocked'
      BY <1>8, <2>2, <3>0 DEF Insert, Return
    <3>6. AnswerOwn'
      <4>1. /\ keyed' = [keyed EXCEPT ![NewRow] = k]
            /\ body' = [body EXCEPT ![NewRow] = manifest[c]]
            /\ answer' = [answer EXCEPT ![c] = NewRow]
            /\ UNCHANGED call
        BY <1>8, <2>2 DEF Insert, Return
      <4>2. ASSUME NEW r \in Rows, state[r] # "absent"
            PROVE  state'[r] # "absent"
        BY <1>8, <2>2, <4>2 DEF Insert
      <4>3. state'[NewRow] = "queued"
        BY <1>8, <2>2, <3>0 DEF Insert
      <4>4. mode[c] = "idempotent" => k
        BY <1>8
      <4> QED BY <3>0, <4>1, <4>2, <4>3, <4>4
    <3>7. AnswersApart'
      BY <1>8, <2>2, <3>0 DEF Insert, Return
    <3> QED BY <3>1, <3>2, <3>3, <3>4, <3>5, <3>6, <3>7 DEF Rest
  <2> QED BY <2>1, <2>2
<1>9. ASSUME NEW r \in Rows, Claim(r)
      PROVE  Rest'
  BY <1>9 DEF Rest, Claim
<1>10. ASSUME NEW r \in Rows, NEW s \in Lifecycle!STATES, Move(r, s)
       PROVE  Rest'
  BY <1>10 DEF Rest, Move
<1>11. CASE UNCHANGED vars
  BY <1>11 DEF Rest, vars
<1> QED BY <1>1, <1>2, <1>3, <1>4, <1>5, <1>6, <1>7, <1>8, <1>9, <1>10, <1>11
        DEF Next, ClientStep, InsertKeyed, DebounceInsertNull

\* The inductive invariant holds in every reachable state.
LEMMA Inductive == Spec => []IInv
<1>1. Init => IInv
  <2> SUFFICES ASSUME Init
               PROVE  IInv
    OBVIOUS
  <2> USE ModesAssumption, AnswersAssumption, BodiesAssumption DEF Init
  <2>1. \A c \in Clients :
          /\ pc[c] \in {"lock", "insert", "snapshot"}
          /\ pc[c] = "snapshot" => mode[c] = "supersede"
          /\ pc[c] = "insert" => mode[c] = "plain"
    OBVIOUS
  <2>2. /\ manifest \in [Clients -> Clients \cup Manifests]
        /\ \A c \in Clients : IF mode[c] = "idempotent" THEN manifest[c] \in Manifests
                                                        ELSE manifest[c] = c
    OBVIOUS
  <2>3. TypeOK
    BY <2>1, <2>2 DEF TypeOK, Answers, Lifecycle!STATES
  <2>4. CallsOpen /\ DoomedHeld /\ CancelledReplaced /\ KeyUnique
    BY <2>1 DEF CallsOpen, DoomedHeld, CancelledReplaced, KeyUnique, Keyed
  <2>5. IdempotentLocked /\ AnswerOwn /\ AnswersApart
    BY <2>1, <2>2 DEF IdempotentLocked, AnswerOwn, AnswersApart, Keyed
  <2> QED BY <2>3, <2>4, <2>5 DEF IInv
<1> QED BY <1>1, InvStep, PTL DEF Spec

-----------------------------------------------------------------------------
\* The columns of queue_jobs and the locals of enqueue_job keep their types.
THEOREM TypeCorrect == Spec => []TypeOK
BY Inductive, PTL DEF IInv

\* A scheduled row is cancelled only together with the insertion of its
\* replacement.
THEOREM ReplacedNotDroppedInvariant == Spec => []ReplacedNotDropped
<1>1. IInv => ReplacedNotDropped
  BY DEF IInv, CancelledReplaced, ReplacedNotDropped
<1> QED BY <1>1, Inductive, PTL

\* Idempotent calls of one request agree on a row while it lives, and calls of
\* different requests never share one.
THEOREM IdempotentAgreeInvariant == Spec => []IdempotentAgree
<1>1. IInv => IdempotentAgree
  BY DEF IInv, TypeOK, AnswerOwn, AnswersApart, KeyUnique, Keyed, Pending, Active,
         IdempotentAgree, Lifecycle!TERMINAL, Lifecycle!STATES
<1> QED BY <1>1, Inductive, PTL

\* How a step of enqueue_job or of a worker moves a row.
Moved(r) ==
  \/ state'[r] = state[r]
  \/ state[r] = "absent" /\ state'[r] = "queued"
  \/ state[r] \in Pending \cup {"failed", "dead_letter"} /\ state'[r] = "cancelled"
  \/ state[r] = "queued" /\ state'[r] = "leased"
  \/ state[r] = "leased" /\ state'[r] \in {"running", "queued", "dead_letter"}
  \/ state[r] = "running" /\ state'[r] \in {"succeeded", "retry_wait",
                                            "dead_letter", "queued"}
  \/ state[r] = "retry_wait" /\ state'[r] = "queued"

\* Every row moves so in every step.
LEMMA RowStep ==
  ASSUME IInv, [Next]_vars, NEW r \in Rows
  PROVE  Moved(r)
<1> USE DEF IInv, TypeOK, Pending, table
<1>1. ASSUME NEW c \in Clients, NEW k \in BOOLEAN, Insert(c, k)
      PROVE  Moved(r)
  <2>1. CASE state' = state
    BY <2>1 DEF Moved
  <2>2. CASE state' # state
    <3>1. NewRow \in Rows /\ state[NewRow] = "absent"
      BY <1>1, <2>2, NewRowFree DEF Insert
    <3> QED BY <1>1, <2>2, <3>1 DEF Insert, Moved, DoomedHeld
  <2> QED BY <2>1, <2>2
<1>2. ASSUME NEW q \in Rows, Claim(q)
      PROVE  Moved(r)
  BY <1>2 DEF Claim, Moved
<1>3. ASSUME NEW q \in Rows, NEW s \in Lifecycle!STATES, Move(q, s)
      PROVE  Moved(r)
  BY <1>3 DEF Move, Moved
<1>4. CASE state' = state
  BY <1>4 DEF Moved
<1> QED BY <1>1, <1>2, <1>3, <1>4
        DEF Next, ClientStep, Lock, InsertKeyed, IdempotentSelect,
            SupersedeSnapshot, SupersedeCancel, DebounceSelect, DebounceExtend,
            DebounceProbe, DebounceInsertNull, vars

\* enqueue_job never cancels a row that a worker holds.
THEOREM WorkedRowIsSpared == Spec => WorkedRowSpared
<1>1. IInv /\ [Next]_vars =>
        [\A r \in Rows : state[r] \in Active => state'[r] # "cancelled"]_vars
  BY RowStep DEF Moved, Active, Pending
<1> QED BY <1>1, Inductive, PTL DEF Spec, WorkedRowSpared

\* The calls and the workers move a row only along ALLOWED_TRANSITIONS.
THEOREM ImplementsLifecycle == Spec => RefinesLifecycle
<1>1. Init => Lifecycle!Init
  BY DEF Init, Lifecycle!Init
<1>2. IInv /\ IInv' /\ [Next]_vars => [Lifecycle!Next]_state
  <2> SUFFICES ASSUME IInv, IInv', [Next]_vars
               PROVE  Lifecycle!Next
    OBVIOUS
  <2>1. state' \in [Rows -> Lifecycle!STATES \cup {"absent"}]
    BY DEF IInv, TypeOK
  <2>2. ASSUME NEW r \in Rows
        PROVE  \/ state'[r] = state[r]
               \/ state[r] = "absent" /\ state'[r] = "queued"
               \/ Lifecycle!can_transition(state[r], state'[r])
    <3>1. Moved(r)
      BY RowStep
    <3> QED BY <3>1 DEF Moved, Pending, Lifecycle!can_transition, Lifecycle!STATES,
                        Lifecycle!ALLOWED_TRANSITIONS
  <2> QED BY <2>1, <2>2 DEF Lifecycle!Next
<1> QED BY <1>1, <1>2, Inductive, PTL
        DEF Spec, RefinesLifecycle, Lifecycle!Spec

\* The unique index rejects an idempotent call only for a row that a call of
\* another mode has written.
THEOREM IdempotentIsSerialised == Spec => IdempotentSerialised
<1> DEFINE Alone(c) ==
      /\ mode[c] = "idempotent"
      /\ answer[c] = "pending"
      /\ answer'[c] = "UniqueViolation"
      => \E r \in Keyed(Pending \cup Active) : body[r] \notin Manifests
<1>1. IInv /\ [Next]_vars => [\A c \in Clients : Alone(c)]_vars
  <2> SUFFICES ASSUME IInv, Next, NEW c \in Clients,
                      mode[c] = "idempotent", answer[c] = "pending",
                      answer'[c] = "UniqueViolation"
               PROVE  \E r \in Keyed(Pending \cup Active) : body[r] \notin Manifests
    OBVIOUS
  <2> USE AnswersAssumption DEF IInv, TypeOK, Answers
  <2>1. ASSUME NEW d \in Clients, d # c, ClientStep(d)
        PROVE  FALSE
    BY <2>1 DEF ClientStep, Lock, InsertKeyed, Insert, IdempotentSelect,
            SupersedeSnapshot, SupersedeCancel, DebounceSelect, DebounceExtend,
            DebounceProbe, DebounceInsertNull, Return
  <2>2. ClientStep(c)
    BY <2>1 DEF Next, Claim, Move, session
  <2>3. InsertKeyed(c)
    <3>1. ~IdempotentSelect(c)
      BY DEF IdempotentSelect, Return, Keyed
    <3>2. ~DebounceExtend(c) /\ ~DebounceProbe(c) /\ ~DebounceInsertNull(c)
      BY DEF DebounceExtend, DebounceProbe, DebounceInsertNull, CallsOpen
    <3> QED BY <2>2, <3>1, <3>2 DEF ClientStep, Lock, SupersedeSnapshot,
                                    SupersedeCancel, DebounceSelect
  <2>4. Keyed(Pending \cup Active) # {}
    <3>1. CASE Return(c, NewRow)
      <4>1. answer'[c] = NewRow
        BY <3>1 DEF Return
      <4> QED BY <2>3, <4>1, NewRowFree DEF InsertKeyed, Insert
    <3> QED BY <2>3, <3>1 DEF InsertKeyed, Insert
  <2> QED BY <2>3, <2>4 DEF InsertKeyed, IdempotentLocked
<1> QED BY <1>1, Inductive, PTL DEF Spec, IdempotentSerialised
=============================================================================
