------------------------ MODULE RecurringChainProofs ------------------------
(***************************************************************************)
(* What keeps a recurring chain alive, proved for every max_attempts and   *)
(* any number of crashes, lost leases and manual restarts.                 *)
(***************************************************************************)
EXTENDS RecurringChain, Integers, FiniteSetTheorems, TLAPS

\* Some row waits for its run.
Waiting == \E r \in Rows : state[r] \in Pending

\* A lease can only be lost by a death, and without one the process is down
\* only before it has started.
LeaseKept ==
  /\ pc \in {"claimed", "handling"} => held \in Rows
  /\ pc = "report" \/ after = "report" => held \in Rows
  /\ mine => held \in Rows /\ state[held] \in Active
  /\ deaths = 0 /\ (pc \in {"claimed", "handling", "report"} \/ after = "report")
       => mine

\* A successor waits: when a debounce has found one, from the end of
\* _reschedule() to the report, and whenever the process is in its loop.
SuccessorWaits ==
  /\ pc = "write" /\ seen # {} => Waiting
  /\ pc = "report" => Waiting
  /\ pc = "loop" /\ Protected => Waiting
  /\ pc = "down" /\ deaths = 0 => Waiting

IInv == TypeOK /\ LeaseKept /\ SuccessorWaits

-----------------------------------------------------------------------------
\* INSERT uses an identity that nothing refers to.
LEMMA NewRowUnused ==
  ASSUME Unused # {}
  PROVE  /\ NewRow \in Rows /\ NewRow # held /\ NewRow \notin seen
         /\ state[NewRow] \in Terminal \cup {"absent"}
BY DEF NewRow, Unused

\* queue_depths is not 0 only if a row is queued.
LEMMA DepthSeesQueued ==
  ASSUME Depth # 0
  PROVE  Waiting
<1>1. Cardinality({}) = 0
  BY FS_EmptySet
<1>2. {r \in Rows : state[r] = "queued"} # {}
  BY <1>1 DEF Depth
<1> QED
  BY <1>2 DEF Waiting, Pending

LEMMA InitInv == Init => IInv
<1> SUFFICES ASSUME Init PROVE IInv
  OBVIOUS
<1> USE DEF Init
<1>1. TypeOK
  <2>1. keyed \in [Rows -> BOOLEAN] /\ mine \in BOOLEAN /\ startup \in BOOLEAN
    BY Zenon
  <2> QED
    BY <2>1, BoundsAssumption DEF TypeOK, Pending, Active, Terminal
<1>2. Waiting
  <2>1. PICK first \in Rows : first = CHOOSE r \in Rows : TRUE
    BY RowsAssumption
  <2>2. state[first] = "queued"
    BY <2>1
  <2> QED
    BY <2>2 DEF Waiting, Pending
<1> QED
  BY <1>1, <1>2 DEF IInv, LeaseKept, SuccessorWaits

-----------------------------------------------------------------------------
\* Every step keeps the columns and the locals in their types.
LEMMA TypeStep ==
  ASSUME IInv, [Next]_vars
  PROVE  TypeOK'
<1> USE BoundsAssumption DEF IInv, TypeOK, Pending, Active, Terminal, rows
<1>1. CASE Boot
  BY <1>1 DEF Boot
<1>2. ASSUME NEW r \in Rows, Claim(r) PROVE TypeOK'
  BY <1>2 DEF Claim
<1>3. CASE MarkRunning
  BY <1>3 DEF MarkRunning, LeaseKept
<1>4. CASE Handled
  BY <1>4 DEF Handled
<1>5. CASE MarkSucceeded
  BY <1>5 DEF MarkSucceeded, Reported
<1>6. CASE MarkFailed
  BY <1>6 DEF MarkFailed, Reported, TerminalHook
<1>7. CASE MarkDeadLetter
  BY <1>7 DEF MarkDeadLetter, Reported, TerminalHook
<1>8. CASE RequeueWithBackoff
  BY <1>8 DEF RequeueWithBackoff, Reported
<1>9. CASE LeaseLost
  BY <1>9 DEF LeaseLost, Gone
<1>10. CASE Crash
  <2>1. deaths' \in 0..MaxFaults
    BY <1>10 DEF Crash
  <2>2. mine' \in BOOLEAN
    BY <1>10 DEF Crash, Gone
  <2> QED
    BY <1>10, <2>1, <2>2 DEF Crash, Gone
<1>11. CASE Select
  BY <1>11 DEF Select, Keyed
<1>12. CASE Write
  <2>1. ASSUME NEW k \in BOOLEAN, InsertRow(k)
        PROVE  /\ state' \in [Rows -> Pending \cup Active \cup Terminal \cup {"absent"}]
               /\ keyed' \in [Rows -> BOOLEAN]
               /\ attempts' \in [Rows -> Nat]
    BY <2>1 DEF InsertRow
  <2>2. CASE UNCHANGED rows
    BY <1>12, <2>2 DEF Write
  <2>3. CASE \E k \in BOOLEAN : InsertRow(k)
    BY <1>12, <2>1, <2>3 DEF Write
  <2> QED
    BY <1>12, <2>2, <2>3 DEF Write
<1>13. ASSUME NEW r \in Rows, Recover(r) PROVE TypeOK'
  <2>1. deaths' \in 0..MaxFaults
    BY <1>13 DEF Recover
  <2>2. mine' \in BOOLEAN
    BY <1>13 DEF Recover
  <2> QED
    BY <1>13, <2>1, <2>2 DEF Recover
<1>14. ASSUME NEW r \in Rows, Promote(r) PROVE TypeOK'
  BY <1>14 DEF Promote
<1>15. CASE ClearDeadLetter
  BY <1>15 DEF ClearDeadLetter
<1>16. CASE Supersede
  <2>1. CASE UNCHANGED rows
    BY <1>16, <2>1 DEF Supersede
  <2>2. CASE ~UNCHANGED rows
    <3>1. keyed' \in [Rows -> BOOLEAN]
      BY <1>16, <2>2 DEF Supersede
    <3>2. state' \in [Rows -> Pending \cup Active \cup Terminal \cup {"absent"}]
      BY <1>16, <2>2 DEF Supersede
    <3>3. attempts' \in [Rows -> Nat]
      BY <1>16, <2>2 DEF Supersede
    <3> QED
      BY <1>16, <3>1, <3>2, <3>3 DEF Supersede
  <2> QED
    BY <2>1, <2>2
<1>17. CASE UNCHANGED vars
  BY <1>17 DEF vars
<1> QED
  BY <1>1, <1>2, <1>3, <1>4, <1>5, <1>6, <1>7, <1>8, <1>9, <1>10, <1>11, <1>12,
     <1>13, <1>14, <1>15, <1>16, <1>17 DEF Next, ProcessStep

-----------------------------------------------------------------------------
\* The lease and the waiting successor, action by action.
LEMMA ChainStep ==
  ASSUME IInv, [Next]_vars
  PROVE  LeaseKept' /\ SuccessorWaits'
<1> USE RowsAssumption, BoundsAssumption
    DEF IInv, TypeOK, LeaseKept, SuccessorWaits, Protected, Waiting,
        Pending, Active, Terminal, rows
<1>1. CASE Boot
  BY <1>1, DepthSeesQueued DEF Boot
<1>2. ASSUME NEW r \in Rows, Claim(r) PROVE LeaseKept' /\ SuccessorWaits'
  BY <1>2 DEF Claim
<1>3. CASE MarkRunning
  BY <1>3 DEF MarkRunning
<1>4. CASE Handled
  BY <1>4 DEF Handled
<1>5. CASE MarkSucceeded
  <2>1. PICK q \in Rows : state[q] \in Pending
    BY <1>5 DEF MarkSucceeded
  <2>2. state'[q] = state[q]
    BY <1>5, <2>1 DEF MarkSucceeded
  <2> QED
    BY <1>5, <2>1, <2>2 DEF MarkSucceeded, Reported
<1>6. CASE MarkFailed
  BY <1>6 DEF MarkFailed, Reported, TerminalHook
<1>7. CASE MarkDeadLetter
  BY <1>7 DEF MarkDeadLetter, Reported, TerminalHook
<1>8. CASE RequeueWithBackoff
  <2>1. Waiting'
    BY <1>8 DEF RequeueWithBackoff
  <2> QED
    BY <1>8, <2>1 DEF RequeueWithBackoff, Reported
<1>9. CASE LeaseLost
  BY <1>9 DEF LeaseLost, Gone
<1>10. CASE Crash
  BY <1>10 DEF Crash, Gone
<1>11. CASE Select
  BY <1>11 DEF Select, Keyed
<1>12. CASE Write
  <2>1. CASE UNCHANGED rows
    BY <1>12, <2>1, NewRowUnused DEF Write, Keyed, InsertRow
  <2>2. ASSUME NEW k \in BOOLEAN, InsertRow(k)
        PROVE  /\ Waiting'
               /\ \A r \in Rows : state[r] \in Active => state'[r] = state[r]
    BY <2>2, NewRowUnused DEF InsertRow
  <2>3. CASE \E k \in BOOLEAN : InsertRow(k)
    BY <1>12, <2>2, <2>3 DEF Write
  <2> QED
    BY <1>12, <2>1, <2>3 DEF Write
<1>13. ASSUME NEW r \in Rows, Recover(r) PROVE LeaseKept' /\ SuccessorWaits'
  <2>1. \A q \in Rows : q # r => state'[q] = state[q]
    BY <1>13 DEF Recover
  <2>2. Waiting => Waiting'
    BY <1>13, <2>1 DEF Recover
  <2> QED
    BY <1>13, <2>1, <2>2 DEF Recover
<1>14. ASSUME NEW r \in Rows, Promote(r) PROVE LeaseKept' /\ SuccessorWaits'
  BY <1>14 DEF Promote
<1>15. CASE ClearDeadLetter
  BY <1>15 DEF ClearDeadLetter
<1>16. CASE Supersede
  <2>1. CASE UNCHANGED rows
    BY <1>16, <2>1 DEF Supersede
  <2>2. CASE Keyed(Active) = {} /\ Unused # {} /\ ~UNCHANGED rows
    <3>1. Waiting'
      BY <1>16, <2>2, NewRowUnused DEF Supersede
    <3>2. \A r \in Rows : state[r] \in Active => state'[r] = state[r]
      BY <1>16, <2>2, NewRowUnused DEF Supersede, Keyed
    <3> QED
      BY <1>16, <3>1, <3>2 DEF Supersede
  <2> QED
    BY <1>16, <2>1, <2>2 DEF Supersede
<1>17. CASE UNCHANGED vars
  BY <1>17 DEF vars
<1> QED
  BY <1>1, <1>2, <1>3, <1>4, <1>5, <1>6, <1>7, <1>8, <1>9, <1>10, <1>11, <1>12,
     <1>13, <1>14, <1>15, <1>16, <1>17 DEF Next, ProcessStep

LEMMA Inductive == Spec => []IInv
<1>1. IInv /\ [Next]_vars => IInv'
  BY TypeStep, ChainStep DEF IInv
<1> QED
  BY InitInv, <1>1, PTL DEF Spec

-----------------------------------------------------------------------------
\* Columns and locals keep their types.
THEOREM TypeCorrect == Spec => []TypeOK
<1>1. IInv => TypeOK
  BY DEF IInv
<1> QED
  BY Inductive, <1>1, PTL

\* Whenever the process of a self-rescheduling queue is back in its loop, a
\* next run exists, however the last one ended and however often the process
\* died; for token_refresh, which has no startup job, if it never died.
THEOREM ChainAliveInvariant == Spec => []ChainAlive
<1>1. IInv => ChainAlive
  BY DEF IInv, SuccessorWaits, Waiting, ChainAlive, Live, Pending, Active
<1> QED
  BY Inductive, <1>1, PTL

-----------------------------------------------------------------------------
\* How many runs there are.  A crash, a lost lease and a manual restart each
\* pay for one row; a restart has paid before its second transaction inserts.
LiveCount == Cardinality(Live)
Paid      == deaths + restarts - (IF cli = "enqueue" THEN 1 ELSE 0)
Running   == IF mine THEN 1 ELSE 0
Queued    == \E r \in Rows : state[r] = "queued"

\* Outside of a run, the startup job's enqueue_job included, no lease is held.
NoLease ==
  pc \in {"loop", "down"} \/ (pc \in {"select", "write"} /\ after = "loop")
    => ~mine

\* Until _reschedule() has inserted, there is no row but the one that runs and
\* those that faults have paid for.  From then on there may be one more, and it
\* is queued until the process claims: that is what keeps a process that starts
\* again from inserting another.
Counted ==
  /\ cli = "enqueue" => restarts > 0
  /\ pc \in {"claimed", "handling", "select", "write"} =>
       LiveCount <= Paid + Running
  /\ pc = "loop" => LiveCount <= Paid + 1
  /\ pc \in {"report", "down"} =>
       \/ LiveCount <= Paid + Running
       \/ LiveCount <= Paid + Running + 1 /\ Queued

CInv == IInv /\ NoLease /\ Counted

\* Sets of rows are finite: fewer rows, one row less, at most one row more.
LEMMA CountMonotone ==
  ASSUME NEW S \in SUBSET Rows, NEW T \in SUBSET Rows, T \subseteq S
  PROVE  /\ Cardinality(S) \in Nat /\ Cardinality(T) \in Nat
         /\ Cardinality(T) <= Cardinality(S)
<1>1. IsFiniteSet(S) /\ IsFiniteSet(T)
  BY FS_Subset, RowsAssumption
<1> QED
  BY <1>1, FS_Subset, FS_CardinalityType

LEMMA CountRemove ==
  ASSUME NEW S \in SUBSET Rows, NEW T \in SUBSET Rows, NEW r \in S,
         T \subseteq S \ {r}
  PROVE  Cardinality(T) <= Cardinality(S) - 1
<1>1. IsFiniteSet(S)
  BY FS_Subset, RowsAssumption
<1>2. Cardinality(S \ {r}) = Cardinality(S) - 1
  BY <1>1, FS_RemoveElement
<1>3. Cardinality(T) <= Cardinality(S \ {r})
  BY CountMonotone
<1> QED
  BY <1>1, <1>2, <1>3, CountMonotone, FS_CardinalityType

LEMMA CountAdd ==
  ASSUME NEW S \in SUBSET Rows, NEW T \in SUBSET Rows, NEW r \in Rows,
         T \subseteq S \cup {r}
  PROVE  Cardinality(T) <= Cardinality(S) + 1
<1>1. IsFiniteSet(S)
  BY FS_Subset, RowsAssumption
<1>2. Cardinality(S \cup {r}) <= Cardinality(S) + 1
  <2>1. Cardinality(S) \in Nat
    BY <1>1, FS_CardinalityType
  <2>2. CASE r \in S
    <3>1. S \cup {r} = S
      BY <2>2
    <3>2. Cardinality(S \cup {r}) = Cardinality(S)
      BY <3>1, Zenon
    <3> QED
      BY <2>1, <3>2
  <2>3. CASE r \notin S
    <3>1. Cardinality(S \cup {r}) = Cardinality(S) + 1
      BY <1>1, <2>3, FS_AddElement
    <3> QED
      BY <2>1, <3>1
  <2> QED
    BY <2>2, <2>3
<1>3. Cardinality(T) <= Cardinality(S \cup {r})
  BY CountMonotone
<1>4. /\ Cardinality(S) \in Nat /\ Cardinality(T) \in Nat
      /\ Cardinality(S \cup {r}) \in Nat
  BY CountMonotone
<1> QED
  BY <1>2, <1>3, <1>4

\* The same for the rows that are live before and after a step.
LEMMA LiveCounts ==
  /\ LiveCount \in Nat /\ LiveCount' \in Nat
  /\ Live' \subseteq Live => LiveCount' <= LiveCount
  /\ \A r \in Live : Live' \subseteq Live \ {r} => LiveCount' <= LiveCount - 1
  /\ \A r \in Rows : Live' \subseteq Live \cup {r} => LiveCount' <= LiveCount + 1
<1>1. Live \in SUBSET Rows /\ Live' \in SUBSET Rows
  BY DEF Live
<1> QED
  BY <1>1, CountMonotone, CountRemove, CountAdd DEF LiveCount

\* queue_depths is 0 only if no row is queued.
LEMMA DepthZero ==
  ASSUME Depth = 0
  PROVE  ~Queued
<1> DEFINE Q == {r \in Rows : state[r] = "queued"}
<1>1. IsFiniteSet(Q)
  BY FS_Subset, RowsAssumption
<1>2. Q = {}
  BY <1>1, FS_EmptySet DEF Depth
<1> QED
  BY <1>2 DEF Queued

\* The first run is the only row.
LEMMA CountInit == Init => NoLease /\ Counted
<1> SUFFICES ASSUME Init PROVE NoLease /\ Counted
  OBVIOUS
<1>1. PICK first \in Rows : first = CHOOSE r \in Rows : TRUE
  BY RowsAssumption
<1>2. state[first] = "queued" /\ Live \subseteq {first}
  BY <1>1 DEF Init, Live, Pending, Active
<1>3. LiveCount <= 1
  <2>1. {first} \in SUBSET Rows /\ Live \in SUBSET Rows
    BY DEF Live
  <2> QED
    BY <1>2, <2>1, CountMonotone, FS_Singleton DEF LiveCount
<1>4. LiveCount \in Nat
  BY LiveCounts
<1> QED
  BY <1>1, <1>2, <1>3, <1>4 DEF Init, NoLease, Counted, Paid, Running, Queued

-----------------------------------------------------------------------------
\* An INSERT adds one live row, which is queued.
LEMMA InsertCounts ==
  ASSUME TypeOK, NEW k \in BOOLEAN, InsertRow(k)
  PROVE  LiveCount' <= LiveCount + 1 /\ Queued'
<1>1. NewRow \in Rows
  BY NewRowUnused DEF InsertRow
<1>2. state' = [state EXCEPT ![NewRow] = "queued"]
  BY DEF InsertRow
<1>3. Live' \subseteq Live \cup {NewRow}
  BY <1>1, <1>2 DEF Live, TypeOK
<1>4. state'[NewRow] = "queued"
  BY <1>1, <1>2 DEF TypeOK
<1> QED
  BY <1>1, <1>3, <1>4, LiveCounts DEF Queued

\* The number of rows, action by action.
LEMMA CountStep ==
  ASSUME CInv, [Next]_vars
  PROVE  NoLease' /\ Counted'
<1> USE DEF CInv, NoLease, Counted, Paid, Running
<1>0. /\ TypeOK
      /\ LiveCount \in Nat /\ LiveCount' \in Nat
      /\ deaths \in Nat /\ restarts \in Nat /\ mine \in BOOLEAN
      /\ mine => held \in Live
  BY LiveCounts, BoundsAssumption DEF IInv, TypeOK, LeaseKept, Live
<1>s. ASSUME UNCHANGED state PROVE LiveCount' = LiveCount /\ Queued' = Queued
  BY <1>s DEF LiveCount, Live, Queued
<1>1. CASE Boot
  <2>1. Depth = 0 => ~Queued
    BY DepthZero
  <2> QED
    BY <1>0, <1>1, <1>s, <2>1 DEF Boot, rows
<1>2. ASSUME NEW r \in Rows, Claim(r) PROVE NoLease' /\ Counted'
  <2>1. Live' \subseteq Live
    BY <1>0, <1>2 DEF Claim, TypeOK, Live, Pending, Active
  <2>c. LiveCount' <= LiveCount
    BY <2>1, LiveCounts
  <2> QED
    BY <1>0, <1>2, <2>c DEF Claim
<1>3. CASE MarkRunning
  <2>1. Live' \subseteq Live
    BY <1>0, <1>3 DEF MarkRunning, TypeOK, Live, Pending, Active
  <2>c. LiveCount' <= LiveCount
    BY <2>1, LiveCounts
  <2> QED
    BY <1>0, <1>3, <2>c DEF MarkRunning
<1>4. CASE Handled
  BY <1>0, <1>4, <1>s DEF Handled, rows
<1>5. CASE MarkSucceeded
  <2>1. Live' \subseteq Live \ {held}
    BY <1>0, <1>5 DEF MarkSucceeded, TypeOK, Live, Pending, Active
  <2>c. LiveCount' <= LiveCount - 1
    BY <1>0, <1>5, <2>1, LiveCounts DEF MarkSucceeded
  <2> QED
    BY <1>0, <1>5, <2>c DEF MarkSucceeded, Reported
<1>6. CASE MarkFailed
  <2>1. Live' \subseteq Live
    BY <1>0, <1>6 DEF MarkFailed, TypeOK, Live, Pending, Active
  <2>c. LiveCount' <= LiveCount
    BY <2>1, LiveCounts
  <2>2. attempts[held] >= MaxAttempts => Live' \subseteq Live \ {held}
    BY <1>0, <1>6 DEF MarkFailed, TypeOK, Live, Pending, Active
  <2>d. attempts[held] >= MaxAttempts => LiveCount' <= LiveCount - 1
    BY <1>0, <1>6, <2>2, LiveCounts DEF MarkFailed
  <2> QED
    BY <1>0, <1>6, <2>c, <2>d DEF MarkFailed, Reported, TerminalHook
<1>7. CASE MarkDeadLetter
  <2>1. Live' \subseteq Live \ {held}
    BY <1>0, <1>7 DEF MarkDeadLetter, TypeOK, Live, Pending, Active
  <2>c. LiveCount' <= LiveCount - 1
    BY <1>0, <1>7, <2>1, LiveCounts DEF MarkDeadLetter
  <2> QED
    BY <1>0, <1>7, <2>c DEF MarkDeadLetter, Reported, TerminalHook
<1>8. CASE RequeueWithBackoff
  <2>1. Live' \subseteq Live
    BY <1>0, <1>8 DEF RequeueWithBackoff, TypeOK, Live, Pending, Active
  <2>c. LiveCount' <= LiveCount
    BY <2>1, LiveCounts
  <2> QED
    BY <1>0, <1>8, <2>c DEF RequeueWithBackoff, Reported
<1>9. CASE LeaseLost
  BY <1>0, <1>9, <1>s DEF LeaseLost, Gone, rows
<1>10. CASE Crash
  BY <1>0, <1>10, <1>s DEF Crash, Gone, rows, IInv, TypeOK
<1>11. CASE Select
  BY <1>0, <1>11, <1>s DEF Select, rows
<1>12. CASE Write
  <2>1. CASE UNCHANGED rows
    BY <1>0, <1>12, <1>s, <2>1 DEF Write, rows, TypeOK
  <2>2. CASE \E k \in BOOLEAN : InsertRow(k)
    BY <1>0, <1>12, <2>2, InsertCounts DEF Write, TypeOK
  <2> QED
    BY <1>12, <2>1, <2>2 DEF Write
<1>13. ASSUME NEW r \in Rows, Recover(r) PROVE NoLease' /\ Counted'
  <2>1. Live' \subseteq Live
    BY <1>0, <1>13 DEF Recover, TypeOK, Live, Pending, Active
  <2>c. LiveCount' <= LiveCount
    BY <2>1, LiveCounts
  <2>2. Queued => Queued'
    BY <1>0, <1>13 DEF Recover, TypeOK, Queued, Active
  <2>3. CASE r # held
    BY <1>0, <1>13, <2>c, <2>2, <2>3 DEF Recover
  <2>4. CASE r = held
    BY <1>0, <1>13, <2>c, <2>2, <2>4 DEF Recover
  <2> QED
    BY <2>3, <2>4
<1>14. ASSUME NEW r \in Rows, Promote(r) PROVE NoLease' /\ Counted'
  <2>1. Live' \subseteq Live
    BY <1>0, <1>14 DEF Promote, TypeOK, Live, Pending, Active
  <2>c. LiveCount' <= LiveCount
    BY <2>1, LiveCounts
  <2>2. Queued => Queued'
    BY <1>0, <1>14 DEF Promote, TypeOK, Queued
  <2> QED
    BY <1>0, <1>14, <2>c, <2>2 DEF Promote
<1>15. CASE ClearDeadLetter
  <2>1. Live' \subseteq Live
    BY <1>0, <1>15 DEF ClearDeadLetter, TypeOK, Live, Pending, Active
  <2>c. LiveCount' <= LiveCount
    BY <2>1, LiveCounts
  <2>2. Queued => Queued'
    BY <1>0, <1>15 DEF ClearDeadLetter, TypeOK, Queued
  <2> QED
    BY <1>0, <1>15, <2>c, <2>2 DEF ClearDeadLetter
<1>16. CASE Supersede
  <2>1. CASE UNCHANGED rows
    BY <1>0, <1>16, <1>s, <2>1 DEF Supersede, rows
  <2>2. CASE Keyed(Active) = {} /\ Unused # {} /\ ~UNCHANGED rows
    <3>1. NewRow \in Rows
      BY <2>2, NewRowUnused
    <3>2. Live' \subseteq Live \cup {NewRow}
      BY <1>0, <1>16, <2>2, <3>1 DEF Supersede, TypeOK, Live, Pending, Active
    <3>3. LiveCount' <= LiveCount + 1
      BY <3>1, <3>2, LiveCounts
    <3>4. Queued'
      BY <1>16, <2>2, <3>1 DEF Supersede, Queued
    <3> QED
      BY <1>0, <1>16, <3>3, <3>4 DEF Supersede
  <2> QED
    BY <1>16, <2>1, <2>2 DEF Supersede
<1>17. CASE UNCHANGED vars
  BY <1>0, <1>17, <1>s DEF vars, rows
<1> QED
  BY <1>1, <1>2, <1>3, <1>4, <1>5, <1>6, <1>7, <1>8, <1>9, <1>10, <1>11, <1>12,
     <1>13, <1>14, <1>15, <1>16, <1>17 DEF Next, ProcessStep

\* However crashes, lost leases, retries and manual restarts interleave, there
\* is one run and its successor, and at most one row more for every crash, lost
\* lease or manual restart: the rows without a key do not multiply.
THEOREM ChainsBoundedInvariant == Spec => []ChainsBounded
<1>1. Init => CInv
  BY InitInv, CountInit DEF CInv
<1>2. CInv /\ [Next]_vars => CInv'
  BY TypeStep, ChainStep, CountStep DEF CInv, IInv
<1>3. CInv => ChainsBounded
  <2> SUFFICES ASSUME CInv PROVE Cardinality(Live) <= 2 + deaths + restarts
    BY DEF ChainsBounded
  <2>1. Cardinality(Live) = LiveCount /\ LiveCount \in Nat
    BY LiveCounts DEF LiveCount
  <2>2. deaths \in Nat /\ restarts \in Nat
    BY BoundsAssumption DEF CInv, IInv, TypeOK
  <2> QED
    BY <2>1, <2>2 DEF CInv, Counted, IInv, TypeOK, Paid, Running
<1> QED
  BY <1>1, <1>2, <1>3, PTL DEF Spec
=============================================================================
