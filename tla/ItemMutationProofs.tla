------------------------- MODULE ItemMutationProofs -------------------------
(***************************************************************************)
(* What TLC checks of ItemMutation with two processes, two operations and  *)
(* two generations, proved for every number of them, of crashes and of     *)
(* file errors.                                                            *)
(***************************************************************************)
EXTENDS ItemMutation, TLAPS

Writing == {"archive", "archived", "publish"}
Busy    == {"plan", "mark", "project", "receipt"} \cup Writing

\* A process has the lock exactly while it works on an operation that has no
\* receipt yet, or that it repairs.
LockHeld ==
  /\ \A p \in Procs : pc[p] \in Busy <=> lock = p
  /\ \A p \in Procs : pc[p] # "idle" => op[p] \in Ops
  /\ \A p \in Procs : pc[p] \in Busy =>
       IF kind[p] = "repair" THEN pc[p] \in {"project", "receipt"}
                             ELSE receipt[op[p]] = "none"
  /\ \A p \in Procs : pc[p] # "idle" =>
       /\ kind[p] = "repair" => receipt[op[p]] = "REPAIR_REQUIRED"
       /\ kind[p] = "finish" => intent[op[p]]

\* What the document is at each place of the call.
PlacesKnown ==
  \A p \in Procs :
    /\ pc[p] \in Writing \cup {"plan"} => item = expected[op[p]]
    /\ pc[p] \in Writing => intent[op[p]]
    /\ pc[p] \in {"mark", "project", "receipt"} => item = target[op[p]]
    /\ pc[p] \in {"archived", "publish"} => zip[op[p]] = expected[op[p]]
    /\ pc[p] = "publish" => archived[op[p]]
    /\ pc[p] = "receipt" /\ ok[p] => proj = item

\* What the journal of an operation says is so.
JournalTrue ==
  \A o \in Ops :
    /\ intent[o] => target[o] # expected[o]
    /\ zip[o] \in {NoGen, expected[o]}
    /\ archived[o] => zip[o] = expected[o]
    /\ applied[o] > 0 => intent[o] /\ archived[o]
    /\ attempt[o] # "none" => receipt[o] = "REPAIR_REQUIRED"

\* The operation is still to be finished or repaired, and will be found.
Owes(o) ==
  /\ item = target[o]
  /\ \/ intent[o] /\ archived[o] /\ receipt[o] = "none"
     \/ receipt[o] = "REPAIR_REQUIRED" /\ attempt[o] # "COMMITTED"

\* Somebody owes a projection that is not current.
ProjectionOwed == unread = {} /\ proj # item => \E o \in Ops : Owes(o)

IInv == /\ TypeOK /\ LockHeld /\ PlacesKnown /\ JournalTrue
        /\ ProjectionOwed /\ PreimageArchived

-----------------------------------------------------------------------------
\* Every step keeps files and locals typed.
LEMMA TypeStep == TypeOK /\ LockHeld /\ [Next]_vars => TypeOK'
<1> SUFFICES ASSUME TypeOK, LockHeld, [Next]_vars
             PROVE  TypeOK'
  OBVIOUS
<1>0. \A p \in Procs : pc[p] # "idle" => op[p] \in Ops
  BY DEF LockHeld
<1> USE NamesAssumption, BoundsAssumption, <1>0
    DEF TypeOK, Busy, Writing, Outcomes,
        binding, journal, history, locals, Goto, Call
<1>1. ASSUME NEW p \in Procs, NEW o \in Ops, Mutate(p, o)
      PROVE  TypeOK'
  <2>1. pc' \in [Procs -> Busy \cup {"idle", "discovered"}]
    BY <1>1 DEF Mutate, Admit, Record, Leave
  <2>2. /\ kind' \in [Procs -> {"none", "mutate", "recover", "finish", "repair"}]
        /\ op' \in [Procs -> Ops \cup {NoOp}]
    BY <1>1 DEF Mutate, Admit, Record, Leave
  <2>3. ok' \in [Procs -> BOOLEAN]
    BY <1>1 DEF Mutate, Admit, Record, Leave
  <2>4. /\ receipt' \in [Ops -> Outcomes \cup {"none"}]
        /\ attempt' \in [Ops -> Outcomes \cup {"none"}]
    BY <1>1 DEF Mutate, Admit, Record, Leave
  <2>5. lock' \in Procs \cup {NoProc}
    BY <1>1 DEF Mutate, Admit, Record, Leave
  <2>6. intent' \in [Ops -> BOOLEAN]
    BY <1>1 DEF Mutate, Admit, Record, Leave
  <2>7. unread' \subseteq Ops /\ errors' \in Nat
    BY <1>1 DEF Mutate, Admit, Record, Leave
  <2> QED BY <1>1, <2>1, <2>2, <2>3, <2>4, <2>5, <2>6, <2>7 DEF Mutate
<1>2. ASSUME NEW p \in Procs, NEW o \in Ops, MutateUnread(p, o)
      PROVE  TypeOK'
  BY <1>2 DEF MutateUnread, Record, Leave
<1>3. ASSUME NEW p \in Procs, NEW o \in Ops, Discover(p, o)
      PROVE  TypeOK'
  BY <1>3 DEF Discover
<1>4. ASSUME NEW p \in Procs, NEW o \in Ops, DiscoverRepair(p, o)
      PROVE  TypeOK'
  BY <1>4 DEF DiscoverRepair
<1>5. ASSUME NEW p \in Procs, Plan(p)
      PROVE  TypeOK'
  <2>1. pc' \in [Procs -> Busy \cup {"idle", "discovered"}]
    BY <1>5 DEF Plan, Record, Leave
  <2>2. /\ kind' \in [Procs -> {"none", "mutate", "recover", "finish", "repair"}]
        /\ op' \in [Procs -> Ops \cup {NoOp}]
    BY <1>5 DEF Plan, Record, Leave
  <2>3. ok' \in [Procs -> BOOLEAN]
    BY <1>5 DEF Plan, Record, Leave
  <2>4. /\ receipt' \in [Ops -> Outcomes \cup {"none"}]
        /\ attempt' \in [Ops -> Outcomes \cup {"none"}]
    BY <1>5 DEF Plan, Record, Leave
  <2>5. lock' \in Procs \cup {NoProc}
    BY <1>5 DEF Plan, Record, Leave
  <2>6. intent' \in [Ops -> BOOLEAN]
    BY <1>5 DEF Plan, Record, Leave
  <2>7. unread' \subseteq Ops /\ errors' \in Nat
    BY <1>5 DEF Plan, Record, Leave
  <2> QED BY <1>5, <2>1, <2>2, <2>3, <2>4, <2>5, <2>6, <2>7 DEF Plan
<1>6. ASSUME NEW p \in Procs, Archive(p)
      PROVE  TypeOK'
  BY <1>6 DEF Archive
<1>7. ASSUME NEW p \in Procs, ArchiveMarker(p)
      PROVE  TypeOK'
  BY <1>7 DEF ArchiveMarker
<1>8. ASSUME NEW p \in Procs, Publish(p)
      PROVE  TypeOK'
  BY <1>8 DEF Publish
<1>9. ASSUME NEW p \in Procs, PublicationMarker(p)
      PROVE  TypeOK'
  BY <1>9 DEF PublicationMarker
<1>10. ASSUME NEW p \in Procs, Project(p)
       PROVE  TypeOK'
  <2>1. pc' \in [Procs -> Busy \cup {"idle", "discovered"}]
    BY <1>10 DEF Project
  <2>2. /\ kind' \in [Procs -> {"none", "mutate", "recover", "finish", "repair"}]
        /\ op' \in [Procs -> Ops \cup {NoOp}]
    BY <1>10 DEF Project
  <2>3. ok' \in [Procs -> BOOLEAN]
    BY <1>10 DEF Project
  <2>4. /\ receipt' \in [Ops -> Outcomes \cup {"none"}]
        /\ attempt' \in [Ops -> Outcomes \cup {"none"}]
    BY <1>10 DEF Project
  <2>5. lock' \in Procs \cup {NoProc}
    BY <1>10 DEF Project
  <2>6. intent' \in [Ops -> BOOLEAN]
    BY <1>10 DEF Project
  <2>7. unread' \subseteq Ops /\ errors' \in Nat
    BY <1>10 DEF Project
  <2> QED BY <1>10, <2>1, <2>2, <2>3, <2>4, <2>5, <2>6, <2>7 DEF Project
<1>11. ASSUME NEW p \in Procs, Receipt(p)
       PROVE  TypeOK'
  BY <1>11 DEF Receipt, Outcome, Leave
<1>12. ASSUME NEW p \in Procs, Finish(p)
       PROVE  TypeOK'
  <2>1. pc' \in [Procs -> Busy \cup {"idle", "discovered"}]
    BY <1>12 DEF Finish, StillUnfinished, Resume, Record, Leave
  <2>2. /\ kind' \in [Procs -> {"none", "mutate", "recover", "finish", "repair"}]
        /\ op' \in [Procs -> Ops \cup {NoOp}]
    BY <1>12 DEF Finish, StillUnfinished, Resume, Record, Leave
  <2>3. ok' \in [Procs -> BOOLEAN]
    BY <1>12 DEF Finish, StillUnfinished, Resume, Record, Leave
  <2>4. /\ receipt' \in [Ops -> Outcomes \cup {"none"}]
        /\ attempt' \in [Ops -> Outcomes \cup {"none"}]
    BY <1>12 DEF Finish, StillUnfinished, Resume, Record, Leave
  <2>5. lock' \in Procs \cup {NoProc}
    BY <1>12 DEF Finish, StillUnfinished, Resume, Record, Leave
  <2>6. intent' \in [Ops -> BOOLEAN]
    BY <1>12 DEF Finish, StillUnfinished, Resume, Record, Leave
  <2>7. unread' \subseteq Ops /\ errors' \in Nat
    BY <1>12 DEF Finish, StillUnfinished, Resume, Record, Leave
  <2> QED BY <1>12, <2>1, <2>2, <2>3, <2>4, <2>5, <2>6, <2>7 DEF Finish
<1>13. ASSUME NEW p \in Procs, Repair(p)
       PROVE  TypeOK'
  <2>1. pc' \in [Procs -> Busy \cup {"idle", "discovered"}]
    BY <1>13 DEF Repair, Repairable, Leave
  <2>2. /\ kind' \in [Procs -> {"none", "mutate", "recover", "finish", "repair"}]
        /\ op' \in [Procs -> Ops \cup {NoOp}]
    BY <1>13 DEF Repair, Repairable, Leave
  <2>3. ok' \in [Procs -> BOOLEAN]
    BY <1>13 DEF Repair, Repairable, Leave
  <2>4. /\ receipt' \in [Ops -> Outcomes \cup {"none"}]
        /\ attempt' \in [Ops -> Outcomes \cup {"none"}]
    BY <1>13 DEF Repair, Repairable, Leave
  <2>5. lock' \in Procs \cup {NoProc}
    BY <1>13 DEF Repair, Repairable, Leave
  <2>6. intent' \in [Ops -> BOOLEAN]
    BY <1>13 DEF Repair, Repairable, Leave
  <2>7. unread' \subseteq Ops /\ errors' \in Nat
    BY <1>13 DEF Repair, Repairable, Leave
  <2> QED BY <1>13, <2>1, <2>2, <2>3, <2>4, <2>5, <2>6, <2>7 DEF Repair
<1>14. ASSUME NEW p \in Procs, Except(p)
       PROVE  TypeOK'
  <2>1. pc' \in [Procs -> Busy \cup {"idle", "discovered"}]
    BY <1>14 DEF Except, Classify, Record, Leave
  <2>2. /\ kind' \in [Procs -> {"none", "mutate", "recover", "finish", "repair"}]
        /\ op' \in [Procs -> Ops \cup {NoOp}]
    BY <1>14 DEF Except, Classify, Record, Leave
  <2>3. ok' \in [Procs -> BOOLEAN]
    BY <1>14 DEF Except, Classify, Record, Leave
  <2>4. /\ receipt' \in [Ops -> Outcomes \cup {"none"}]
        /\ attempt' \in [Ops -> Outcomes \cup {"none"}]
    BY <1>14 DEF Except, Classify, Record, Leave
  <2>5. lock' \in Procs \cup {NoProc}
    BY <1>14 DEF Except, Classify, Record, Leave
  <2>6. intent' \in [Ops -> BOOLEAN]
    BY <1>14 DEF Except, Classify, Record, Leave
  <2>7. unread' \subseteq Ops /\ errors' \in Nat
    BY <1>14 DEF Except, Classify, Record, Leave
  <2> QED BY <1>14, <2>1, <2>2, <2>3, <2>4, <2>5, <2>6, <2>7 DEF Except
<1>15. ASSUME NEW p \in Procs, Crash(p)
       PROVE  TypeOK'
  BY <1>15 DEF Crash, Leave
<1>16. CASE UNCHANGED vars
  BY <1>16 DEF vars
<1> HIDE DEF TypeOK
<1> QED BY <1>1, <1>2, <1>3, <1>4, <1>5, <1>6, <1>7, <1>8, <1>9, <1>10, <1>11,
           <1>12, <1>13, <1>14, <1>15, <1>16
        DEF Next, Step

\* Every step keeps the inductive invariant.
LEMMA InvStep == IInv /\ [Next]_vars => IInv'
<1> SUFFICES ASSUME IInv, [Next]_vars
             PROVE  IInv'
  OBVIOUS
<1> DEFINE Rest == /\ LockHeld /\ PlacesKnown /\ JournalTrue
                   /\ ProjectionOwed /\ PreimageArchived
<1>0. TypeOK'
  BY TypeStep DEF IInv
<1> SUFFICES Rest'
  BY <1>0 DEF Rest, IInv
<1> HIDE DEF Rest
<1> USE NamesAssumption, <1>0
    DEF IInv, TypeOK, Busy, Writing, Outcomes,
        binding, journal, history, locals, Goto, Call,
        LockHeld, PlacesKnown, JournalTrue, Owes, ProjectionOwed, PreimageArchived
<1>1. ASSUME NEW p \in Procs, NEW o \in Ops, Mutate(p, o)
      PROVE  Rest'
  BY <1>1 DEF Rest, Mutate, Admit, Record, Leave
<1>2. ASSUME NEW p \in Procs, NEW o \in Ops, MutateUnread(p, o)
      PROVE  Rest'
  BY <1>2 DEF Rest, MutateUnread, Record, Leave
<1>3. ASSUME NEW p \in Procs, NEW o \in Ops, Discover(p, o)
      PROVE  Rest'
  BY <1>3 DEF Rest, Discover
<1>4. ASSUME NEW p \in Procs, NEW o \in Ops, DiscoverRepair(p, o)
      PROVE  Rest'
  BY <1>4 DEF Rest, DiscoverRepair
<1>5. ASSUME NEW p \in Procs, Plan(p)
      PROVE  Rest'
  BY <1>5 DEF Rest, Plan, Record, Leave
<1>6. ASSUME NEW p \in Procs, Archive(p)
      PROVE  Rest'
  BY <1>6 DEF Rest, Archive
<1>7. ASSUME NEW p \in Procs, ArchiveMarker(p)
      PROVE  Rest'
  BY <1>7 DEF Rest, ArchiveMarker
<1>8. ASSUME NEW p \in Procs, Publish(p)
      PROVE  Rest'
  BY <1>8 DEF Rest, Publish
<1>9. ASSUME NEW p \in Procs, PublicationMarker(p)
      PROVE  Rest'
  BY <1>9 DEF Rest, PublicationMarker
<1>10. ASSUME NEW p \in Procs, Project(p)
       PROVE  Rest'
  BY <1>10 DEF Rest, Project
<1>11. ASSUME NEW p \in Procs, Receipt(p)
       PROVE  Rest'
  BY <1>11 DEF Rest, Receipt, Outcome, Leave
<1>12. ASSUME NEW p \in Procs, Finish(p)
       PROVE  Rest'
  <2>1. LockHeld'
    BY <1>12 DEF Finish, StillUnfinished, Resume, Record, Leave
  <2>2. PlacesKnown'
    BY <1>12 DEF Finish, StillUnfinished, Resume, Record, Leave
  <2>3. JournalTrue'
    BY <1>12 DEF Finish, StillUnfinished, Resume, Record, Leave
  <2>4. ProjectionOwed'
    BY <1>12 DEF Finish, StillUnfinished, Resume, Record, Leave
  <2>5. PreimageArchived'
    BY <1>12 DEF Finish, StillUnfinished, Resume, Record, Leave
  <2> QED BY <2>1, <2>2, <2>3, <2>4, <2>5 DEF Rest
<1>13. ASSUME NEW p \in Procs, Repair(p)
       PROVE  Rest'
  BY <1>13 DEF Rest, Repair, Repairable, Leave
<1>14. ASSUME NEW p \in Procs, Except(p)
       PROVE  Rest'
  <2>1. LockHeld'
    BY <1>14 DEF Except, Classify, Record, Leave
  <2>2. PlacesKnown'
    BY <1>14 DEF Except, Classify, Record, Leave
  <2>3. JournalTrue'
    BY <1>14 DEF Except, Classify, Record, Leave
  <2>4. ProjectionOwed'
    BY <1>14 DEF Except, Classify, Record, Leave
  <2>5. PreimageArchived'
    BY <1>14 DEF Except, Classify, Record, Leave
  <2> QED BY <2>1, <2>2, <2>3, <2>4, <2>5 DEF Rest
<1>15. ASSUME NEW p \in Procs, Crash(p)
       PROVE  Rest'
  BY <1>15 DEF Rest, Crash, Leave
<1>16. CASE UNCHANGED vars
  BY <1>16 DEF vars, Rest
<1> QED BY <1>1, <1>2, <1>3, <1>4, <1>5, <1>6, <1>7, <1>8, <1>9, <1>10, <1>11,
           <1>12, <1>13, <1>14, <1>15, <1>16
        DEF Next, Step

\* The inductive invariant holds in every reachable state.
LEMMA Inductive == Spec => []IInv
<1>1. Init => IInv
  BY NamesAssumption, BoundsAssumption
     DEF Init, IInv, TypeOK, Busy, Writing, Outcomes,
         LockHeld, PlacesKnown, JournalTrue, ProjectionOwed, PreimageArchived
<1> QED BY <1>1, InvStep, PTL DEF Spec

-----------------------------------------------------------------------------
\* The journal's files and the locals of mutate_item keep their types.
THEOREM TypeCorrect == Spec => []TypeOK
BY Inductive, PTL DEF IInv

\* When nothing is left to finish or to repair, the projection is that of the
\* canonical document.
THEOREM ProjectionCurrentInvariant == Spec => []ProjectionCurrent
<1>1. IInv => ProjectionCurrent
  BY DEF IInv, TypeOK, ProjectionOwed, Owes, ProjectionCurrent, Quiet
<1> QED BY <1>1, Inductive, PTL

\* mutate_item archives the document it replaces before it replaces it.
THEOREM PreimageArchivedInvariant == Spec => []PreimageArchived
BY Inductive, PTL DEF IInv

\* Each step as the register sees it: the rename applies the operation, its
\* marker confirms it, a receipt answers it, and everything else, the repair of a
\* projection included, leaves the register alone.
LEMMA RegisterStep ==
  ASSUME IInv, Next
  PROVE  [Register!Next]_(Register!vars)
<1> DEFINE Goal == [Register!Next]_(Register!vars)
<1> HIDE DEF Goal
<1> USE NamesAssumption
    DEF IInv, TypeOK, LockHeld, PlacesKnown, JournalTrue, Busy, Writing,
        binding, journal, history, locals, Goto, Call
<1>1. ASSUME NEW p \in Procs, NEW o \in Ops, Mutate(p, o)
      PROVE  Goal
  <2>1. CASE Admit(o) = "stale"
    <3>1. Register!Truthful(o, "CONFLICT")
      BY <2>1 DEF Admit, Register!Truthful
    <3>2. Register!Answer(o, "CONFLICT")
      BY <1>1, <2>1, <3>1 DEF Mutate, Record, Register!Answer
    <3> QED
      BY <3>2 DEF Goal, Register!Next
  <2>2. CASE Admit(o) # "stale"
    BY <1>1, <2>2 DEF Mutate, Goal, Register!vars
  <2> QED
    BY <2>1, <2>2
<1>2. ASSUME NEW p \in Procs, NEW o \in Ops, MutateUnread(p, o)
      PROVE  Goal
  <2>1. Register!Answer(o, "FAILED")
    BY <1>2 DEF MutateUnread, Record, Register!Answer
  <2> QED
    BY <2>1 DEF Goal, Register!Next
<1>3. ASSUME NEW p \in Procs, NEW o \in Ops, Discover(p, o) \/ DiscoverRepair(p, o)
      PROVE  Goal
  BY <1>3 DEF Discover, DiscoverRepair, Goal, Register!vars
<1>4. ASSUME NEW p \in Procs, Plan(p)
      PROVE  Goal
  <2>1. CASE Record(p, op[p], "COMMITTED") /\ target[op[p]] = item
    <3>1. Register!Truthful(op[p], "COMMITTED")
      BY <2>1 DEF Register!Truthful
    <3>2. Register!Answer(op[p], "COMMITTED")
      BY <1>4, <2>1, <3>1 DEF Plan, Record, Register!Answer
    <3> QED
      BY <1>4, <3>2 DEF Plan, Goal, Register!Next
  <2>2. CASE UNCHANGED receipt
    BY <1>4, <2>2 DEF Plan, Goal, Register!vars
  <2> QED
    BY <1>4, <2>1, <2>2 DEF Plan
<1>5. ASSUME NEW p \in Procs,
             Archive(p) \/ ArchiveMarker(p) \/ Project(p) \/ Repair(p) \/ Crash(p)
      PROVE  Goal
  BY <1>5 DEF Archive, ArchiveMarker, Project, Repair, Crash, Goal, Register!vars
<1>6. ASSUME NEW p \in Procs, Publish(p)
      PROVE  Goal
  <2>1. op[p] \in Ops /\ Register!Apply(op[p])
    BY <1>6 DEF Publish, Register!Apply
  <2> QED
    BY <2>1 DEF Goal, Register!Next
<1>7. ASSUME NEW p \in Procs, PublicationMarker(p)
      PROVE  Goal
  <2>1. op[p] \in Ops /\ receipt[op[p]] = "none" /\ item = target[op[p]]
    BY <1>7 DEF PublicationMarker
  <2>2. {o \in Ops : published'[o]} = {o \in Ops : published[o]} \cup {op[p]}
    BY <1>7, <2>1 DEF PublicationMarker
  <2>3. Register!Confirm(op[p])
    BY <1>7, <2>1, <2>2 DEF PublicationMarker, Register!Confirm
  <2> QED
    BY <2>1, <2>3 DEF Goal, Register!Next, Register!Confirm
<1>8. ASSUME NEW p \in Procs, Receipt(p)
      PROVE  Goal
  <2>1. CASE kind[p] = "repair"
    BY <1>8, <2>1 DEF Receipt, Goal, Register!vars
  <2>2. CASE kind[p] # "repair"
    <3>1. /\ op[p] \in Ops /\ receipt[op[p]] = "none" /\ item = target[op[p]]
          /\ Outcome(ok[p]) \in {"COMMITTED", "REPAIR_REQUIRED"}
      BY <1>8, <2>2 DEF Receipt, Outcome
    <3>2. Register!Truthful(op[p], Outcome(ok[p]))
      BY <3>1 DEF Register!Truthful
    <3>3. Register!Answer(op[p], Outcome(ok[p]))
      BY <1>8, <2>2, <3>1, <3>2 DEF Receipt, Register!Answer
    <3> QED
      BY <3>1, <3>3 DEF Goal, Register!Next
  <2> QED
    BY <2>1, <2>2
<1>9. ASSUME NEW p \in Procs, Except(p)
      PROVE  Goal
  <2>1. /\ op[p] \in Ops /\ receipt[op[p]] = "none"
        /\ item \in {expected[op[p]], target[op[p]]}
    BY <1>9 DEF Except
  <2>2. CASE Record(p, op[p], Classify(op[p])) /\ UNCHANGED unread
    <3>1. Register!Truthful(op[p], Classify(op[p]))
      BY <2>1 DEF Classify, Register!Truthful
    <3>2. Register!Answer(op[p], Classify(op[p]))
      BY <1>9, <2>1, <2>2, <3>1 DEF Except, Record, Register!Answer
    <3> QED
      BY <2>1, <3>2 DEF Classify, Goal, Register!Next
  <2>3. CASE Record(p, op[p], "FAILED") /\ unread' = unread \cup {op[p]}
    <3>1. Register!Answer(op[p], "FAILED")
      BY <1>9, <2>1, <2>3 DEF Except, Record, Register!Answer
    <3> QED
      BY <2>1, <3>1 DEF Goal, Register!Next
  <2> QED
    BY <1>9, <2>2, <2>3 DEF Except
<1>10. ASSUME NEW p \in Procs, Finish(p)
       PROVE  Goal
  <2>0. op[p] \in Ops
    BY <1>10 DEF Finish
  <2>1. CASE UNCHANGED <<receipt, unread>>
    BY <1>10, <2>1 DEF Finish, Goal, Register!vars
  <2>2. CASE /\ StillUnfinished(op[p]) /\ Resume(op[p]) = "conflict"
             /\ Record(p, op[p], "CONFLICT") /\ UNCHANGED unread
    <3>1. Register!Truthful(op[p], "CONFLICT")
      BY <2>0, <2>2 DEF Resume, Register!Truthful
    <3>2. Register!Answer(op[p], "CONFLICT")
      BY <1>10, <2>0, <2>2, <3>1 DEF Finish, StillUnfinished, Record, Register!Answer
    <3> QED
      BY <2>0, <3>2 DEF Goal, Register!Next
  <2>3. CASE /\ StillUnfinished(op[p]) /\ unread' = unread \cup {op[p]}
             /\ Record(p, op[p], "CONFLICT")
    <3>1. Register!Answer(op[p], "CONFLICT")
      BY <1>10, <2>0, <2>3 DEF Finish, StillUnfinished, Record, Register!Answer
    <3> QED
      BY <2>0, <3>1 DEF Goal, Register!Next
  <2> QED
    BY <1>10, <2>1, <2>2, <2>3 DEF Finish
<1> HIDE DEF IInv, TypeOK, LockHeld, PlacesKnown, JournalTrue
<1> QED
  BY <1>1, <1>2, <1>3, <1>4, <1>5, <1>6, <1>7, <1>8, <1>9, <1>10
     DEF Next, Step, Goal

\* With its lock, its journal, its crashes and its reconcilers, mutate_item is
\* an atomic compare-and-swap, and its receipts tell the truth.
THEOREM ImplementsRegister == Spec => RefinesRegister
<1>1. Init => Register!Init
  BY DEF Init, Register!Init
<1>2. IInv /\ [Next]_vars => [Register!Next]_(Register!vars)
  <2>1. ASSUME UNCHANGED vars PROVE UNCHANGED Register!vars
    BY <2>1 DEF vars, binding, journal, history, Register!vars
  <2> QED
    BY <2>1, RegisterStep
<1> QED
  BY <1>1, <1>2, Inductive, PTL DEF Spec, RefinesRegister, Register!Spec

\* What a step does to an operation, as the three action properties have it.
Good(o) ==
  /\ receipt[o] = "none" /\ receipt'[o] = "FAILED" /\ o \notin unread'
       => item = expected[o]
  /\ applied'[o] # applied[o] => item = expected[o]
  /\ receipt[o] # "none" => receipt'[o] = receipt[o]

\* Every action keeps receipts and the generation fence.
LEMMA ActionFacts ==
  ASSUME IInv, Next
  PROVE  \A o \in Ops : Good(o)
<1> USE NamesAssumption
    DEF Good, IInv, TypeOK, LockHeld, PlacesKnown, Busy, Writing, Outcomes,
        binding, journal, history, locals, Goto, Call
<1>1. ASSUME NEW o \in Ops, NEW p \in Procs, NEW q \in Ops, Mutate(p, q)
      PROVE  Good(o)
  BY <1>1 DEF Mutate, Admit, Record, Leave
<1>2. ASSUME NEW o \in Ops, NEW p \in Procs, NEW q \in Ops, MutateUnread(p, q)
      PROVE  Good(o)
  BY <1>2 DEF MutateUnread, Record, Leave
<1>3. ASSUME NEW o \in Ops, NEW p \in Procs, NEW q \in Ops, Discover(p, q)
      PROVE  Good(o)
  BY <1>3 DEF Discover
<1>4. ASSUME NEW o \in Ops, NEW p \in Procs, NEW q \in Ops, DiscoverRepair(p, q)
      PROVE  Good(o)
  BY <1>4 DEF DiscoverRepair
<1>5. ASSUME NEW o \in Ops, NEW p \in Procs, Plan(p)
      PROVE  Good(o)
  BY <1>5 DEF Plan, Record, Leave
<1>6. ASSUME NEW o \in Ops, NEW p \in Procs, Archive(p)
      PROVE  Good(o)
  BY <1>6 DEF Archive
<1>7. ASSUME NEW o \in Ops, NEW p \in Procs, ArchiveMarker(p)
      PROVE  Good(o)
  BY <1>7 DEF ArchiveMarker
<1>8. ASSUME NEW o \in Ops, NEW p \in Procs, Publish(p)
      PROVE  Good(o)
  BY <1>8 DEF Publish
<1>9. ASSUME NEW o \in Ops, NEW p \in Procs, PublicationMarker(p)
      PROVE  Good(o)
  BY <1>9 DEF PublicationMarker
<1>10. ASSUME NEW o \in Ops, NEW p \in Procs, Project(p)
       PROVE  Good(o)
  BY <1>10 DEF Project
<1>11. ASSUME NEW o \in Ops, NEW p \in Procs, Receipt(p)
       PROVE  Good(o)
  BY <1>11 DEF Receipt, Outcome, Leave
<1>12. ASSUME NEW o \in Ops, NEW p \in Procs, Finish(p)
       PROVE  Good(o)
  BY <1>12 DEF Finish, StillUnfinished, Resume, Record, Leave
<1>13. ASSUME NEW o \in Ops, NEW p \in Procs, Repair(p)
       PROVE  Good(o)
  BY <1>13 DEF Repair, Repairable, Leave
<1>14. ASSUME NEW o \in Ops, NEW p \in Procs, Except(p)
       PROVE  Good(o)
  BY <1>14 DEF Except, Classify, Record, Leave
<1>15. ASSUME NEW o \in Ops, NEW p \in Procs, Crash(p)
       PROVE  Good(o)
  BY <1>15 DEF Crash, Leave
<1> HIDE DEF Good
<1> QED BY <1>1, <1>2, <1>3, <1>4, <1>5, <1>6, <1>7, <1>8, <1>9, <1>10, <1>11,
           <1>12, <1>13, <1>14, <1>15 DEF Next, Step

\* No call of mutate_item says FAILED of a document that became canonical.
THEOREM FailedIsNotCanonical == Spec => FailedNotCanonical
<1>1. IInv /\ [Next]_vars => [\A o \in Ops : receipt[o] = "none"
        /\ receipt'[o] = "FAILED" /\ o \notin unread' => item = expected[o]]_vars
  BY ActionFacts DEF Good
<1> QED BY <1>1, Inductive, PTL DEF Spec, FailedNotCanonical

\* The generation fence.
ReplacesExpected ==
  [][\A o \in Ops : applied'[o] # applied[o] => item = expected[o]]_vars

\* Callers and reconcilers replace only the generation the operation expects.
THEOREM ReplacesOnlyExpected == Spec => ReplacesExpected
<1>1. IInv /\ [Next]_vars =>
        [\A o \in Ops : applied'[o] # applied[o] => item = expected[o]]_vars
  BY ActionFacts DEF Good
<1> QED BY <1>1, Inductive, PTL DEF Spec, ReplacesExpected

\* A receipt on disk is never written again.
THEOREM ReceiptIsImmutable == Spec => ReceiptImmutable
<1>1. IInv /\ [Next]_vars =>
        [\A o \in Ops : receipt[o] # "none" => receipt'[o] = receipt[o]]_vars
  BY ActionFacts DEF Good
<1> QED BY <1>1, Inductive, PTL DEF Spec, ReceiptImmutable
=============================================================================
