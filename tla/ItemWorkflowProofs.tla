------------------------- MODULE ItemWorkflowProofs -------------------------
(***************************************************************************)
(* What TLC checks of ItemWorkflow with at most three events (goals,       *)
(* writes of others, deaths and failures), proved for every number of them.*)
(***************************************************************************)
EXTENDS ItemWorkflow, TLAPS

Unseen == {"no", "redo"}

\* A row at its place has what it needs there.
Placed(r) ==
  /\ r.at = "commit" \/ r.receipt # "none" =>
       r.of \in Treatments /\ (r.of # "normalize-condition" => r.data # NoItem)
  /\ r.at = "evaluated" =>
       r.of = "evaluate" /\ r.data # NoItem /\ r.pick \in Eligible(r.data, TRUE)

\* An observation of the AI is one of an item that was to be identified, and
\* identifies it; the others leave the identification alone.  All of them are
\* one stamp later.
Observed(r) ==
  r.data # NoItem =>
    /\ r.of \in Treatments =>
         r.of # "normalize-condition" /\ r.data.stamp = r.gen.stamp + 1
    /\ r.of = "ai-identify" =>
         r.gen.ident \in Unseen /\ r.data.ident \notin Unseen
    /\ r.of \in {"ebay-draft", "ebay-price"} => r.data.ident = r.gen.ident

\* A treatment is eligible for the document it was dispatched for, as long as
\* its photographs are there.
Sound(r) ==
  /\ r \in JobRows /\ Placed(r) /\ Observed(r)
  /\ r.of \in Treatments => r.of \in Eligible(r.gen, TRUE)

RowsSound == \A j \in Live : Sound(job[j])

\* So is the choice of a request.
RequestSound == req # NoItem => req.pick \in Eligible(req.gen, TRUE)

\* An item that is to be identified has a scan left.
ScanLeft == scans + (IF item.ident \in Unseen THEN 1 ELSE 0) <= 1 + edits

IInv == TypeOK /\ RowsSound /\ RequestSound /\ OneActive /\ ScanLeft

-----------------------------------------------------------------------------
\* The treatments, and that an event is none of them.
LEMMA TreatmentsAre ==
  /\ Treatments = {"ai-identify", "ebay-draft", "ebay-price", "normalize-condition"}
  /\ "evaluate" \notin Treatments
BY DEF Treatments, Order

\* If anything is eligible, there is a first.
LEMMA FirstExists ==
  ASSUME NEW i, NEW p, Eligible(i, p) # {}
  PROVE  \E n \in DOMAIN Order :
           /\ Order[n] \in Eligible(i, p)
           /\ \A m \in 1..(n - 1) : Order[m] \notin Eligible(i, p)
<1> DEFINE Is1st(n) == /\ Order[n] \in Eligible(i, p)
                       /\ \A m \in 1..(n - 1) : Order[m] \notin Eligible(i, p)
<1>1. DOMAIN Order = 1..4
  BY DEF Order
<1>2. \E n \in 1..4 : Order[n] \in Eligible(i, p)
  BY <1>1 DEF Eligible, Treatments
<1>3. \E n \in 1..4 : Is1st(n)
  <2>1. CASE Order[1] \in Eligible(i, p)
    BY <2>1
  <2>2. CASE Order[1] \notin Eligible(i, p) /\ Order[2] \in Eligible(i, p)
    BY <2>2
  <2>3. CASE /\ Order[1] \notin Eligible(i, p) /\ Order[2] \notin Eligible(i, p)
             /\ Order[3] \in Eligible(i, p)
    BY <2>3
  <2>4. CASE /\ Order[1] \notin Eligible(i, p) /\ Order[2] \notin Eligible(i, p)
             /\ Order[3] \notin Eligible(i, p)
    <3>1. Order[4] \in Eligible(i, p)
      BY <1>2, <2>4
    <3> QED
      BY <2>4, <3>1
  <2> QED
    BY <2>1, <2>2, <2>3, <2>4
<1> QED
  BY <1>1, <1>3

\* The treatment that is dispatched is eligible; so it is if the photographs
\* are there to stay.
LEMMA FirstEligible ==
  ASSUME NEW i, NEW p, Eligible(i, p) # {}
  PROVE  /\ First(i, p) \in Eligible(i, TRUE)
         /\ First(i, p) \in Treatments
<1>1. First(i, p) \in Eligible(i, p)
  BY FirstExists DEF First
<1>2. Eligible(i, p) \subseteq Eligible(i, TRUE)
  BY TreatmentsAre DEF Eligible, Requirements
<1> QED
  BY <1>1, <1>2 DEF Eligible

\* Documents stay documents.
LEMMA ItemsClosed ==
  ASSUME NEW i \in Items
  PROVE  /\ [i EXCEPT !.ident = "redo"] \in Items
         /\ [i EXCEPT !.ident = "redo"].stamp = i.stamp
         /\ [i EXCEPT !.condition = "valid"] \in Items
         /\ [i EXCEPT !.condition = "valid"].ident = i.ident
         /\ [i EXCEPT !.condition = "valid"].condition = "valid"
         /\ [i EXCEPT !.condition = "valid"].stamp = i.stamp
         /\ [i EXCEPT !.condition = "alias"] \in Items
         /\ [i EXCEPT !.condition = "alias"].stamp = i.stamp
         /\ [i EXCEPT !.draft = "none"] \in Items
         /\ [i EXCEPT !.draft = "none"].stamp = i.stamp
         /\ [i EXCEPT !.available = ~@] \in Items
         /\ [i EXCEPT !.available = ~@].stamp = i.stamp
BY DEF Items

\* There are comparable sales or not.
LEMMA PriceResults ==
  ASSUME NEW i \in Items
  PROVE  Results("ebay-price", i) =
           {[i EXCEPT !.priced = x, !.stamp = @ + 1] : x \in BOOLEAN}
BY DEF Results

\* What a treatment makes of a document is one, and only ai-identify touches the
\* identification.
LEMMA ResultsClosed ==
  ASSUME NEW i \in Items, NEW t \in Treatments \ {"normalize-condition"},
         NEW r \in Results(t, i)
  PROVE  /\ r \in Items /\ r.stamp = i.stamp + 1
         /\ t = "ai-identify" => r.ident \notin Unseen
         /\ t \in {"ebay-draft", "ebay-price"} => r.ident = i.ident
<1>0. i.stamp + 1 \in Nat
  BY DEF Items
<1>1. CASE t = "ai-identify"
  <2>1. PICK x \in {"yes", "flag"}, c \in {"alias", "valid"} :
          r = [i EXCEPT !.ident = x, !.condition = c, !.stamp = @ + 1]
    BY <1>1 DEF Results
  <2>2. r \in Items
    BY <1>0, <2>1 DEF Items
  <2>3. r.ident = x /\ r.stamp = i.stamp + 1
    BY <2>1 DEF Items
  <2> QED
    BY <1>1, <2>1, <2>2, <2>3 DEF Unseen
<1>2. CASE t = "ebay-draft"
  <2>1. PICK x \in {"valid", "fallback"} : r = [i EXCEPT !.draft = x, !.stamp = @ + 1]
    BY <1>2 DEF Results
  <2>2. r \in Items
    BY <1>0, <2>1 DEF Items
  <2>3. r.ident = i.ident /\ r.stamp = i.stamp + 1
    BY <2>1 DEF Items
  <2> QED
    BY <1>2, <2>2, <2>3
<1>3. CASE t = "ebay-price"
  <2>1. PICK x \in BOOLEAN : r = [i EXCEPT !.priced = x, !.stamp = @ + 1]
    BY <1>3, PriceResults
  <2>2. r \in Items
    BY <1>0, <2>1 DEF Items
  <2>3. r.ident = i.ident /\ r.stamp = i.stamp + 1
    BY <2>1 DEF Items
  <2> QED
    BY <1>3, <2>2, <2>3
<1> QED
  BY <1>1, <1>2, <1>3, TreatmentsAre

-----------------------------------------------------------------------------
\* A row at another place, with other data, another choice or receipt.
Moved(r, a, d, p, c) ==
  [of |-> r.of, gen |-> r.gen, at |-> a, data |-> d, pick |-> p, receipt |-> c]

\* A row is its fields.
LEMMA RowFields ==
  ASSUME NEW r \in JobRows
  PROVE  r = [of |-> r.of, gen |-> r.gen, at |-> r.at, data |-> r.data,
              pick |-> r.pick, receipt |-> r.receipt]
BY DEF JobRows

\* A row that changes place, data, choice or receipt is a row.
LEMMA MovedTyped ==
  ASSUME NEW r \in JobRows, NEW a \in Places, NEW d \in Items \cup {NoItem},
         NEW p \in Treatments \cup {"none"}, NEW c \in Receipts
  PROVE  /\ Moved(r, a, d, p, c) \in JobRows /\ Moved(r, a, d, p, c) # NoJob
         /\ Moved(r, a, d, p, c).of = r.of /\ Moved(r, a, d, p, c).gen = r.gen
         /\ Moved(r, a, d, p, c).at = a /\ Moved(r, a, d, p, c).data = d
         /\ Moved(r, a, d, p, c).pick = p /\ Moved(r, a, d, p, c).receipt = c
BY NamesAssumption DEF JobRows, Moved

\* What the handlers do to their row leaves treatment and generation alone.
LEMMA RowsClosed ==
  ASSUME NEW r \in JobRows, NEW a \in Places, NEW d \in Items \cup {NoItem},
         NEW c \in Receipts
  PROVE  /\ [r EXCEPT !.at = a] = Moved(r, a, r.data, r.pick, r.receipt)
         /\ [r EXCEPT !.receipt = c] = Moved(r, r.at, r.data, r.pick, c)
         /\ [r EXCEPT !.at = a, !.data = d] = Moved(r, a, d, r.pick, r.receipt)
<1>1. [r EXCEPT !.at = a] = Moved(r, a, r.data, r.pick, r.receipt)
  <2> DEFINE e == [r EXCEPT !.at = a]
  <2>1. /\ e \in JobRows /\ e.of = r.of /\ e.gen = r.gen /\ e.at = a
        /\ e.data = r.data /\ e.pick = r.pick /\ e.receipt = r.receipt
    BY DEF JobRows
  <2> HIDE DEF e
  <2>2. e = Moved(r, a, r.data, r.pick, r.receipt)
    BY <2>1, RowFields DEF Moved
  <2> QED
    BY <2>2 DEF e
<1>2. [r EXCEPT !.receipt = c] = Moved(r, r.at, r.data, r.pick, c)
  <2> DEFINE e == [r EXCEPT !.receipt = c]
  <2>1. /\ e \in JobRows /\ e.of = r.of /\ e.gen = r.gen /\ e.at = r.at
        /\ e.data = r.data /\ e.pick = r.pick /\ e.receipt = c
    BY DEF JobRows
  <2> HIDE DEF e
  <2>2. e = Moved(r, r.at, r.data, r.pick, c)
    BY <2>1, RowFields DEF Moved
  <2> QED
    BY <2>2 DEF e
<1>3. [r EXCEPT !.at = a, !.data = d] = Moved(r, a, d, r.pick, r.receipt)
  <2> DEFINE e == [r EXCEPT !.at = a, !.data = d]
  <2>1. /\ e \in JobRows /\ e.of = r.of /\ e.gen = r.gen /\ e.at = a
        /\ e.data = d /\ e.pick = r.pick /\ e.receipt = r.receipt
    BY DEF JobRows
  <2> HIDE DEF e
  <2>2. e = Moved(r, a, d, r.pick, r.receipt)
    BY <2>1, RowFields DEF Moved
  <2> QED
    BY <2>2 DEF e
<1> QED
  BY <1>1, <1>2, <1>3

\* The same for an evaluation with its snapshot and choice.
LEMMA RowChosen ==
  ASSUME NEW r \in JobRows, NEW a \in Places, NEW d \in Items \cup {NoItem},
         NEW p \in Treatments \cup {"none"}
  PROVE  [r EXCEPT !.at = a, !.data = d, !.pick = p] = Moved(r, a, d, p, r.receipt)
<1> DEFINE e == [r EXCEPT !.at = a, !.data = d, !.pick = p]
<1>1. /\ e \in JobRows /\ e.of = r.of /\ e.gen = r.gen /\ e.at = a
      /\ e.data = d /\ e.pick = p /\ e.receipt = r.receipt
  BY DEF JobRows
<1> HIDE DEF e
<1>2. e = Moved(r, a, d, p, r.receipt)
  BY <1>1, RowFields DEF Moved
<1> QED
  BY <1>2 DEF e

\* INSERT of a treatment that is eligible, or of an event.
LEMMA NewRowSound ==
  ASSUME NEW t \in Treatments \cup {"evaluate"}, NEW g \in Items,
         t \in Treatments => t \in Eligible(g, TRUE)
  PROVE  /\ Sound(Row(t, g)) /\ Row(t, g) # NoJob
         /\ Row(t, g).of = t /\ Row(t, g).gen = g /\ Row(t, g).data = NoItem
         /\ Row(t, g).at = "queued" /\ Row(t, g).receipt = "none"
<1>1. Row(t, g) \in JobRows
  BY DEF Row, JobRows, Places, Receipts
<1> QED
  BY <1>1, NamesAssumption DEF Sound, Row, Placed, Observed

\* The row that a dispatch inserts.
NewTreatment(t, g) == Sound(Row(t, g)) /\ Row(t, g).of = t /\ Row(t, g).gen = g

LEMMA NewTreatmentRow ==
  ASSUME NEW t \in Treatments, NEW g \in Items, t \in Eligible(g, TRUE)
  PROVE  NewTreatment(t, g)
<1>1. Row(t, g) \in JobRows
  BY DEF Row, JobRows, Places, Receipts
<1> QED
  BY <1>1, NamesAssumption DEF NewTreatment, Sound, Row, Placed, Observed

\* A row ends, moves on, or becomes an event.
LEMMA RowStep ==
  ASSUME IInv, NEW j \in Live, NEW q, job' = [job EXCEPT ![j] = q],
         \/ q = NoJob
         \/ Sound(q) /\ q.of = "evaluate"
         \/ Sound(q) /\ q.of = job[j].of /\ q.gen = job[j].gen
  PROVE  /\ job' \in [Ids -> JobRows \cup {NoJob}]
         /\ RowsSound' /\ OneActive'
<1> USE DEF IInv, TypeOK, Live
<1>1. job' \in [Ids -> JobRows \cup {NoJob}]
  BY DEF Sound
<1>2. RowsSound'
  BY DEF RowsSound
<1>3. OneActive'
  <2> SUFFICES ASSUME NEW k \in Live', NEW l \in Live', k # l,
                      job'[k].of \in Treatments
               PROVE  <<job'[k].of, job'[k].gen>> # <<job'[l].of, job'[l].gen>>
    BY DEF OneActive
  <2>1. CASE k # j /\ l # j
    BY <2>1 DEF OneActive
  <2>2. CASE k = j
    BY <2>2, TreatmentsAre DEF OneActive
  <2>3. CASE l = j
    BY <2>3, TreatmentsAre DEF OneActive
  <2> QED
    BY <2>1, <2>2, <2>3
<1> QED
  BY <1>1, <1>2, <1>3

\* What a dispatch does to the caller's own row, if that is k.
Own(k, row) ==
  \/ row = job[k]
  \/ k \in Live /\ job[k].of = "evaluate" /\ row \in {NoJob, Row("evaluate", job[k].gen)}

\* dispatch_treatment inserts a row only if none has its key.
LEMMA DispatchStep ==
  ASSUME IInv, NEW t \in Treatments, NEW g \in Items, t \in Eligible(g, TRUE), NEW by,
         NEW rows \in [Ids -> JobRows \cup {NoJob}], \A k \in Ids : Own(k, rows[k]),
         Inserts(t, g, by, rows) \/ job' = rows
  PROVE  /\ job' \in [Ids -> JobRows \cup {NoJob}]
         /\ RowsSound' /\ OneActive'
<1>0. NewTreatment(t, g)
  BY NewTreatmentRow
<1>1. Sound(Row(t, g)) /\ Row(t, g).of = t /\ Row(t, g).gen = g
  BY <1>0 DEF NewTreatment
<1> USE DEF IInv, Live
<1>2. ASSUME NEW k \in Ids, rows[k] # NoJob
      PROVE  /\ k \in Live /\ Sound(rows[k])
             /\ rows[k].of = job[k].of /\ rows[k].gen = job[k].gen
  <2>1. k \in Live
    BY <1>2 DEF Own
  <2>2. Sound(job[k]) /\ job[k].gen \in Items
    BY <2>1 DEF RowsSound, Sound, JobRows
  <2>3. CASE rows[k] = job[k]
    BY <2>1, <2>2, <2>3
  <2>4. CASE job[k].of = "evaluate" /\ rows[k] = Row("evaluate", job[k].gen)
    BY <2>1, <2>2, <2>4, NewRowSound, TreatmentsAre
  <2> QED
    BY <1>2, <2>3, <2>4 DEF Own
<1>3. CASE job' = rows
  <2>1. \A k \in Live' : k \in Ids /\ job'[k] = rows[k] /\ rows[k] # NoJob
    BY <1>3
  <2>2. RowsSound'
    BY <1>2, <2>1 DEF RowsSound
  <2>3. OneActive'
    BY <1>2, <2>1 DEF OneActive
  <2> QED
    BY <1>3, <2>2, <2>3
<1>4. ASSUME NEW j \in Ids \ Live, job' = [rows EXCEPT ![j] = Row(t, g)],
             ~\E k \in Ids : SameKey(k, t, g, by)
      PROVE  /\ job' \in [Ids -> JobRows \cup {NoJob}]
             /\ RowsSound' /\ OneActive'
  <2>1. job' \in [Ids -> JobRows \cup {NoJob}]
    BY <1>1, <1>4 DEF Sound
  <2>2. \A k \in Live' : \/ k = j /\ job'[k] = Row(t, g)
                         \/ k # j /\ k \in Ids /\ job'[k] = rows[k] /\ rows[k] # NoJob
    BY <1>4
  <2>3. RowsSound'
    BY <1>1, <1>2, <2>2 DEF RowsSound
  <2>4. \A k \in Live : ~(job[k].of = t /\ job[k].gen = g)
    BY <1>4 DEF SameKey
  <2>5. OneActive'
    <3> SUFFICES ASSUME NEW k \in Live', NEW l \in Live', k # l,
                        job'[k].of \in Treatments
                 PROVE  <<job'[k].of, job'[k].gen>> # <<job'[l].of, job'[l].gen>>
      BY DEF OneActive
    <3>1. CASE k # j /\ l # j
      <4>1. /\ k \in Live /\ job'[k].of = job[k].of /\ job'[k].gen = job[k].gen
            /\ l \in Live /\ job'[l].of = job[l].of /\ job'[l].gen = job[l].gen
        BY <1>2, <2>2, <3>1
      <4> QED
        BY <4>1 DEF OneActive
    <3>2. CASE k = j
      <4>1. l \in Live /\ job'[l].of = job[l].of /\ job'[l].gen = job[l].gen
        BY <1>2, <2>2, <3>2
      <4> QED
        BY <1>1, <2>2, <2>4, <3>2, <4>1
    <3>3. CASE l = j
      <4>1. k \in Live /\ job'[k].of = job[k].of /\ job'[k].gen = job[k].gen
        BY <1>2, <2>2, <3>3
      <4> QED
        BY <1>1, <2>2, <2>4, <3>3, <4>1
    <3> QED
      BY <3>1, <3>2, <3>3
  <2> QED
    BY <2>1, <2>3, <2>5
<1> QED
  BY <1>3, <1>4 DEF Inserts

-----------------------------------------------------------------------------
\* The workflow starts with an empty queue and an item to be identified.
LEMMA InitInv == Init => IInv
<1> SUFFICES ASSUME Init PROVE IInv
  OBVIOUS
<1>1. item \in Items
  <2>1. FALSE \in BOOLEAN /\ TRUE \in BOOLEAN
    OBVIOUS
  <2> QED
    BY <2>1 DEF Init, Items
<1>2. Live = {}
  BY DEF Init, Live
<1>3. item.ident = "no"
  BY DEF Init
<1>4. owed \in BOOLEAN /\ photos \in BOOLEAN
  BY Zenon DEF Init
<1> QED
  BY <1>1, <1>2, <1>3, <1>4
     DEF Init, IInv, TypeOK, RowsSound, RequestSound, OneActive, ScanLeft

\* An observation, or the expected document, normalised.
LEMMA TargetKnown ==
  ASSUME IInv, NEW j \in Live, job[j].at = "commit" \/ job[j].receipt # "none"
  PROVE  /\ Target(j) \in Items
         /\ job[j].of = "ai-identify" =>
              job[j].gen.ident \in Unseen /\ Target(j).ident \notin Unseen
         /\ job[j].of # "ai-identify" => Target(j).ident = job[j].gen.ident
         /\ job[j].of \in Eligible(job[j].gen, TRUE) /\ job[j].of \in Treatments
<1>1. Sound(job[j])
  BY DEF IInv, RowsSound
<1>2. /\ job[j].gen \in Items /\ job[j].of \in Treatments
      /\ job[j].of \in Eligible(job[j].gen, TRUE)
  BY <1>1 DEF Sound, JobRows, Placed
<1>3. CASE job[j].of = "normalize-condition"
  BY <1>2, <1>3, ItemsClosed DEF Target
<1>4. CASE job[j].of # "normalize-condition"
  <2>1. job[j].data \in Items /\ job[j].data # NoItem
    BY <1>1, <1>4 DEF Sound, Placed, JobRows
  <2> QED
    BY <1>1, <1>2, <1>4, <2>1, TreatmentsAre DEF Target, Sound, Observed
<1> QED
  BY <1>3, <1>4

\* What is given up are documents.
LEMMA AbandonedItems ==
  ASSUME IInv, NEW j \in Live
  PROVE  Abandoned(j) \subseteq Items
<1> DEFINE r == job[j]
<1>1. Sound(r) /\ r \in JobRows /\ r.gen \in Items /\ item \in Items
  BY DEF IInv, TypeOK, RowsSound, Sound, JobRows
<1>2. CASE r.of # "evaluate" /\ r.receipt \in {"none", "conflict", "failed"}
  <2>1. Abandoned(j) = {r.gen}
    BY <1>2 DEF Abandoned
  <2> QED
    BY <1>1, <2>1
<1>3. CASE r.of # "evaluate" /\ r.receipt \notin {"none", "conflict", "failed"}
  <2>1. Abandoned(j) = {r.gen, Target(j)}
    BY <1>3 DEF Abandoned
  <2> QED
    BY <1>1, <1>3, <2>1, TargetKnown
<1>4. CASE r.of = "evaluate"
  <2>1. r.at # "queued" => r.data \in Items
    BY <1>1, <1>4, TreatmentsAre DEF Sound, Placed, JobRows, Places
  <2>2. Abandoned(j) = {IF r.at = "queued" THEN item ELSE r.data}
    BY <1>4 DEF Abandoned
  <2> QED
    BY <1>1, <2>1, <2>2
<1> QED
  BY <1>2, <1>3, <1>4

\* What each step makes of its row: an observation, a receipt, a snapshot, and
\* what is kept when the worker dies.
LEMMA RowForms ==
  ASSUME IInv, NEW j \in Live
  PROVE  LET r == job[j] IN
         /\ Resume(j) => Becomes(j, Moved(r, "commit", r.data, r.pick, r.receipt))
         /\ Observe(j) => \E d \in Results(r.of, r.gen) :
                            Becomes(j, Moved(r, "commit", d, r.pick, r.receipt))
         /\ \A c \in Receipts :
              Records(j, c) => Becomes(j, Moved(r, r.at, r.data, r.pick, c))
         /\ EvaluateEvent(j) /\ item # r.gen /\ Eligible(item, photos) # {} =>
              Becomes(j, Moved(r, "evaluated", item, First(item, photos), r.receipt))
         /\ r.of # "evaluate" /\ Crash(j) =>
              Becomes(j, Moved(r, "queued", r.data, r.pick, r.receipt))
         /\ r.of = "evaluate" /\ Crash(j) => Becomes(j, Row("evaluate", r.gen))
         /\ Tear(j) => Becomes(j, Moved(r, "queued", r.data, r.pick, "torn"))
<1> DEFINE r == job[j]
<1>0. /\ r \in JobRows /\ Sound(r) /\ item \in Items /\ r.gen \in Items
      /\ r.data \in Items \cup {NoItem} /\ r.pick \in Treatments \cup {"none"}
      /\ r.receipt \in Receipts /\ r.at \in Places
  BY DEF IInv, TypeOK, RowsSound, Sound, JobRows
<1>p. "queued" \in Places /\ "commit" \in Places /\ "evaluated" \in Places
      /\ "torn" \in Receipts
  BY DEF Places, Receipts
<1>1. ASSUME Resume(j)
      PROVE  Becomes(j, Moved(r, "commit", r.data, r.pick, r.receipt))
  BY <1>0, <1>p, <1>1, RowsClosed DEF Resume, Moves
<1>2. ASSUME Observe(j)
      PROVE  \E d \in Results(r.of, r.gen) :
               Becomes(j, Moved(r, "commit", d, r.pick, r.receipt))
  <2>1. PICK d \in Results(r.of, r.gen) :
          Becomes(j, [r EXCEPT !.at = "commit", !.data = d])
    BY <1>2 DEF Observe
  <2>2. d \in Items
    BY <1>0, <1>2, <2>1, ResultsClosed DEF Observe, Begins
  <2>3. [r EXCEPT !.at = "commit", !.data = d] = Moved(r, "commit", d, r.pick, r.receipt)
    BY <1>0, <1>p, <2>2, RowsClosed
  <2> QED
    BY <2>1, <2>3
<1>3. ASSUME NEW c \in Receipts, Records(j, c)
      PROVE  Becomes(j, Moved(r, r.at, r.data, r.pick, c))
  BY <1>0, <1>3, RowsClosed DEF Records
<1>4. ASSUME EvaluateEvent(j), item # r.gen, Eligible(item, photos) # {}
      PROVE  Becomes(j, Moved(r, "evaluated", item, First(item, photos), r.receipt))
  <2>1. Becomes(j, [r EXCEPT !.at = "evaluated", !.data = item, !.pick = First(item, photos)])
    BY <1>4 DEF EvaluateEvent
  <2>2. PICK f \in Treatments : f = First(item, photos)
    BY <1>4, FirstEligible
  <2>3. [r EXCEPT !.at = "evaluated", !.data = item, !.pick = f] =
          Moved(r, "evaluated", item, f, r.receipt)
    BY <1>0, <1>p, RowChosen
  <2> QED
    BY <2>1, <2>2, <2>3
<1>5. ASSUME r.of # "evaluate", Crash(j)
      PROVE  Becomes(j, Moved(r, "queued", r.data, r.pick, r.receipt))
  BY <1>0, <1>p, <1>5, RowsClosed DEF Crash, Requeued
<1>6. ASSUME r.of = "evaluate", Crash(j) PROVE Becomes(j, Row("evaluate", r.gen))
  BY <1>6 DEF Crash, Requeued
<1>7. ASSUME Tear(j) PROVE Becomes(j, Moved(r, "queued", r.data, r.pick, "torn"))
  <2> DEFINE e == [r EXCEPT !.receipt = "torn"]
  <2>1. e = Moved(r, r.at, r.data, r.pick, "torn")
    BY <1>0, <1>p, RowsClosed
  <2>2. Becomes(j, Requeued(e))
    BY <1>7 DEF Tear
  <2> HIDE DEF e
  <2>3. /\ e \in JobRows /\ e.of = r.of /\ e.gen = r.gen /\ e.data = r.data
        /\ e.pick = r.pick /\ e.receipt = "torn"
    BY <1>0, <1>p, <2>1 DEF Moved, JobRows
  <2>4. r.of # "evaluate"
    BY <1>0, <1>7, TreatmentsAre DEF Tear, Undecided, At, Sound, Placed
  <2>5. Requeued(e) = [e EXCEPT !.at = "queued"]
    BY <2>3, <2>4 DEF Requeued
  <2>6. [e EXCEPT !.at = "queued"] = Moved(e, "queued", e.data, e.pick, e.receipt)
    BY <1>p, <2>3, RowsClosed
  <2>7. Moved(e, "queued", e.data, e.pick, e.receipt) =
          Moved(r, "queued", r.data, r.pick, "torn")
    BY <2>3 DEF Moved
  <2> QED
    BY <2>2, <2>5, <2>6, <2>7
<1> QED
  BY <1>1, <1>2, <1>3, <1>4, <1>5, <1>6, <1>7

\* mutate_item replaces the document that the row was made for, or only answers.
Answers(j, c) ==
  /\ UNCHANGED <<item, writer, scans>>
  /\ \/ c \in {"committed", "repair", "unread"} /\ job[j].receipt = "torn"
     \/ c = "conflict" /\ ~Published(j)
     \/ c = "failed" /\ job[j].receipt = "none"

LEMMA CommitForms ==
  ASSUME IInv, NEW j \in Live, Commit(j)
  PROVE  LET r == job[j] IN
         /\ r.at = "commit" /\ r.receipt \in {"none", "torn"}
         /\ \E c \in Receipts \ {"none", "torn"} :
              /\ Becomes(j, Moved(r, "commit", r.data, r.pick, c))
              /\ \/ Matches(j) /\ Replaces(j) /\ c \in {"committed", "repair", "unread"}
                 \/ Answers(j, c)
<1> DEFINE r == job[j]
<1>1. r.at = "commit" /\ r.receipt \in {"none", "torn"}
  BY DEF Commit, Undecided, At
<1>2. \E c \in Receipts \ {"none", "torn"} :
         /\ Records(j, c)
         /\ \/ Matches(j) /\ Replaces(j) /\ c \in {"committed", "repair", "unread"}
            \/ Answers(j, c)
  <2>1. CASE /\ Matches(j) /\ Replaces(j)
             /\ Records(j, "committed") \/ Records(j, "repair") \/ Records(j, "unread")
    BY <2>1 DEF Receipts
  <2>2. CASE /\ Published(j) /\ (Records(j, "committed") \/ Records(j, "repair"))
             /\ UNCHANGED <<item, writer, scans>>
    BY <2>2 DEF Published, Receipts, Answers
  <2>3. CASE /\ ~Published(j) /\ Records(j, "conflict")
             /\ UNCHANGED <<item, writer, scans>>
    BY <2>3 DEF Receipts, Answers
  <2>4. CASE /\ Records(j, IF r.receipt = "torn" THEN "unread" ELSE "failed")
             /\ UNCHANGED <<item, writer, scans>>
    <3>1. CASE r.receipt = "torn"
      <4>1. Records(j, "unread")
        BY <2>4, <3>1
      <4> QED
        BY <2>4, <3>1, <4>1 DEF Receipts, Answers
    <3>2. CASE r.receipt = "none"
      <4>1. Records(j, "failed")
        BY <2>4, <3>2
      <4> QED
        BY <2>4, <3>2, <4>1 DEF Receipts, Answers
    <3> QED
      BY <1>1, <3>1, <3>2
  <2> QED
    BY <2>1, <2>2, <2>3, <2>4 DEF Commit
<1> QED
  BY <1>1, <1>2, RowForms

\* The steps that concern one row.
StepOf(j) == JobStep(j) \/ Crash(j) \/ Tear(j) \/ Redeliver(j) \/ Fail(j)

\* They are about a row of the queue.
LEMMA StepLive ==
  ASSUME NEW j \in Ids, StepOf(j)
  PROVE  j \in Live
BY DEF StepOf, JobStep, Resume, Observe, Skip, Refuse, Commit, Reconcile, Report,
       EvaluateEvent, EvaluateDispatch, Crash, Tear, Redeliver, Fail, Begins, Undecided, At

\* An evaluation dispatches the treatment that it chose, for its snapshot.
LEMMA Evaluates ==
  ASSUME IInv, NEW j \in Live, EvaluateDispatch(j) \/ Redeliver(j)
  PROVE  LET r == job[j] IN
         /\ r.of = "evaluate" /\ r.at = "evaluated" /\ r.gen \in Items
         /\ r.data \in Items /\ r.pick \in Treatments /\ r.pick \in Eligible(r.data, TRUE)
         /\ \E row \in {NoJob, Row("evaluate", r.gen)} :
              /\ [job EXCEPT ![j] = row] \in [Ids -> JobRows \cup {NoJob}]
              /\ \A k \in Ids : Own(k, [job EXCEPT ![j] = row][k])
              /\ \/ /\ Inserts(r.pick, r.data, "evaluator", [job EXCEPT ![j] = row])
                    /\ lost' = lost
                 \/ /\ job' = [job EXCEPT ![j] = row]
                    /\ lost' = lost \cup {r.data}
<1> DEFINE r == job[j]
<1>1. Sound(r) /\ r.at = "evaluated" /\ r.gen \in Items /\ r.data \in Items \cup {NoItem}
  BY DEF IInv, RowsSound, Sound, JobRows, EvaluateDispatch, Redeliver, At
<1>2. r.of = "evaluate" /\ r.data \in Items /\ r.pick \in Eligible(r.data, TRUE)
  BY <1>1 DEF Sound, Placed
<1>3. r.pick \in Treatments
  BY <1>2 DEF Eligible
<1>4. ASSUME NEW row \in {NoJob, Row("evaluate", r.gen)}
      PROVE  /\ [job EXCEPT ![j] = row] \in [Ids -> JobRows \cup {NoJob}]
             /\ \A k \in Ids : Own(k, [job EXCEPT ![j] = row][k])
  <2>1. row \in JobRows \cup {NoJob}
    <3>1. Sound(Row("evaluate", r.gen))
      BY <1>1, NewRowSound, TreatmentsAre
    <3>2. Row("evaluate", r.gen) \in JobRows
      BY <3>1 DEF Sound
    <3> QED
      BY <3>2
  <2>2. job \in [Ids -> JobRows \cup {NoJob}] /\ j \in Ids
    BY DEF IInv, TypeOK, Live
  <2> QED
    BY <1>2, <2>1, <2>2 DEF Own
<1>5. CASE EvaluateDispatch(j)
  <2>1. Dispatch(r.pick, r.data, "evaluator", [job EXCEPT ![j] = NoJob])
    BY <1>5 DEF EvaluateDispatch
  <2>2. \/ /\ Inserts(r.pick, r.data, "evaluator", [job EXCEPT ![j] = NoJob])
           /\ lost' = lost
        \/ /\ job' = [job EXCEPT ![j] = NoJob]
           /\ lost' = lost \cup {r.data}
    BY <2>1 DEF Dispatch
  <2> QED
    BY <1>1, <1>2, <1>3, <1>4, <2>2
<1>6. CASE Redeliver(j)
  <2>1. Requeued(r) = Row("evaluate", r.gen)
    BY <1>2 DEF Requeued
  <2>2. /\ Inserts(r.pick, r.data, "evaluator", [job EXCEPT ![j] = Row("evaluate", r.gen)])
        /\ lost' = lost
    BY <1>6, <2>1 DEF Redeliver, history
  <2> QED
    BY <1>1, <1>2, <1>3, <1>4, <2>2
<1> QED
  BY <1>5, <1>6

\* Every step keeps the rows sound, and one treatment of a document in the queue.
LEMMA RowInv ==
  ASSUME IInv, NEW j \in Ids, StepOf(j)
  PROVE  /\ job' \in [Ids -> JobRows \cup {NoJob}]
         /\ RowsSound' /\ OneActive'
<1> DEFINE r == job[j]
<1>0. j \in Live
  BY StepLive
<1>a. /\ Sound(r) /\ r \in JobRows /\ item \in Items /\ r.gen \in Items
      /\ r.data \in Items \cup {NoItem} /\ r.pick \in Treatments \cup {"none"}
      /\ r.receipt \in Receipts /\ r.at \in Places
  BY <1>0 DEF IInv, RowsSound, Sound, TypeOK, JobRows
<1>p. "queued" \in Places /\ "commit" \in Places /\ "evaluated" \in Places
      /\ "torn" \in Receipts
  BY DEF Places, Receipts
<1>b. ASSUME NEW a \in Places, NEW d \in Items \cup {NoItem},
             NEW p \in Treatments \cup {"none"}, NEW c \in Receipts,
             Becomes(j, Moved(r, a, d, p, c)),
             Placed(Moved(r, a, d, p, c)), Observed(Moved(r, a, d, p, c))
      PROVE  /\ job' \in [Ids -> JobRows \cup {NoJob}]
             /\ RowsSound' /\ OneActive'
  <2> DEFINE q == Moved(r, a, d, p, c)
  <2>1. q \in JobRows /\ q.of = r.of /\ q.gen = r.gen
    BY <1>a DEF Moved, JobRows
  <2>2. Placed(q) /\ Observed(q) /\ job' = [job EXCEPT ![j] = q]
    BY <1>b DEF Becomes
  <2> HIDE DEF q
  <2>3. Sound(q)
    BY <1>a, <2>1, <2>2 DEF Sound
  <2> QED
    BY <1>0, <2>1, <2>2, <2>3, RowStep
<1>c. ASSUME Ends(j)
      PROVE  /\ job' \in [Ids -> JobRows \cup {NoJob}]
             /\ RowsSound' /\ OneActive'
  BY <1>0, <1>c, RowStep DEF Ends, Becomes
<1>d. ASSUME Becomes(j, Row("evaluate", r.gen))
      PROVE  /\ job' \in [Ids -> JobRows \cup {NoJob}]
             /\ RowsSound' /\ OneActive'
  <2>1. Sound(Row("evaluate", r.gen)) /\ Row("evaluate", r.gen).of = "evaluate"
    BY <1>a, NewRowSound, TreatmentsAre
  <2> QED
    BY <1>0, <1>d, <2>1, RowStep DEF Becomes
<1>1. CASE Resume(j)
  <2> DEFINE q == Moved(r, "commit", r.data, r.pick, r.receipt)
  <2>1. Becomes(j, q)
    BY <1>0, <1>1, RowForms
  <2>2. Placed(q) /\ Observed(q)
    BY <1>1, <1>a DEF Moved, Resume, Sound, Placed, Observed
  <2> QED
    BY <1>a, <1>p, <1>b, <2>1, <2>2
<1>2. CASE Observe(j)
  <2>1. PICK d \in Results(r.of, r.gen) :
          Becomes(j, Moved(r, "commit", d, r.pick, r.receipt))
    BY <1>0, <1>2, RowForms
  <2>2. /\ r.of \in {"ai-identify", "ebay-draft", "ebay-price"}
        /\ r.of \in Treatments \ {"normalize-condition"}
    BY <1>2, <1>a, TreatmentsAre DEF Observe, Begins
  <2>3. /\ d \in Items /\ d.stamp = r.gen.stamp + 1
        /\ r.of = "ai-identify" => d.ident \notin Unseen
        /\ r.of \in {"ebay-draft", "ebay-price"} => d.ident = r.gen.ident
    BY <1>a, <2>1, <2>2, ResultsClosed
  <2>4. r.of = "ai-identify" => r.gen.ident \in Unseen
    BY <1>2, <1>a, <2>2 DEF Observe, AlreadyIdentified, Items, Unseen
  <2> DEFINE q == Moved(r, "commit", d, r.pick, r.receipt)
  <2>5. /\ q.of = r.of /\ q.gen = r.gen /\ q.at = "commit" /\ q.data = d
    BY DEF Moved
  <2> HIDE DEF q
  <2>6. Placed(q)
    BY <2>2, <2>3, <2>5, NamesAssumption DEF Placed
  <2>7. Observed(q)
    BY <2>2, <2>3, <2>4, <2>5 DEF Observed
  <2> QED
    BY <1>a, <1>p, <1>b, <2>1, <2>3, <2>6, <2>7 DEF q
<1>3. CASE Skip(j)
  BY <1>3, <1>c DEF Skip
<1>4. CASE Refuse(j)
  BY <1>4, <1>c DEF Refuse, GivesUp
<1>5. CASE Commit(j)
  <2>1. PICK c \in Receipts : Becomes(j, Moved(r, "commit", r.data, r.pick, c))
    BY <1>0, <1>5, CommitForms
  <2>2. r.at = "commit"
    BY <1>0, <1>5, CommitForms
  <2>3. Placed(Moved(r, "commit", r.data, r.pick, c))
        /\ Observed(Moved(r, "commit", r.data, r.pick, c))
    BY <1>a, <2>2 DEF Moved, Sound, Placed, Observed
  <2> QED
    BY <1>a, <1>p, <1>b, <2>1, <2>3
<1>6. CASE Reconcile(j)
  <2>1. CASE Records(j, "committed")
    <3>0. "committed" \in Receipts
      BY DEF Receipts
    <3>1. r.at = "commit"
      BY <1>6 DEF Reconcile, At
    <3>2. Becomes(j, Moved(r, "commit", r.data, r.pick, "committed"))
      BY <1>0, <2>1, <3>0, <3>1, RowForms
    <3>3. Placed(Moved(r, "commit", r.data, r.pick, "committed"))
          /\ Observed(Moved(r, "commit", r.data, r.pick, "committed"))
      BY <1>a, <3>1 DEF Moved, Sound, Placed, Observed
    <3> QED
      BY <1>a, <1>p, <1>b, <3>0, <3>2, <3>3
  <2>2. CASE Ends(j)
    BY <1>c, <2>2
  <2> QED
    BY <1>6, <2>1, <2>2 DEF Reconcile, GivesUp
<1>7. CASE Report(j)
  BY <1>7, <1>c, <1>d DEF Report, GivesUp
<1>8. CASE EvaluateEvent(j)
  <2>1. CASE Ends(j)
    BY <1>c, <2>1
  <2>2. CASE item # r.gen /\ Eligible(item, photos) # {}
    <3>1. PICK f \in Treatments : f = First(item, photos) /\ f \in Eligible(item, TRUE)
      BY <2>2, FirstEligible
    <3> DEFINE q == Moved(r, "evaluated", item, f, r.receipt)
    <3>2. Becomes(j, q)
      BY <1>0, <1>8, <2>2, <3>1, RowForms
    <3>3. /\ q.of = r.of /\ q.at = "evaluated" /\ q.data = item /\ q.pick = f
          /\ q.receipt = r.receipt
      BY DEF Moved
    <3>4. r.of = "evaluate" /\ r.receipt = "none"
      BY <1>8, <1>a, TreatmentsAre DEF EvaluateEvent, Sound, Placed
    <3> HIDE DEF q
    <3>5. Placed(q) /\ Observed(q)
      BY <1>a, <3>1, <3>3, <3>4, NamesAssumption, TreatmentsAre DEF Placed, Observed
    <3> QED
      BY <1>a, <1>p, <1>b, <3>2, <3>5 DEF q
  <2> QED
    BY <1>8, <2>1, <2>2 DEF EvaluateEvent
<1>9. CASE EvaluateDispatch(j) \/ Redeliver(j)
  <2>1. PICK row \in {NoJob, Row("evaluate", r.gen)} :
          /\ [job EXCEPT ![j] = row] \in [Ids -> JobRows \cup {NoJob}]
          /\ \A k \in Ids : Own(k, [job EXCEPT ![j] = row][k])
          /\ \/ Inserts(r.pick, r.data, "evaluator", [job EXCEPT ![j] = row])
             \/ job' = [job EXCEPT ![j] = row]
    BY <1>0, <1>9, Evaluates
  <2>2. r.data \in Items /\ r.pick \in Treatments /\ r.pick \in Eligible(r.data, TRUE)
    BY <1>0, <1>9, Evaluates
  <2> QED
    BY <2>1, <2>2, DispatchStep
<1>10. CASE Crash(j)
  <2>1. CASE r.of = "evaluate"
    BY <1>0, <1>10, <1>d, <2>1, RowForms
  <2>2. CASE r.of # "evaluate"
    <3> DEFINE q == Moved(r, "queued", r.data, r.pick, r.receipt)
    <3>1. Becomes(j, q)
      BY <1>0, <1>10, <2>2, RowForms
    <3>2. Placed(q) /\ Observed(q)
      BY <1>a DEF Moved, Sound, Placed, Observed
    <3> QED
      BY <1>a, <1>p, <1>b, <3>1, <3>2
  <2> QED
    BY <2>1, <2>2
<1>11. CASE Tear(j)
  <2> DEFINE q == Moved(r, "queued", r.data, r.pick, "torn")
  <2>1. Becomes(j, q)
    BY <1>0, <1>11, RowForms
  <2>2. Placed(q) /\ Observed(q)
    BY <1>11, <1>a DEF Moved, Tear, Undecided, At, Sound, Placed, Observed
  <2> QED
    BY <1>a, <1>p, <1>b, <2>1, <2>2
<1>12. CASE Fail(j)
  BY <1>12, <1>c DEF Fail, GivesUp
<1> QED
  BY <1>1, <1>2, <1>3, <1>4, <1>5, <1>6, <1>7, <1>8, <1>9, <1>10, <1>11, <1>12
     DEF StepOf, JobStep

\* The document is replaced by what was observed of it.
LEMMA Replaced ==
  ASSUME IInv, NEW j \in Live, job[j].at = "commit", Matches(j), Replaces(j),
         edits' = edits
  PROVE  /\ item' \in Items /\ writer' = "treatment" /\ scans' \in Nat /\ ScanLeft'
         /\ job[j].of \in Eligible(item, TRUE)
<1>1. job[j].gen = item /\ item' = Target(j) /\ writer' = "treatment"
  BY DEF Matches, Replaces
<1>2. /\ Target(j) \in Items
      /\ job[j].of = "ai-identify" => item.ident \in Unseen /\ Target(j).ident \notin Unseen
      /\ job[j].of # "ai-identify" => Target(j).ident = item.ident
      /\ job[j].of \in Eligible(item, TRUE)
  BY <1>1, TargetKnown
<1>3. /\ scans \in Nat /\ edits \in Nat
      /\ scans + (IF item.ident \in Unseen THEN 1 ELSE 0) <= 1 + edits
  BY DEF IInv, TypeOK, ScanLeft
<1>4. CASE job[j].of = "ai-identify"
  <2>1. scans' = scans + 1
    BY <1>4 DEF Replaces
  <2>2. item.ident \in Unseen /\ item'.ident \notin Unseen
    BY <1>1, <1>2, <1>4
  <2>3. scans' \in Nat /\ scans' + 0 <= 1 + edits'
    BY <1>3, <2>1, <2>2
  <2>4. ScanLeft'
    BY <2>2, <2>3 DEF ScanLeft
  <2> QED
    BY <1>1, <1>2, <2>3, <2>4
<1>5. CASE job[j].of # "ai-identify"
  <2>1. scans' = scans
    BY <1>5 DEF Replaces
  <2> QED
    BY <1>1, <1>2, <1>3, <1>5, <2>1 DEF ScanLeft
<1> QED
  BY <1>4, <1>5

\* What a step does to the item and to the counts.
LEMMA RowEffect ==
  ASSUME IInv, NEW j \in Ids, StepOf(j)
  PROVE  /\ item' \in Items /\ photos' = photos /\ req' = req /\ edits' = edits
         /\ owed' \in BOOLEAN /\ lost' \subseteq Items
         /\ writer' \in {"operator", "treatment"} /\ scans' \in Nat /\ ScanLeft'
<1> USE DEF history, counts
<1>0. j \in Live
  BY StepLive
<1>1. photos' = photos /\ req' = req /\ edits' = edits
  BY DEF StepOf, JobStep, Resume, Observe, Skip, Refuse, Commit, Reconcile, Report,
         EvaluateEvent, EvaluateDispatch, Crash, Tear, Redeliver, Fail
<1>2. owed' \in BOOLEAN
  <2>1. owed \in BOOLEAN
    BY DEF IInv, TypeOK
  <2>2. owed' = owed \/ owed' = TRUE \/ owed' = FALSE
    BY DEF StepOf, JobStep, Resume, Observe, Skip, Refuse, Commit, Reconcile, Report,
           EvaluateEvent, EvaluateDispatch, Crash, Tear, Redeliver, Fail
  <2> QED
    BY <2>1, <2>2, Zenon
<1>3. lost' \subseteq Items
  <2>1. lost \subseteq Items
    BY DEF IInv, TypeOK
  <2>2. CASE lost' = lost
    BY <2>1, <2>2
  <2>3. CASE GivesUp(j)
    BY <1>0, <2>1, <2>3, AbandonedItems DEF GivesUp
  <2>4. CASE EvaluateDispatch(j)
    <3>1. job[j].data \in Items
      BY <1>0, <2>4, Evaluates
    <3> QED
      BY <2>1, <2>4, <3>1 DEF EvaluateDispatch, Dispatch
  <2> QED
    BY <2>2, <2>3, <2>4
       DEF StepOf, JobStep, Resume, Observe, Skip, Refuse, Commit, Reconcile, Report,
           EvaluateEvent, Crash, Tear, Redeliver, Fail
<1>4. /\ item' \in Items /\ writer' \in {"operator", "treatment"}
      /\ scans' \in Nat /\ ScanLeft'
  <2>1. CASE UNCHANGED <<item, writer, scans>>
    BY <1>1, <2>1 DEF IInv, TypeOK, ScanLeft
  <2>2. CASE Matches(j) /\ Replaces(j) /\ job[j].at = "commit"
    BY <1>0, <1>1, <2>2, Replaced
  <2>3. Commit(j) => \/ UNCHANGED <<item, writer, scans>>
                     \/ Matches(j) /\ Replaces(j) /\ job[j].at = "commit"
    BY DEF Commit, Undecided, At
  <2>4. Tear(j) => Matches(j) /\ Replaces(j) /\ job[j].at = "commit"
    BY DEF Tear, Undecided, At
  <2>5. Commit(j) \/ Tear(j) \/ UNCHANGED <<item, writer, scans>>
    BY DEF StepOf, JobStep, Resume, Observe, Skip, Refuse, Reconcile, Report,
           EvaluateEvent, EvaluateDispatch, Crash, Redeliver, Fail
  <2> QED
    BY <2>1, <2>2, <2>3, <2>4, <2>5
<1> QED
  BY <1>1, <1>2, <1>3, <1>4

\* Every step keeps the invariant.
LEMMA Step ==
  ASSUME IInv, [Next]_vars
  PROVE  IInv'
<1>1. CASE Request
  <2>1. Live' = Live /\ job' = job /\ item' = item /\ photos' = photos
    BY <1>1 DEF Request, Live
  <2>2. owed' \in BOOLEAN
    BY <1>1, Zenon DEF Request
  <2>3. \/ req' = NoItem
        \/ \E f \in Treatments : /\ req' = [gen |-> item, pick |-> f]
                                 /\ f \in Eligible(item, TRUE)
    BY <1>1, FirstEligible DEF Request
  <2>4. req' \in Choices \cup {NoItem} /\ RequestSound'
    <3>1. item \in Items
      BY DEF IInv, TypeOK
    <3>2. CASE req' = NoItem
      BY <3>2 DEF RequestSound
    <3>3. ASSUME NEW f \in Treatments, req' = [gen |-> item, pick |-> f],
                 f \in Eligible(item, TRUE)
          PROVE  req' \in Choices \cup {NoItem} /\ RequestSound'
      BY <3>1, <3>3 DEF Choices, RequestSound
    <3> QED
      BY <2>3, <3>2, <3>3
  <2>5. TypeOK'
    BY <1>1, <2>1, <2>2, <2>4 DEF Request, IInv, TypeOK
  <2>6. RowsSound' /\ OneActive'
    BY <2>1 DEF IInv, RowsSound, OneActive
  <2>7. ScanLeft'
    BY <1>1 DEF Request, IInv, ScanLeft
  <2> QED
    BY <2>4, <2>5, <2>6, <2>7 DEF IInv
<1>2. CASE RequestDispatch
  <2>1. /\ req.gen \in Items /\ req.pick \in Treatments
        /\ req.pick \in Eligible(req.gen, TRUE)
    BY <1>2 DEF RequestDispatch, IInv, TypeOK, RequestSound, Choices
  <2>2. Dispatch(req.pick, req.gen, "operator", job)
    BY <1>2 DEF RequestDispatch
  <2>3. Inserts(req.pick, req.gen, "operator", job) \/ job' = job
    BY <2>2 DEF Dispatch
  <2>4. job \in [Ids -> JobRows \cup {NoJob}] /\ \A k \in Ids : Own(k, job[k])
    BY DEF IInv, TypeOK, Own
  <2>5. job' \in [Ids -> JobRows \cup {NoJob}] /\ RowsSound' /\ OneActive'
    BY <2>1, <2>3, <2>4, DispatchStep
  <2>6. lost' \subseteq Items
    BY <2>1, <2>2 DEF Dispatch, IInv, TypeOK
  <2>7. TypeOK' /\ RequestSound' /\ ScanLeft'
    BY <1>2, <2>5, <2>6 DEF RequestDispatch, IInv, TypeOK, RequestSound, ScanLeft
  <2> QED
    BY <2>5, <2>7 DEF IInv
<1>3. CASE Edit
  <2>1. Live' = Live /\ job' = job /\ req' = req
    BY <1>3 DEF Edit, Live
  <2>2. item' \in Items
    <3>1. item \in Items
      BY DEF IInv, TypeOK
    <3>2. /\ [item EXCEPT !.available = ~@] \in Items
          /\ [item EXCEPT !.condition = "alias"] \in Items
          /\ [item EXCEPT !.draft = "none"] \in Items
          /\ [item EXCEPT !.ident = "redo"] \in Items
      BY <3>1, ItemsClosed
    <3> QED
      BY <1>3, <3>1, <3>2, Zenon DEF Edit
  <2>3. photos' \in BOOLEAN
    BY <1>3, Zenon DEF Edit, IInv, TypeOK
  <2>4. TypeOK'
    BY <1>3, <2>2, <2>3 DEF Edit, IInv, TypeOK
  <2>5. RowsSound' /\ OneActive' /\ RequestSound'
    BY <2>1 DEF IInv, RowsSound, OneActive, RequestSound
  <2>6. ScanLeft'
    BY <1>3 DEF Edit, IInv, TypeOK, ScanLeft
  <2> QED
    BY <2>4, <2>5, <2>6 DEF IInv
<1>4. ASSUME NEW j \in Ids, StepOf(j)
      PROVE  IInv'
  <2>1. job' \in [Ids -> JobRows \cup {NoJob}] /\ RowsSound' /\ OneActive'
    BY <1>4, RowInv
  <2>2. /\ item' \in Items /\ photos' = photos /\ req' = req /\ edits' = edits
        /\ owed' \in BOOLEAN /\ lost' \subseteq Items
        /\ writer' \in {"operator", "treatment"} /\ scans' \in Nat /\ ScanLeft'
    BY <1>4, RowEffect
  <2>3. TypeOK'
    BY <2>1, <2>2 DEF IInv, TypeOK
  <2>4. RequestSound'
    BY <2>2 DEF IInv, RequestSound
  <2> QED
    BY <2>1, <2>2, <2>3, <2>4 DEF IInv
<1>5. CASE UNCHANGED vars
  BY <1>5 DEF vars, history, counts, IInv, TypeOK, RowsSound, RequestSound,
              OneActive, ScanLeft, Live
<1> QED
  BY <1>1, <1>2, <1>3, <1>4, <1>5 DEF Next, StepOf

\* The invariant holds.
LEMMA Inductive == Spec => []IInv
BY InitInv, Step, PTL DEF Spec

-----------------------------------------------------------------------------
\* Why the chain does not stop.  No row and no request knows a document with a
\* later stamp than the item's.
Past(r, i) ==
  /\ r.gen.stamp <= i.stamp
  /\ r.of = "evaluate" /\ r.data # NoItem => r.data.stamp <= i.stamp

NothingNewer ==
  /\ \A j \in Live : Past(job[j], item)
  /\ req # NoItem => req.gen.stamp <= item.stamp

\* The document that a row makes, and whether it has.
Makes(r) == IF r.of = "normalize-condition" THEN [r.gen EXCEPT !.condition = "valid"]
            ELSE r.data

Applied(r) == r.receipt \notin {"none", "conflict", "failed"}

\* What a row has made has a later stamp than what it was made of, unless it is
\* a normalised condition.
AppliedPast ==
  \A j \in Live : Applied(job[j]) /\ job[j].of # "normalize-condition"
                     => job[j].gen.stamp < item.stamp

\* An item that a treatment wrote last is not one that a live row has worked on.
Untried ==
  writer = "treatment" =>
    \A j \in Live : Applied(job[j]) => job[j].gen # item

\* Nothing more happens to the item by itself, and ChainCompletes says why.
Resting(i, p, given) ==
  \/ Eligible(i, p) = {}
  \/ AlreadyIdentified(First(i, p), i)
  \/ i \in given

\* The row that brings the next treatment about: that treatment; the one whose
\* result the item is; its event; the evaluation of the item.
Carries(r, i, p) ==
  \/ r.of \in Treatments /\ r.of = First(i, p) /\ r.gen = i
  \/ r.of \in Treatments /\ Applied(r) /\ Makes(r) = i /\ r.gen # i
  \/ r.of = "evaluate" /\ r.at = "queued" /\ r.gen # i
  \/ /\ r.of = "evaluate" /\ r.at = "evaluated" /\ r.gen # i
     /\ r.data = i /\ r.pick = First(i, p)

Carried ==
  writer = "treatment" =>
    \/ Resting(item, photos, lost)
    \/ \E j \in Live : Carries(job[j], item, photos)

CarryInv == NothingNewer /\ AppliedPast /\ Untried /\ Carried

\* What a row makes is what its worker hands to mutate_item.
LEMMA MakesTarget == ASSUME NEW j PROVE Target(j) = Makes(job[j])
BY DEF Target, Makes

\* Whoever gives up a row that carried the chain says so.
LEMMA AbandonedCarries ==
  ASSUME IInv, NEW j \in Live, Carries(job[j], item, photos)
  PROVE  item \in Abandoned(j)
<1> DEFINE r == job[j]
<1>0. Sound(r)
  BY DEF IInv, RowsSound
<1>1. CASE r.of \in Treatments /\ r.gen = item
  <2>1. r.of # "evaluate"
    BY <1>1, TreatmentsAre
  <2>2. CASE r.receipt \in {"none", "conflict", "failed"}
    <3>1. Abandoned(j) = {r.gen}
      BY <2>1, <2>2 DEF Abandoned
    <3> QED
      BY <1>1, <3>1
  <2>3. CASE r.receipt \notin {"none", "conflict", "failed"}
    <3>1. Abandoned(j) = {r.gen, Target(j)}
      BY <2>1, <2>3 DEF Abandoned
    <3> QED
      BY <1>1, <3>1
  <2> QED
    BY <2>2, <2>3
<1>2. CASE r.of \in Treatments /\ Applied(r) /\ Makes(r) = item
  <2>1. r.of # "evaluate" /\ r.receipt \notin {"none", "conflict", "failed"}
    BY <1>2, TreatmentsAre DEF Applied
  <2>2. Abandoned(j) = {r.gen, Target(j)}
    BY <2>1 DEF Abandoned
  <2> QED
    BY <1>2, <2>2, MakesTarget
<1>3. CASE r.of = "evaluate" /\ (r.at = "queued" \/ r.data = item)
  <2>1. Abandoned(j) = {IF r.at = "queued" THEN item ELSE r.data}
    BY <1>3 DEF Abandoned
  <2> QED
    BY <1>3, <2>1
<1> QED
  BY <1>1, <1>2, <1>3 DEF Carries

\* A step of one row that leaves the item alone: if it carried the chain, it
\* still does, or the item rests.
LEMMA KeepStep ==
  ASSUME IInv, CarryInv, NEW j \in Live, NEW q, job' = [job EXCEPT ![j] = q],
         item' = item, photos' = photos, writer' = writer, req' = req,
         lost \subseteq lost',
         q # NoJob => Past(q, item),
         q # NoJob /\ Applied(q) =>
           Applied(job[j]) /\ q.of = job[j].of /\ q.gen = job[j].gen,
         writer = "treatment" /\ Carries(job[j], item, photos) =>
           Resting(item, photos, lost') \/ (q # NoJob /\ Carries(q, item, photos))
  PROVE  CarryInv'
<1>0. job \in [Ids -> JobRows \cup {NoJob}] /\ j \in Ids
  BY DEF IInv, TypeOK, Live
<1>1. /\ \A k \in Live' : \/ k = j /\ q # NoJob /\ job'[k] = q
                          \/ k # j /\ k \in Live /\ job'[k] = job[k]
      /\ \A k \in Live : k # j => k \in Live' /\ job'[k] = job[k]
      /\ q # NoJob => j \in Live' /\ job'[j] = q
  BY <1>0 DEF Live
<1>2. NothingNewer'
  BY <1>1 DEF CarryInv, NothingNewer
<1>3. AppliedPast'
  BY <1>1 DEF CarryInv, AppliedPast
<1>4. Untried'
  BY <1>1 DEF CarryInv, Untried
<1>5. Carried'
  <2> SUFFICES ASSUME writer = "treatment", ~Resting(item, photos, lost')
               PROVE  \E k \in Live' : Carries(job'[k], item, photos)
    BY DEF Carried
  <2>1. ~Resting(item, photos, lost)
    BY DEF Resting
  <2>2. PICK k \in Live : Carries(job[k], item, photos)
    BY <2>1 DEF CarryInv, Carried
  <2> QED
    BY <1>1, <2>2
<1> QED
  BY <1>2, <1>3, <1>4, <1>5 DEF CarryInv

\* A row ends; if it carried the chain, it is on record.
LEMMA EndStep ==
  ASSUME IInv, CarryInv, NEW j \in Live, GivesUp(j),
         item' = item, photos' = photos, writer' = writer, req' = req
  PROVE  CarryInv'
<1>1. job' = [job EXCEPT ![j] = NoJob] /\ lost' = lost \cup Abandoned(j)
  BY DEF GivesUp, Ends, Becomes
<1>2. Carries(job[j], item, photos) => Resting(item, photos, lost')
  BY <1>1, AbandonedCarries DEF Resting
<1> QED
  BY <1>1, <1>2, KeepStep

\* dispatch_treatment: rows keep what they carry, and if the document is the
\* item, the dispatched row carries the chain, or the failed insert is on record.
LEMMA DispatchKeep ==
  ASSUME IInv, CarryInv, NEW t \in Treatments, NEW g \in Items,
         g.stamp <= item.stamp, NEW by,
         NEW rows \in [Ids -> JobRows \cup {NoJob}], \A k \in Ids : Own(k, rows[k]),
         \A k \in Live : /\ Carries(job[k], item, photos) /\ rows[k] # job[k]
                         => t = First(item, photos) /\ g = item,
         \/ Inserts(t, g, by, rows) /\ lost' = lost
         \/ job' = rows /\ lost' = lost \cup {g},
         item' = item, photos' = photos, writer' = writer, req' \in {req, NoItem}
  PROVE  CarryInv'
<1>1. /\ Row(t, g).of = t /\ Row(t, g).gen = g /\ ~Applied(Row(t, g))
      /\ Past(Row(t, g), item) /\ Row(t, g) # NoJob
      /\ t = First(item, photos) /\ g = item => Carries(Row(t, g), item, photos)
  <2>1. Row(t, g) \in JobRows
    BY DEF Row, JobRows, Places, Receipts
  <2> QED
    BY <2>1, TreatmentsAre, NamesAssumption DEF Row, Past, Carries, Applied
<1>2. lost \subseteq lost'
  OBVIOUS
<1>3. ASSUME NEW k \in Ids, rows[k] # NoJob
      PROVE  /\ k \in Live /\ Past(rows[k], item)
             /\ Applied(rows[k]) => rows[k] = job[k]
  <2>1. k \in Live
    BY <1>3 DEF Own, Live
  <2>2. Past(job[k], item)
    BY <2>1 DEF CarryInv, NothingNewer
  <2>3. CASE rows[k] = job[k]
    BY <2>1, <2>2, <2>3
  <2>4. CASE rows[k] = Row("evaluate", job[k].gen)
    BY <2>1, <2>2, <2>4 DEF Row, Past, Applied
  <2> QED
    BY <1>3, <2>3, <2>4 DEF Own
<1>4. /\ \A k \in Live' : job'[k] = Row(t, g)
                          \/ (k \in Ids /\ rows[k] # NoJob /\ job'[k] = rows[k])
      /\ \A k \in Ids : k \in Live /\ rows[k] # NoJob => k \in Live' /\ job'[k] = rows[k]
  <2>1. CASE job' = rows
    BY <2>1 DEF Live
  <2>2. ASSUME NEW l \in Ids \ Live, job' = [rows EXCEPT ![l] = Row(t, g)]
        PROVE  /\ \A k \in Live' : job'[k] = Row(t, g)
                                   \/ (k \in Ids /\ rows[k] # NoJob /\ job'[k] = rows[k])
               /\ \A k \in Ids : k \in Live /\ rows[k] # NoJob =>
                                   k \in Live' /\ job'[k] = rows[k]
    BY <1>1, <2>2 DEF Live
  <2> QED
    BY <2>1, <2>2 DEF Inserts
<1>5. NothingNewer'
  BY <1>1, <1>3, <1>4 DEF CarryInv, NothingNewer
<1>6. AppliedPast'
  BY <1>1, <1>3, <1>4 DEF CarryInv, AppliedPast
<1>7. Untried'
  BY <1>1, <1>3, <1>4 DEF CarryInv, Untried
<1>8. Carried'
  <2> SUFFICES ASSUME writer = "treatment", ~Resting(item, photos, lost')
               PROVE  \E k \in Live' : Carries(job'[k], item, photos)
    BY DEF Carried
  <2>1. ~Resting(item, photos, lost)
    BY <1>2 DEF Resting
  <2>2. PICK k \in Live : Carries(job[k], item, photos)
    BY <2>1 DEF CarryInv, Carried
  <2>3. CASE rows[k] = job[k]
    BY <1>4, <2>2, <2>3 DEF Live
  <2>4. CASE t = First(item, photos) /\ g = item
    <3>1. CASE \E l \in Ids : SameKey(l, t, g, by)
      <4>1. PICK l \in Live : job[l].of = t /\ job[l].gen = g
        BY <3>1 DEF SameKey
      <4>2. rows[l] = job[l] /\ l \in Ids /\ job[l] # NoJob
        BY <4>1, TreatmentsAre DEF Own, Live
      <4>3. Carries(job[l], item, photos)
        BY <2>4, <4>1 DEF Carries
      <4> QED
        BY <1>4, <4>1, <4>2, <4>3
    <3>2. CASE \E l \in Ids \ Live : job' = [rows EXCEPT ![l] = Row(t, g)]
      <4>1. PICK l \in Ids \ Live : job' = [rows EXCEPT ![l] = Row(t, g)]
        BY <3>2
      <4>2. l \in Live' /\ job'[l] = Row(t, g)
        BY <1>1, <4>1 DEF Live
      <4> QED
        BY <1>1, <2>4, <4>2
    <3>3. CASE lost' = lost \cup {g}
      BY <2>4, <3>3 DEF Resting
    <3> QED
      BY <3>1, <3>2, <3>3 DEF Inserts
  <2> QED
    BY <2>2, <2>3, <2>4
<1> QED
  BY <1>5, <1>6, <1>7, <1>8 DEF CarryInv

\* A result becomes the item: its row carries the chain.
LEMMA ReplaceStep ==
  ASSUME IInv, CarryInv, NEW j \in Live, job[j].at = "commit", Matches(j), Replaces(j),
         NEW q, job' = [job EXCEPT ![j] = q], q # NoJob, Applied(q),
         q.of = job[j].of, q.gen = job[j].gen, q.data = job[j].data,
         photos' = photos, req' = req
  PROVE  CarryInv'
<1> DEFINE r == job[j]
<1>0. /\ Sound(r) /\ r \in JobRows /\ job \in [Ids -> JobRows \cup {NoJob}]
      /\ item \in Items /\ r.of \in Treatments /\ j \in Ids /\ r.gen = item
      /\ r.of # "normalize-condition" => r.data \in Items /\ r.data # NoItem
  BY DEF IInv, RowsSound, Sound, TypeOK, Placed, JobRows, Live, Matches
<1>1. item' = Makes(r) /\ item' \in Items /\ writer' = "treatment"
  BY MakesTarget, TargetKnown DEF Replaces
<1>2. /\ \A k \in Live' : /\ k \in Live /\ job'[k].gen = job[k].gen
                          /\ job'[k].of = job[k].of /\ job'[k].data = job[k].data
                          /\ k # j => job'[k] = job[k]
      /\ j \in Live' /\ job'[j] = q
  BY <1>0 DEF Live
<1>3. /\ item.stamp \in Nat /\ item'.stamp \in Nat
      /\ req # NoItem => req.gen.stamp \in Nat /\ req.gen.stamp <= item.stamp
      /\ \A k \in Live : /\ job[k].gen.stamp \in Nat /\ job[k].gen.stamp <= item.stamp
                         /\ job[k].of = "evaluate" /\ job[k].data # NoItem =>
                              job[k].data.stamp \in Nat /\ job[k].data.stamp <= item.stamp
  BY <1>0, <1>1 DEF IInv, TypeOK, RowsSound, Sound, JobRows, Items, Choices, CarryInv,
                    NothingNewer, Past
<1>4. \/ r.of = "normalize-condition" /\ item'.condition = "valid"
         /\ item'.stamp = item.stamp
      \/ r.of # "normalize-condition" /\ item'.stamp = item.stamp + 1
  <2>1. CASE r.of = "normalize-condition"
    <3>1. item' = [item EXCEPT !.condition = "valid"]
      BY <1>0, <1>1, <2>1 DEF Makes
    <3> QED
      BY <1>0, <2>1, <3>1, ItemsClosed
  <2>2. CASE r.of # "normalize-condition"
    BY <1>0, <1>1, <2>2 DEF Makes, Sound, Observed
  <2> QED
    BY <2>1, <2>2
<1>5. NothingNewer'
  BY <1>2, <1>3, <1>4 DEF NothingNewer, Past
<1>6. AppliedPast'
  <2> SUFFICES ASSUME NEW k \in Live', Applied(job'[k]),
                      job'[k].of # "normalize-condition"
               PROVE  job'[k].gen.stamp < item'.stamp
    BY DEF AppliedPast
  <2>1. CASE k = j
    BY <1>0, <1>2, <1>3, <1>4, <2>1
  <2>2. CASE k # j
    <3>1. job[k].gen.stamp < item.stamp
      BY <1>2, <2>2 DEF CarryInv, AppliedPast
    <3> QED
      BY <1>2, <1>3, <1>4, <2>2, <3>1
  <2> QED
    BY <2>1, <2>2
<1>7. \A k \in Live' : Applied(job'[k]) => job'[k].gen # item'
  <2> SUFFICES ASSUME NEW k \in Live', Applied(job'[k]), job'[k].gen = item'
               PROVE  FALSE
    OBVIOUS
  <2>1. job'[k].of = "normalize-condition"
    BY <1>2, <1>3, <1>6 DEF AppliedPast
  <2>2. job[k].gen.condition = "alias"
    <3>1. Sound(job[k]) /\ job[k].of = "normalize-condition"
      BY <1>2, <2>1 DEF IInv, RowsSound
    <3> QED
      BY <3>1, TreatmentsAre DEF Sound, Eligible, Requirements
  <2> QED
    BY <1>2, <1>3, <1>4, <2>2
<1>8. Untried'
  BY <1>7 DEF Untried
<1>9. Carried'
  <2>1. Makes(q) = item'
    BY <1>1 DEF Makes
  <2>2. q.gen # item'
    BY <1>2, <1>7
  <2>3. Carries(q, item', photos')
    BY <1>0, <2>1, <2>2 DEF Carries
  <2> QED
    BY <1>2, <2>3 DEF Carried
<1> QED
  BY <1>5, <1>6, <1>8, <1>9 DEF CarryInv

\* The chain goes on, action by action.
LEMMA RowCarries ==
  ASSUME IInv, CarryInv, NEW j \in Ids, StepOf(j)
  PROVE  CarryInv'
<1> DEFINE r == job[j]
<1> USE DEF history, counts
<1>0. j \in Live
  BY StepLive
<1>a. /\ Sound(r) /\ r \in JobRows /\ Past(r, item) /\ item \in Items
      /\ r.gen \in Items /\ r.data \in Items \cup {NoItem}
      /\ r.pick \in Treatments \cup {"none"} /\ r.receipt \in Receipts /\ r.at \in Places
  BY <1>0 DEF IInv, RowsSound, Sound, TypeOK, JobRows, CarryInv, NothingNewer
<1>b. /\ "queued" \in Places /\ "commit" \in Places /\ "evaluated" \in Places
      /\ "torn" \in Receipts /\ "committed" \in Receipts
  BY DEF Places, Receipts
<1>c. ASSUME NEW a \in Places, NEW c \in Receipts, r.of \in Treatments,
             Becomes(j, Moved(r, a, r.data, r.pick, c)),
             Applied(r) <=> c \notin {"none", "conflict", "failed"},
             item' = item, photos' = photos, writer' = writer, req' = req, lost' = lost
      PROVE  CarryInv'
  <2> DEFINE q == Moved(r, a, r.data, r.pick, c)
  <2>1. q.of = r.of /\ q.gen = r.gen /\ q.data = r.data /\ q.receipt = c
    BY DEF Moved
  <2>2. q # NoJob
    BY <1>a, NamesAssumption DEF Moved, JobRows
  <2>3. job' = [job EXCEPT ![j] = q]
    BY <1>c DEF Becomes
  <2> HIDE DEF q
  <2>4. Applied(q) <=> Applied(r)
    BY <1>c, <2>1 DEF Applied
  <2>5. Makes(q) = Makes(r)
    BY <2>1 DEF Makes
  <2>6. Past(q, item)
    BY <1>a, <2>1 DEF Past
  <2>7. Carries(r, item, photos) => Carries(q, item, photos)
    BY <1>c, <2>1, <2>4, <2>5, TreatmentsAre DEF Carries
  <2> QED
    BY <1>0, <1>c, <2>1, <2>2, <2>3, <2>4, <2>6, <2>7, KeepStep
<1>d. ASSUME Becomes(j, Row("evaluate", r.gen)),
             r.of = "evaluate" \/ ~(r.of = First(item, photos) /\ r.gen = item
                                    /\ writer = "treatment"),
             item' = item, photos' = photos, writer' = writer, req' = req, lost' = lost
      PROVE  CarryInv'
  <2> DEFINE q == Row("evaluate", r.gen)
  <2>1. /\ q.of = "evaluate" /\ q.gen = r.gen /\ q.data = NoItem /\ q.at = "queued"
        /\ q.receipt = "none"
    BY DEF Row
  <2>2. q # NoJob
    BY <1>a, NewRowSound, TreatmentsAre
  <2>3. job' = [job EXCEPT ![j] = q]
    BY <1>d DEF Becomes
  <2> HIDE DEF q
  <2>4. Past(q, item) /\ ~Applied(q)
    BY <1>a, <2>1 DEF Past, Applied
  <2>5. writer = "treatment" /\ Carries(r, item, photos) => Carries(q, item, photos)
    BY <1>d, <2>1, TreatmentsAre DEF Carries
  <2> QED
    BY <1>0, <1>d, <2>2, <2>3, <2>4, <2>5, KeepStep
<1>1. CASE Resume(j)
  <2>1. Becomes(j, Moved(r, "commit", r.data, r.pick, r.receipt))
    BY <1>0, <1>1, RowForms
  <2>2. Applied(r) <=> r.receipt \notin {"none", "conflict", "failed"}
    BY DEF Applied
  <2>3. r.of \in Treatments /\ UNCHANGED <<item, photos, writer, req, lost>>
    BY <1>1 DEF Resume
  <2> QED
    BY <1>a, <1>b, <1>c, <2>1, <2>2, <2>3
<1>2. CASE Observe(j)
  <2>1. PICK d \in Results(r.of, r.gen) :
          Becomes(j, Moved(r, "commit", d, r.pick, r.receipt))
    BY <1>0, <1>2, RowForms
  <2> DEFINE q == Moved(r, "commit", d, r.pick, r.receipt)
  <2>2. q.of = r.of /\ q.gen = r.gen /\ q.receipt = r.receipt
    BY DEF Moved
  <2>3. r.of \in Treatments \ {"normalize-condition"} /\ r.gen = item
    BY <1>2 DEF Observe, Begins
  <2>4. d \in Items
    BY <1>a, <2>1, <2>3, ResultsClosed
  <2>5. q # NoJob
    BY <1>a, <1>b, <2>4, NamesAssumption DEF Moved, JobRows
  <2>6. job' = [job EXCEPT ![j] = q]
    BY <2>1 DEF Becomes
  <2> HIDE DEF q
  <2>7. Past(q, item) /\ (Applied(q) => Applied(r))
    BY <1>a, <2>2, <2>3, TreatmentsAre DEF Past, Applied
  <2>8. Carries(r, item, photos) => Carries(q, item, photos)
    BY <2>2, <2>3, TreatmentsAre DEF Carries
  <2>9. UNCHANGED <<item, photos, writer, req, lost>>
    BY <1>2 DEF Observe
  <2> QED
    BY <1>0, <2>2, <2>5, <2>6, <2>7, <2>8, <2>9, KeepStep
<1>3. CASE Skip(j)
  <2>1. /\ r.of \in Treatments /\ r.gen = item /\ AlreadyIdentified(r.of, item)
        /\ job' = [job EXCEPT ![j] = NoJob] /\ UNCHANGED <<item, photos, writer, req, lost>>
    BY <1>3 DEF Skip, Begins, Ends, Becomes
  <2>2. Carries(r, item, photos) => r.of = First(item, photos)
    BY <2>1, TreatmentsAre DEF Carries
  <2>3. Carries(r, item, photos) => Resting(item, photos, lost')
    BY <2>1, <2>2 DEF Resting
  <2> QED
    BY <1>0, <2>1, <2>3, KeepStep
<1>4. CASE Refuse(j)
  BY <1>0, <1>4, EndStep DEF Refuse
<1>5. CASE Commit(j)
  <2>0. /\ r.at = "commit" /\ r.receipt \in {"none", "torn"}
        /\ UNCHANGED <<photos, req, lost>>
    BY <1>0, <1>5, CommitForms DEF Commit
  <2>1. PICK c \in Receipts \ {"none", "torn"} :
          /\ Becomes(j, Moved(r, "commit", r.data, r.pick, c))
          /\ \/ Matches(j) /\ Replaces(j) /\ c \in {"committed", "repair", "unread"}
             \/ Answers(j, c)
    BY <1>0, <1>5, CommitForms
  <2>2. r.of \in Treatments
    BY <1>a, <2>0 DEF Sound, Placed
  <2> DEFINE q == Moved(r, "commit", r.data, r.pick, c)
  <2>3. /\ q.of = r.of /\ q.gen = r.gen /\ q.data = r.data /\ q.receipt = c
    BY DEF Moved
  <2>4. q # NoJob
    <3>1. c \in Receipts
      OBVIOUS
    <3> QED
      BY <1>a, <1>b, <3>1, NamesAssumption DEF Moved, JobRows
  <2>5. job' = [job EXCEPT ![j] = q]
    BY <2>1 DEF Becomes
  <2>6. CASE Matches(j) /\ Replaces(j) /\ c \in {"committed", "repair", "unread"}
    <3> HIDE DEF q
    <3>1. Applied(q)
      BY <2>3, <2>6 DEF Applied
    <3> QED
      BY <1>0, <2>0, <2>3, <2>4, <2>5, <2>6, <3>1, ReplaceStep
  <2>7. CASE Answers(j, c) /\ c # "conflict"
    <3>1. /\ UNCHANGED <<item, writer>>
          /\ Applied(r) <=> c \notin {"none", "conflict", "failed"}
      BY <2>0, <2>7 DEF Answers, Applied
    <3> QED
      BY <1>a, <1>b, <1>c, <2>0, <2>1, <2>2, <3>1
  <2>8. CASE Answers(j, c) /\ c = "conflict"
    <3>1. UNCHANGED <<item, writer>> /\ ~Published(j)
      BY <2>8 DEF Answers
    <3> HIDE DEF q
    <3>2. Past(q, item) /\ ~Applied(q)
      BY <1>a, <2>3, <2>8 DEF Past, Applied
    <3>3. Applied(r) => Makes(r) # item
      BY <2>0, <3>1, MakesTarget DEF Published, Applied
    <3>4. Carries(r, item, photos) => Carries(q, item, photos)
      BY <2>2, <2>3, <3>3, TreatmentsAre DEF Carries
    <3> QED
      BY <1>0, <2>0, <2>4, <2>5, <3>1, <3>2, <3>4, KeepStep
  <2> QED
    BY <2>1, <2>6, <2>7, <2>8
<1>6. CASE Reconcile(j)
  <2>0. UNCHANGED <<item, photos, writer, req>> /\ r.receipt = "repair" /\ r.at = "commit"
    BY <1>6 DEF Reconcile, At
  <2>1. CASE Records(j, "committed") /\ lost' = lost
    <3>1. Becomes(j, Moved(r, "commit", r.data, r.pick, "committed"))
      BY <1>0, <1>b, <2>0, <2>1, RowForms
    <3>2. Applied(r) <=> "committed" \notin {"none", "conflict", "failed"}
      BY <2>0 DEF Applied
    <3>3. r.of \in Treatments
      BY <1>a, <2>0 DEF Sound, Placed
    <3> QED
      BY <1>b, <1>c, <2>0, <2>1, <3>1, <3>2, <3>3
  <2>2. CASE GivesUp(j)
    BY <1>0, <2>0, <2>2, EndStep
  <2> QED
    BY <1>6, <2>1, <2>2 DEF Reconcile
<1>7. CASE Report(j)
  <2>0. UNCHANGED <<item, photos, writer, req>>
    BY <1>7 DEF Report
  <2>1. CASE /\ r.receipt = "committed" /\ lost' = lost
             /\ Becomes(j, Row("evaluate", r.gen))
    <3>1. writer = "treatment" => r.gen # item
      BY <1>0, <2>1 DEF CarryInv, Untried, Applied
    <3> QED
      BY <1>d, <2>0, <2>1, <3>1
  <2>2. CASE GivesUp(j)
    BY <1>0, <2>0, <2>2, EndStep
  <2> QED
    BY <1>7, <2>1, <2>2 DEF Report
<1>8. CASE EvaluateEvent(j)
  <2>0. /\ r.of = "evaluate" /\ r.at = "queued" /\ r.of \notin Treatments
        /\ UNCHANGED <<item, photos, writer, req, lost>>
    BY <1>8, TreatmentsAre DEF EvaluateEvent, At
  <2>1. CASE (item = r.gen \/ Eligible(item, photos) = {}) /\ Ends(j)
    <3>1. job' = [job EXCEPT ![j] = NoJob]
      BY <2>1 DEF Ends, Becomes
    <3>2. Carries(r, item, photos) => Resting(item, photos, lost')
      BY <2>0, <2>1 DEF Carries, Resting
    <3> QED
      BY <1>0, <2>0, <3>1, <3>2, KeepStep
  <2>2. CASE item # r.gen /\ Eligible(item, photos) # {}
    <3>1. PICK f \in Treatments : f = First(item, photos)
      BY <2>2, FirstEligible
    <3> DEFINE q == Moved(r, "evaluated", item, f, r.receipt)
    <3>2. job' = [job EXCEPT ![j] = q]
      BY <1>0, <1>8, <2>2, <3>1, RowForms DEF Becomes
    <3>3. /\ q.of = r.of /\ q.gen = r.gen /\ q.data = item /\ q.at = "evaluated"
          /\ q.pick = f /\ q.receipt = r.receipt
      BY DEF Moved
    <3>4. q # NoJob
      BY <1>a, <1>b, NamesAssumption DEF Moved, JobRows
    <3> HIDE DEF q
    <3>5. Past(q, item)
      BY <1>a, <3>3 DEF Past, Items
    <3>6. Carries(q, item, photos)
      BY <2>0, <2>2, <3>1, <3>3 DEF Carries
    <3>7. Applied(q) => Applied(r)
      BY <3>3 DEF Applied
    <3> QED
      BY <1>0, <2>0, <3>2, <3>3, <3>4, <3>5, <3>6, <3>7, KeepStep
  <2> QED
    BY <1>8, <2>1, <2>2 DEF EvaluateEvent
<1>9. CASE EvaluateDispatch(j) \/ Redeliver(j)
  <2>1. PICK row \in {NoJob, Row("evaluate", r.gen)} :
          /\ [job EXCEPT ![j] = row] \in [Ids -> JobRows \cup {NoJob}]
          /\ \A k \in Ids : Own(k, [job EXCEPT ![j] = row][k])
          /\ \/ /\ Inserts(r.pick, r.data, "evaluator", [job EXCEPT ![j] = row])
                /\ lost' = lost
             \/ /\ job' = [job EXCEPT ![j] = row]
                /\ lost' = lost \cup {r.data}
    BY <1>0, <1>9, Evaluates
  <2>2. r.of = "evaluate" /\ r.at = "evaluated" /\ r.data \in Items /\ r.pick \in Treatments
    BY <1>0, <1>9, Evaluates
  <2>3. r.data.stamp <= item.stamp
    BY <1>a, <2>2, NamesAssumption DEF Past
  <2>4. Carries(r, item, photos) => r.pick = First(item, photos) /\ r.data = item
    BY <2>2, TreatmentsAre DEF Carries
  <2>5. UNCHANGED <<item, photos, writer, req>>
    BY <1>9 DEF EvaluateDispatch, Redeliver
  <2> DEFINE rows == [job EXCEPT ![j] = row]
  <2>6. \A k \in Live : Carries(job[k], item, photos) /\ rows[k] # job[k] =>
                          r.pick = First(item, photos) /\ r.data = item
    BY <2>4 DEF IInv, TypeOK, Live
  <2>7. /\ rows \in [Ids -> JobRows \cup {NoJob}] /\ \A k \in Ids : Own(k, rows[k])
        /\ \/ Inserts(r.pick, r.data, "evaluator", rows) /\ lost' = lost
           \/ job' = rows /\ lost' = lost \cup {r.data}
    BY <2>1
  <2> HIDE DEF rows
  <2> QED
    BY <2>2, <2>3, <2>5, <2>6, <2>7, DispatchKeep
<1>10. CASE Crash(j)
  <2>0. UNCHANGED <<item, photos, writer, req, lost>>
    BY <1>10 DEF Crash
  <2>1. CASE r.of = "evaluate"
    BY <1>0, <1>10, <1>d, <2>0, <2>1, RowForms
  <2>2. CASE r.of # "evaluate"
    <3>1. Becomes(j, Moved(r, "queued", r.data, r.pick, r.receipt))
      BY <1>0, <1>10, <2>2, RowForms
    <3>2. Applied(r) <=> r.receipt \notin {"none", "conflict", "failed"}
      BY DEF Applied
    <3>3. r.of \in Treatments
      BY <1>a, <2>2 DEF JobRows
    <3> QED
      BY <1>a, <1>b, <1>c, <2>0, <3>1, <3>2, <3>3
  <2> QED
    BY <2>1, <2>2
<1>11. CASE Tear(j)
  <2> DEFINE q == Moved(r, "queued", r.data, r.pick, "torn")
  <2>1. job' = [job EXCEPT ![j] = q]
    BY <1>0, <1>11, RowForms DEF Becomes
  <2>2. q.of = r.of /\ q.gen = r.gen /\ q.data = r.data /\ q.receipt = "torn"
    BY DEF Moved
  <2>3. q # NoJob
    BY <1>a, <1>b, NamesAssumption DEF Moved, JobRows
  <2>4. /\ r.at = "commit" /\ Matches(j) /\ Replaces(j)
        /\ photos' = photos /\ req' = req
    BY <1>11 DEF Tear, Undecided, At
  <2> HIDE DEF q
  <2>5. Applied(q)
    BY <2>2 DEF Applied
  <2> QED
    BY <1>0, <2>1, <2>2, <2>3, <2>4, <2>5, ReplaceStep
<1>12. CASE Fail(j)
  BY <1>0, <1>12, EndStep DEF Fail
<1> QED
  BY <1>1, <1>2, <1>3, <1>4, <1>5, <1>6, <1>7, <1>8, <1>9, <1>10, <1>11, <1>12
     DEF StepOf, JobStep

\* Every step keeps the chain going.
LEMMA CarryStep ==
  ASSUME IInv, CarryInv, [Next]_vars
  PROVE  CarryInv'
<1>1. CASE Request
  <2>1. Live' = Live /\ UNCHANGED <<job, item, photos, writer, lost>>
    BY <1>1 DEF Request, Live
  <2>2. req' # NoItem => req'.gen = item
    BY <1>1 DEF Request
  <2>3. item.stamp \in Nat
    BY DEF IInv, TypeOK, Items
  <2>4. NothingNewer'
    BY <2>1, <2>2, <2>3 DEF CarryInv, NothingNewer
  <2> QED
    BY <2>1, <2>4 DEF CarryInv, AppliedPast, Untried, Carried
<1>2. CASE RequestDispatch
  <2>1. req.gen \in Items /\ req.pick \in Treatments /\ req.gen.stamp <= item.stamp
    BY <1>2 DEF RequestDispatch, IInv, TypeOK, Choices, CarryInv, NothingNewer
  <2>2. /\ Dispatch(req.pick, req.gen, "operator", job)
        /\ UNCHANGED <<item, photos, writer>> /\ req' = NoItem
    BY <1>2 DEF RequestDispatch
  <2>3. job \in [Ids -> JobRows \cup {NoJob}] /\ \A k \in Ids : Own(k, job[k])
    BY DEF IInv, TypeOK, Own
  <2>4. \/ Inserts(req.pick, req.gen, "operator", job) /\ lost' = lost
        \/ job' = job /\ lost' = lost \cup {req.gen}
    BY <2>2 DEF Dispatch
  <2> QED
    BY <2>1, <2>2, <2>3, <2>4, DispatchKeep
<1>3. CASE Edit
  <2>1. Live' = Live /\ job' = job /\ req' = req /\ writer' = "operator"
    BY <1>3 DEF Edit, Live
  <2>2. item'.stamp = item.stamp
    <3>1. item \in Items
      BY DEF IInv, TypeOK
    <3> QED
      BY <1>3, <3>1, ItemsClosed DEF Edit
  <2>3. NothingNewer' /\ AppliedPast'
    BY <2>1, <2>2 DEF CarryInv, NothingNewer, AppliedPast, Past
  <2> QED
    BY <2>1, <2>3 DEF CarryInv, Untried, Carried
<1>4. CASE \E j \in Ids : StepOf(j)
  BY <1>4, RowCarries
<1>5. CASE UNCHANGED vars
  BY <1>5 DEF vars, history, counts, CarryInv, NothingNewer, AppliedPast, Untried,
              Carried, Live
<1> QED
  BY <1>1, <1>2, <1>3, <1>4, <1>5 DEF Next, StepOf

-----------------------------------------------------------------------------
\* The item, the rows and the locals keep their types.
THEOREM TypeCorrect == Spec => []TypeOK
<1>1. IInv => TypeOK
  BY DEF IInv
<1> QED
  BY Inductive, <1>1, PTL

\* However many operators and evaluations dispatch at the same time, one
\* treatment of one document is in the queue at most once.
THEOREM OneActiveInvariant == Spec => []OneActive
<1>1. IInv => OneActive
  BY DEF IInv
<1> QED
  BY Inductive, <1>1, PTL

\* An observation of the AI becomes canonical once for an item, and once more
\* for each write of somebody else, who may have asked for it, whatever crashes,
\* retries and evaluations there are.  This does not count the calls that are
\* billed: one whose observation is lost before its checkpoint, fails after it
\* or ends in a conflict leaves no trace in the item.
THEOREM ScansBoundedInvariant == Spec => []ScansBounded
<1>1. IInv => ScansBounded
  BY DEF IInv, TypeOK, ScanLeft, ScansBounded
<1> QED
  BY Inductive, <1>1, PTL

\* A treatment changes only a document that it is eligible for at that moment,
\* however long ago it was chosen, but for the photographs.
THEOREM AppliedWhenEligible == Spec => EligibleWhenApplied
<1> DEFINE A == item' # item /\ writer' # "operator" =>
                  \E j \in Live : /\ job[j].at = "commit" /\ job'[j] # job[j]
                                  /\ job[j].of \in Eligible(item, TRUE)
<1>1. IInv /\ [Next]_vars => [A]_vars
  <2> SUFFICES ASSUME IInv, Next, item' # item, writer' # "operator"
               PROVE  \E j \in Live : /\ job[j].at = "commit" /\ job'[j] # job[j]
                                      /\ job[j].of \in Eligible(item, TRUE)
    OBVIOUS
  <2>1. PICK j \in Ids : Commit(j) \/ Tear(j)
    BY DEF Next, JobStep, Request, RequestDispatch, Edit, Resume, Observe, Skip,
           Refuse, Reconcile, Report, EvaluateEvent, EvaluateDispatch, Crash,
           Redeliver, Fail
  <2>2. j \in Live /\ job[j].at = "commit" /\ job[j].receipt \in {"none", "torn"}
    BY <2>1 DEF Commit, Tear, Undecided, At
  <2>3. job[j].gen = item
    BY <2>1 DEF Commit, Tear, Matches
  <2>4. job[j].of \in Eligible(item, TRUE)
    BY <2>2, <2>3, TargetKnown
  <2>5. \E q : /\ job' = [job EXCEPT ![j] = q]
               /\ q.at # job[j].at \/ q.receipt # job[j].receipt
    <3>1. CASE Commit(j)
      <4>1. PICK c \in Receipts \ {"none", "torn"} :
              Becomes(j, Moved(job[j], "commit", job[j].data, job[j].pick, c))
        BY <2>2, <3>1, CommitForms
      <4> DEFINE q == Moved(job[j], "commit", job[j].data, job[j].pick, c)
      <4>2. job' = [job EXCEPT ![j] = q] /\ q.receipt = c
        BY <4>1 DEF Becomes, Moved
      <4> HIDE DEF q
      <4> QED
        BY <2>2, <4>2
    <3>2. CASE Tear(j)
      <4>1. Becomes(j, Moved(job[j], "queued", job[j].data, job[j].pick, "torn"))
        BY <2>2, <3>2, RowForms
      <4> DEFINE q == Moved(job[j], "queued", job[j].data, job[j].pick, "torn")
      <4>2. job' = [job EXCEPT ![j] = q] /\ q.at = "queued"
        BY <4>1 DEF Becomes, Moved
      <4> HIDE DEF q
      <4> QED
        BY <2>2, <4>2
    <3> QED
      BY <2>1, <3>1, <3>2
  <2>6. job'[j] # job[j]
    BY <2>2, <2>5 DEF IInv, TypeOK, Live
  <2> QED
    BY <2>2, <2>4, <2>6
<1> QED
  BY Inductive, <1>1, PTL DEF Spec, EligibleWhenApplied

\* When everything has come to rest after a treatment, there is nothing more to
\* do for the item, or it is on record that something was given up for exactly
\* this document: a worker that dies with an attempt left, an edit or a request
\* at any moment do not stop the chain; a dead letter, also one after the commit,
\* a conflict or a failed insert may.
THEOREM ChainCompletesInvariant == Spec => []ChainCompletes
<1>1. Init => CarryInv
  BY DEF Init, Live, CarryInv, NothingNewer, AppliedPast, Untried, Carried
<1>2. IInv /\ CarryInv => ChainCompletes
  BY DEF CarryInv, Carried, Resting, ChainCompletes, Quiet, Unidentifiable
<1>3. IInv /\ CarryInv /\ [Next]_vars => CarryInv'
  BY CarryStep
<1> QED
  BY Inductive, <1>1, <1>2, <1>3, PTL DEF Spec
=============================================================================
