---------------------------- MODULE ItemWorkflow ----------------------------
(***************************************************************************)
(* The governed workflow of one item: an operator asks for a goal, the     *)
(* evaluator derives from the item which local treatments are eligible and *)
(* dispatches the first, a worker applies it to exactly the generation it  *)
(* was dispatched for, and its success raises an evaluation event that     *)
(* dispatches the next.  Other writers change the item at any moment,      *)
(* workers die, and any stage of a job may fail.                           *)
(*                                                                         *)
(* A generation is the content of the item; photographs are files beside   *)
(* it.  mutate_item is one step here, or two when the worker dies in it    *)
(* (ItemMutation has its file operations), and so is the end of a job with *)
(* its event (JobQueue has the leases).  External treatments wait for an   *)
(* operator's authority (ProviderEffects) and are never dispatched by this *)
(* path; no two local contracts share an owner and no caller of this path  *)
(* supplies an ambiguity or earlier attempts, so the evaluator's other     *)
(* gates stay open.                                                        *)
(***************************************************************************)
EXTENDS Naturals

CONSTANTS
  MaxJobs,      \* identities of live queue rows
  MaxEvents,    \* bound: goals asked for, writes of others, deaths and failures
  NoJob, NoItem

ASSUME BoundsAssumption ==
  /\ MaxJobs \in Nat \ {0}
  /\ MaxEvents \in Nat

VARIABLES
  item,     \* the canonical document
  photos,   \* there are photographs in the item's directory
  job,      \* live rows of the queue
  req,      \* a goal request: the document it evaluated and its choice
  writer,   \* history: who wrote the item or its photographs last
  lost,     \* history: documents for which something was given up
  owed,     \* history: a job ended in conflict and nothing was evaluated since
  scans,    \* history: AI observations that became canonical
  requests, edits, faults  \* history: counts

history == <<writer, lost, owed, scans>>
counts  == <<requests, edits, faults>>
vars    == <<item, photos, job, req, history, counts>>

\* What the conditions are derived from.  ident: "flag" is ai_identified set
\* on an item that got neither category nor product lookup, "redo" is
\* ai_reidentify.  stamp: the timestamps that a treatment writes.
Items == [ident : {"no", "flag", "yes", "redo"},
          draft : {"none", "fallback", "valid"},
          priced : BOOLEAN, condition : {"alias", "valid"}, available : BOOLEAN,
          stamp : Nat]

Ids == 1..MaxJobs

Budget == requests + edits + faults < MaxEvents

\* A worker dies or something fails.
Fault == Budget /\ faults' = faults + 1

\* Every local treatment of TGW_TREATMENTS, in the order of evaluate().
Order == <<"ai-identify", "ebay-draft", "ebay-price", "normalize-condition">>
Treatments == {Order[n] : n \in DOMAIN Order}

Places == {"queued", "commit", "evaluated"}

\* What the journal of mutate_item has for the job's operation.  "torn": the
\* document was replaced and there is no receipt; "unread": FAILED although
\* the document was replaced, which could not be read.
Receipts == {"none", "torn", "committed", "repair", "conflict", "failed", "unread"}

\* gen: object_generation, or prior_object_generation of an event.
\* data: the checkpoint of a treatment, the snapshot of an evaluation.
\* pick: the treatment that the evaluation chose.
JobRows == [of : Treatments \cup {"evaluate"}, gen : Items, at : Places,
            data : Items \cup {NoItem}, pick : Treatments \cup {"none"},
            receipt : Receipts]

Choices == [gen : Items, pick : Treatments]

ASSUME NamesAssumption ==
  NoItem \notin Items /\ NoItem \notin Choices /\ NoJob \notin JobRows

-----------------------------------------------------------------------------
Identified(i) == i.ident = "yes"
Drafted(i)    == i.draft = "valid"

\* p: the snapshot saw photographs.
Requirements(t, i, p) ==
  CASE t = "ai-identify"         -> p
    [] t = "ebay-draft"          -> i.available /\ Identified(i)
    [] t = "ebay-price"          -> i.available /\ Drafted(i)
    [] t = "normalize-condition" -> i.condition = "alias"

Established(t, i) ==
  CASE t = "ai-identify"         -> Identified(i)
    [] t = "ebay-draft"          -> Drafted(i)
    [] t = "ebay-price"          -> i.priced
    [] t = "normalize-condition" -> i.condition = "valid"

\* evaluate(): requirements met, and something left to establish.
Eligible(i, p) == {t \in Treatments : Requirements(t, i, p) /\ ~Established(t, i)}

\* The first eligible treatment of the graph is the one to dispatch.
First(i, p) ==
  Order[CHOOSE n \in DOMAIN Order :
          /\ Order[n] \in Eligible(i, p)
          /\ \A m \in 1..(n - 1) : Order[m] \notin Eligible(i, p)]

\* What a treatment can make of the item: the category is found or not, with
\* the condition in the AI's words; the draft falls back to category 99 or
\* not; there are comparable sales or not.
Results(t, i) ==
  CASE t = "ai-identify" ->
         {[i EXCEPT !.ident = x, !.condition = c, !.stamp = @ + 1] :
            x \in {"yes", "flag"}, c \in {"alias", "valid"}}
    [] t = "ebay-draft" ->
         {[i EXCEPT !.draft = x, !.stamp = @ + 1] : x \in {"valid", "fallback"}}
    [] t = "ebay-price" ->
         {[i EXCEPT !.priced = x, !.stamp = @ + 1] : x \in BOOLEAN}
    [] t = "normalize-condition" -> {[i EXCEPT !.condition = "valid"]}

-----------------------------------------------------------------------------
\* An item that has been photographed.
Init ==
  /\ item = [ident |-> "no", draft |-> "none", priced |-> FALSE,
              condition |-> "valid", available |-> TRUE, stamp |-> 0]
  /\ photos = TRUE
  /\ job = [j \in Ids |-> NoJob]
  /\ req = NoItem
  /\ writer = "operator"
  /\ lost = {} /\ owed = FALSE /\ scans = 0
  /\ requests = 0 /\ edits = 0 /\ faults = 0

Live    == {j \in Ids : job[j] # NoJob}
At(j, at) == j \in Live /\ job[j].at = at

Row(t, g) == [of |-> t, gen |-> g, at |-> "queued", data |-> NoItem,
              pick |-> "none", receipt |-> "none"]

Becomes(j, row) == job' = [job EXCEPT ![j] = row]
Moves(j, at)    == Becomes(j, [job[j] EXCEPT !.at = at])

\* Mutant: the key also says on whose behalf, as the graph's hash did.
SameKey_Graph(j, t, g, by) ==
  j \in Live /\ job[j].of = t /\ job[j].gen = g /\ by = "evaluator"

\* treatment_dedupe_key: treatment and generation, whoever dispatches.
SameKey(j, t, g, by) == j \in Live /\ job[j].of = t /\ job[j].gen = g

(* INSERT, unless a row of that key is live.  rows: the queue with what the
   caller does to its own row. *)
Inserts(t, g, by, rows) ==
  \/ /\ \E j \in Ids : SameKey(j, t, g, by)
     /\ job' = rows
  \/ /\ ~\E j \in Ids : SameKey(j, t, g, by)
     /\ \E j \in Ids \ Live :
          /\ \A k \in Ids \ Live : j <= k
          /\ job' = [rows EXCEPT ![j] = Row(t, g)]

(* dispatch_treatment: the INSERT may also fail, and DispatchResult says so
   only by enqueued=False. *)
Dispatch(t, g, by, rows) ==
  \/ Inserts(t, g, by, rows) /\ UNCHANGED <<lost, faults>>
  \/ /\ Fault
     /\ lost' = lost \cup {g}
     /\ job' = rows

-----------------------------------------------------------------------------
(* request_item_goal: snapshot, graph and _require_current_generation, which
   refuses a snapshot that is not current any more, ... *)
Request ==
  /\ req = NoItem
  /\ Budget
  /\ requests' = requests + 1
  /\ req' = IF Eligible(item, photos) = {} THEN NoItem
            ELSE [gen |-> item, pick |-> First(item, photos)]
  /\ owed' = FALSE
  /\ UNCHANGED <<item, photos, job, writer, lost, scans, edits, faults>>

(* ... and the dispatch. *)
RequestDispatch ==
  /\ req # NoItem
  /\ Dispatch(req.pick, req.gen, "operator", job)
  /\ req' = NoItem
  /\ UNCHANGED <<item, photos, writer, owed, scans, requests, edits>>

(* A write by anybody else, to the document or to the directory: it raises no
   event. *)
Edit ==
  /\ Budget
  /\ edits' = edits + 1
  /\ \/ /\ item' \in {[item EXCEPT !.available = ~@],
                      [item EXCEPT !.condition = "alias"],
                      [item EXCEPT !.draft = "none"], [item EXCEPT !.ident = "redo"]}
        /\ UNCHANGED photos
     \/ photos' = ~photos /\ UNCHANGED item
  /\ writer' = "operator"
  /\ UNCHANGED <<job, req, lost, owed, scans, requests, faults>>

-----------------------------------------------------------------------------
Target(j) ==
  IF job[j].of = "normalize-condition"
  THEN [job[j].gen EXCEPT !.condition = "valid"]
  ELSE job[j].data

\* The row ends without a successor.
Ends(j) == Becomes(j, NoJob)

\* What a row was to bring about something for: the document that it was made
\* for and the one that it made, or the one that it evaluates.
Abandoned(j) ==
  LET r == job[j] IN
  CASE r.of # "evaluate" /\ r.receipt \in {"none", "conflict", "failed"} -> {r.gen}
    [] r.of # "evaluate" /\ r.receipt \notin {"none", "conflict", "failed"} ->
         {r.gen, Target(j)}
    [] r.of = "evaluate" -> {IF r.at = "queued" THEN item ELSE r.data}

\* A dead letter, or an end that nothing follows.
GivesUp(j) ==
  /\ Ends(j)
  /\ lost' = lost \cup Abandoned(j)

\* Mutant: the ai_identified flag of the item is not looked at.
AlreadyIdentified_Never(t, i) == FALSE

\* ai_identify does nothing for an item that it has seen.
AlreadyIdentified(t, i) == t = "ai-identify" /\ i.ident \in {"flag", "yes"}

\* Draft and price look first whether there is anything left to sell.
SoldOut(j) == job[j].of \in {"ebay-draft", "ebay-price"} /\ ~item.available

(* handle() is called.  An observation of an earlier attempt goes to
   mutate_item whatever else the item has become, and normalize-condition goes
   there at once; otherwise the item has to be the one that was dispatched. *)
Resume(j) ==
  /\ At(j, "queued") /\ job[j].of \in Treatments
  /\ ~SoldOut(j)
  /\ job[j].data # NoItem \/ job[j].of = "normalize-condition"
  /\ Moves(j, "commit")
  /\ UNCHANGED <<item, photos, req, history, counts>>

Begins(j) ==
  /\ At(j, "queued") /\ job[j].of \in Treatments \ {"normalize-condition"}
  /\ job[j].data = NoItem

\* ai_identify looks at photographs.
Unseeable(j) == job[j].of = "ai-identify" /\ ~photos

(* The slow part: AI, taxonomy or price lookup on the document read at the
   start; what was observed is checkpointed with the row. *)
Observe(j) ==
  /\ Begins(j) /\ job[j].gen = item
  /\ ~AlreadyIdentified(job[j].of, job[j].gen) /\ ~Unseeable(j)
  /\ \E r \in Results(job[j].of, job[j].gen) :
       Becomes(j, [job[j] EXCEPT !.at = "commit", !.data = r])
  /\ UNCHANGED <<item, photos, req, history, counts>>

(* A receipt with changed = false: success, and no event. *)
Skip(j) ==
  /\ Begins(j) /\ job[j].gen = item
  /\ AlreadyIdentified(job[j].of, job[j].gen)
  /\ Ends(j)
  /\ UNCHANGED <<item, photos, req, history, counts>>

(* "governed object generation mismatch", "no images found", or "inventory is
   sold": a HardFailure, the last one also after the commit of an attempt whose
   worker died. *)
Refuse(j) ==
  /\ \/ Begins(j) /\ job[j].gen # item
     \/ Begins(j) /\ ~AlreadyIdentified(job[j].of, job[j].gen) /\ Unseeable(j)
     \/ At(j, "queued") /\ SoldOut(j)
  /\ GivesUp(j)
  /\ UNCHANGED <<item, photos, req, writer, owed, scans, counts>>

-----------------------------------------------------------------------------
\* Mutant: the observation is written over whatever is there.
Matches_Always(j) == TRUE

\* mutate_item: the canonical document is the one expected.
Matches(j) == job[j].gen = item

\* Mutant: the journal is not asked who wrote the document.
Published_Never(j) == FALSE

\* mutate_item: the document is the one that an earlier attempt planned, and
\* its archive marker exists.
Published(j) == job[j].receipt = "torn" /\ item = Target(j)

Undecided(j) == At(j, "commit") /\ job[j].receipt \in {"none", "torn"}

Records(j, receipt) == Becomes(j, [job[j] EXCEPT !.receipt = receipt])

\* The document is replaced.
Replaces(j) ==
  /\ item' = Target(j)
  /\ writer' = "treatment"
  /\ scans' = IF job[j].of = "ai-identify" THEN scans + 1 ELSE scans

(* mutate_item without a receipt: the document is replaced, or was before, and
   its projection may fail, or its marker and the look at what is there now;
   somebody else wrote it; or nothing can be done, the document cannot be read
   or replaced. *)
Commit(j) ==
  /\ Undecided(j)
  /\ \/ /\ Matches(j) /\ Replaces(j)
        /\ \/ Records(j, "committed") /\ UNCHANGED faults
           \/ Fault /\ (Records(j, "repair") \/ Records(j, "unread"))
     \/ /\ ~Matches(j) /\ Published(j)
        /\ \/ Records(j, "committed") /\ UNCHANGED faults
           \/ Records(j, "repair") /\ Fault
        /\ UNCHANGED <<item, writer, scans>>
     \/ /\ ~Matches(j) /\ ~Published(j)
        /\ Records(j, "conflict")
        /\ UNCHANGED <<item, writer, scans, faults>>
     \/ /\ Fault
        /\ Records(j, IF job[j].receipt = "torn" THEN "unread" ELSE "failed")
        /\ UNCHANGED <<item, writer, scans>>
  /\ UNCHANGED <<photos, req, lost, owed, requests, edits>>

(* reconcile_mutation: the projection is repaired, or fails again, which is a
   dead letter; or the document has moved on, or cannot be read, which is
   reported as a conflict, with changed = false. *)
Reconcile(j) ==
  /\ At(j, "commit") /\ job[j].receipt = "repair"
  /\ job[j].of # "normalize-condition"
  /\ \/ /\ item = Target(j)
        /\ Records(j, "committed")
        /\ UNCHANGED <<lost, owed, faults>>
     \/ /\ item = Target(j)
        /\ Fault
        /\ GivesUp(j)
        /\ UNCHANGED owed
     \/ /\ (item # Target(j) /\ UNCHANGED faults) \/ Fault
        /\ GivesUp(j)
        /\ owed' = TRUE
  /\ UNCHANGED <<item, photos, req, writer, scans, requests, edits>>

\* A draft or price that establishes nothing is partial.
Useless(j) ==
  /\ job[j].of \in {"ebay-draft", "ebay-price"}
  /\ ~Established(job[j].of, Target(j))

(* handle() returns or raises, by the receipt that mutate_item returns.  The
   document changed or not, what raises is a dead letter: a partial result, a
   failed mutation, and for normalize-condition whatever is not COMMITTED.  A
   conflict of the others is reported with changed = false. *)
Report(j) ==
  LET r == job[j] IN
  /\ At(j, "commit")
  /\ \/ /\ r.receipt = "committed" /\ ~Useless(j)
        /\ Becomes(j, Row("evaluate", r.gen))
        /\ UNCHANGED <<lost, owed>>
     \/ /\ \/ r.receipt = "committed" /\ Useless(j)
           \/ r.receipt \in {"failed", "unread"}
           \/ r.receipt \in {"conflict", "repair"} /\ r.of = "normalize-condition"
        /\ GivesUp(j)
        /\ UNCHANGED owed
     \/ /\ r.receipt = "conflict" /\ r.of # "normalize-condition"
        /\ GivesUp(j)
        /\ owed' = TRUE
  /\ UNCHANGED <<item, photos, req, writer, scans, counts>>

-----------------------------------------------------------------------------
(* evaluate_event: the snapshot and the choice; EVIDENCE_NOT_CHANGED is a dead
   letter, "none" a success ... *)
EvaluateEvent(j) ==
  /\ At(j, "queued") /\ job[j].of = "evaluate"
  /\ \/ /\ item = job[j].gen \/ Eligible(item, photos) = {}
        /\ Ends(j)
     \/ /\ item # job[j].gen /\ Eligible(item, photos) # {}
        /\ Becomes(j, [job[j] EXCEPT !.at = "evaluated", !.data = item,
                                     !.pick = First(item, photos)])
  /\ owed' = FALSE
  /\ UNCHANGED <<item, photos, req, writer, lost, scans, counts>>

(* ... and the first local treatment of its graph is dispatched.  The receipt
   says "satisfied"; nobody looks at the row in between. *)
EvaluateDispatch(j) ==
  /\ At(j, "evaluated")
  /\ Dispatch(job[j].pick, job[j].data, "evaluator", [job EXCEPT ![j] = NoJob])
  /\ UNCHANGED <<item, photos, req, writer, owed, scans, requests, edits>>

-----------------------------------------------------------------------------
\* Mutant: the row of a worker that died is not handed out again.
Requeued_Never(row) == [row EXCEPT !.at = "leased"]

\* recover_expired_jobs: checkpoint and journal are kept.
Requeued(row) ==
  IF row.of = "evaluate" THEN Row("evaluate", row.gen) ELSE [row EXCEPT !.at = "queued"]

(* The attempt ends without a report and another one is left: the worker dies
   and its lease runs out, or what it raises is worth a retry. *)
Crash(j) ==
  /\ j \in Live /\ job[j].at # "queued"
  /\ Fault
  /\ Becomes(j, Requeued(job[j]))
  /\ UNCHANGED <<item, photos, req, history, requests, edits>>

(* The same, between the replacement of the document and the receipt. *)
Tear(j) ==
  /\ Undecided(j) /\ Matches(j)
  /\ Fault
  /\ Replaces(j)
  /\ Becomes(j, Requeued([job[j] EXCEPT !.receipt = "torn"]))
  /\ UNCHANGED <<photos, req, lost, owed, requests, edits>>

(* An evaluation that has dispatched and does not end. *)
Redeliver(j) ==
  /\ At(j, "evaluated")
  /\ Fault
  /\ Inserts(job[j].pick, job[j].data, "evaluator",
             [job EXCEPT ![j] = Requeued(job[j])])
  /\ UNCHANGED <<item, photos, req, history, requests, edits>>

(* At any stage: what is raised is not worth a retry, or the last attempt
   failed, or it died and recover_expired_jobs buries the row.  Nobody writes
   an event. *)
Fail(j) ==
  /\ j \in Live
  /\ Fault
  /\ GivesUp(j)
  /\ UNCHANGED <<item, photos, req, writer, owed, scans, requests, edits>>

-----------------------------------------------------------------------------
JobStep(j) ==
  \/ Resume(j)
  \/ Observe(j)
  \/ Skip(j)
  \/ Refuse(j)
  \/ Commit(j)
  \/ Reconcile(j)
  \/ Report(j)
  \/ EvaluateEvent(j)
  \/ EvaluateDispatch(j)

Next ==
  \/ Request
  \/ RequestDispatch
  \/ Edit
  \/ \E j \in Ids : JobStep(j) \/ Crash(j) \/ Tear(j) \/ Redeliver(j) \/ Fail(j)

Spec == Init /\ [][Next]_vars

\* Workers poll and are restarted, leases run out; a request returns.
FairSpec == Spec /\ WF_vars(RequestDispatch) /\ \A j \in Ids : WF_vars(JobStep(j))

-----------------------------------------------------------------------------
\* The item, the rows and the locals have their types.
TypeOK ==
  /\ item \in Items /\ photos \in BOOLEAN
  /\ job \in [Ids -> JobRows \cup {NoJob}]
  /\ req \in Choices \cup {NoItem}
  /\ writer \in {"operator", "treatment"} /\ lost \subseteq Items
  /\ owed \in BOOLEAN /\ scans \in Nat /\ edits \in Nat

\* "One treatment may be active for one entity generation at a time": two
\* requests, or a request and an evaluation, never launch the same treatment
\* twice for the same document.
OneActive ==
  \A j, k \in Live : j # k /\ job[j].of \in Treatments =>
                       <<job[j].of, job[j].gen>> # <<job[k].of, job[k].gen>>

\* A treatment is chosen from one snapshot and applied much later, perhaps by
\* a second worker from the checkpoint of one that died: the document it
\* changes is still one that it is eligible for (the item was not sold, and
\* nobody did the work in between).  Only the photographs, which are no part of
\* the generation, may have gone since ai-identify looked at them.
EligibleWhenApplied ==
  [][item' # item /\ writer' # "operator" =>
       \E j \in Live : /\ job[j].at = "commit" /\ job'[j] # job[j]
                       /\ job[j].of \in Eligible(item, TRUE)]_vars

Quiet == Live = {} /\ req = NoItem

\* The first eligible treatment is ai-identify on an item that it has seen
\* without finding a category: the worker will not look again, and what
\* follows it in the order waits for the operator.
Unidentifiable ==
  /\ Eligible(item, photos) # {}
  /\ AlreadyIdentified(First(item, photos), item)

\* Successors are not in the workers: only the event that a treatment raises
\* keeps the item going.  When everything has come to rest and a treatment
\* wrote the item last, there is nothing more to do for it, or it is on record
\* that something was given up for exactly this document: a dead letter of the
\* treatment that wrote it (its draft or price is of no use, its mutation needs
\* repair, its last attempt died after the commit), of its event or of its next
\* treatment, an insert that failed, or a conflict over it.  A worker that dies
\* with an attempt left stops nothing, wherever it dies.
ChainCompletes ==
  Quiet /\ writer = "treatment" /\ item \notin lost
    => Eligible(item, photos) = {} \/ Unidentifiable

\* "re-triggered a billed vision-AI call forever": an observation of the AI
\* becomes canonical once, and again only after a write that may have asked
\* for it, although an identification that finds no category leaves the
\* treatment eligible.  (A call whose observation is lost before its checkpoint
\* or in a conflict is billed as well, and not counted here.)
ScansBounded == scans <= 1 + edits

\* The chain comes to rest: treatments that establish nothing do not call
\* each other for ever, and no row of a worker that died stays behind.
ComesToRest == <>[]Quiet

\* "complete it so QueueWorker enqueues one evaluation of the winning
\* generation": after a conflict, nothing is at rest before somebody has
\* evaluated the item anew.
WinnerEvaluated == Quiet => ~owed
=============================================================================
