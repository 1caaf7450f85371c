# Verification of the warehouse's job queue and of what runs on it

Trader Grim's warehouse keeps its inventory as JSON documents and drives
everything that takes time (photographing, identification, pricing, eBay
listing, synchronisation, coding tasks) through one PostgreSQL table,
`queue_jobs`. This directory holds TLA+ models of that queue and of the four
protocols on which the safety of its work rests: the publication of local
results, the ledger of external effects, the journal of item mutations and the
workflow that chooses the next treatment of an item; TLC configurations that
check them on small instances; and TLAPS proofs of their safety properties for
instances of any size.

Paths below are relative to `src/src/tgw/` unless they start with `tests/` or
another top-level directory of the repository.

## Inventory

| Component | State | Operations | Hard behaviour |
|---|---|---|---|
| Queue lease protocol (`queue/state_machine.py`, `queue/schema.sql`, `queue/live_schema.sql`) | `queue_jobs`: state, lease owner/token/expiry, `not_before`, attempt count, dedupe key, payload | enqueue, claim, start, checkpoint, succeed, fail, dead-letter, transient requeue, stop, acknowledge, recover, cancel, requeue | expired leases whose handler still runs; `NOW()` versus the wall clock; stops racing reports; statements that check first and write later |
| Queue worker (`queue/worker_base.py`) | the claimed job and its token, in memory | poll, recover every 60 s, process one job with a deadline | crashes anywhere; errors classified as transient, retryable or final |
| Enqueue modes (`enqueue_job`) | dedupe key, unique indexes, advisory lock | plain, idempotent, supersede, debounce | concurrent calls under READ COMMITTED, each of several statements |
| Recurring chains (`workers/token_refresh.py`, `velocity_stats.py`, `ebay_dole.py`, ...) | the pending row of `<queue>:pending` | run, reschedule, restart | the chain must survive every way a run can end |
| Request-addressed jobs (`coding_provision.py`) | rows claimed by identity | claim with an envelope, start, succeed, fail, stop | expiry compared at the statement; its own failure states |
| Cat herder (`development/cat_herder.py`, `harness_queue.py`) | rows of the coding queue | claim, heartbeat, succeed, park, retry | statements that compare the token only |
| Operator commands (`http_server.py`, `api.py`) | none of their own | cancel, bulk cancel, requeue, attest a flake push, restart the token chain | check-then-act against live workers |
| Local publication closure (`close_local_success`) | `PUBLICATION_CLOSING` in `error_code`, files on disk | fence, publish, commit, compensate | crash between two commits and a filesystem effect |
| Provider effects (`provider_effects.py`, `workflow/operator_authority.py`) | effect rows, authority rows | reserve, dispatch, finish, reconcile; issue, supersede | at most one unresolved effect; authority stale when used |
| Item mutation (`item_mutation.py`) | item documents, journal, archive | compare-and-swap mutation, reconcile | crash between journal, archive and `os.replace` |
| Workflow kernel (`workflow_kernel/`, `workers/workflow_evaluate.py`) | conditions, work graph, generations | evaluate, select, dispatch | events handled after the item has moved on |
| Coding harness (`development/harness_*.py`), release installer, root effects, plan authority, review services, receipts, file synchronisation, catalogue, eBay clients, HTTP/CLI/MCP front ends, Flutter apps, Nix | various | various | see `PROJECT.json` |

All components meet in `queue_jobs`: the front ends and the workers insert
rows, the workers of each queue claim them, any worker recovers expired leases
of every queue, a finished treatment inserts the event from which the workflow
kernel decides what to insert next, and operators cancel and requeue under the
workers' feet. The queue is therefore what these models start with.

What makes each part correct:

* a lease has one holder; a worker that lost it changes nothing any more;
* a row that ended stays ended, and every row ends;
* what must happen together (receipt and follow-up, cancellation and
  replacement) happens together or not at all;
* an enqueue neither loses a request nor disturbs a row being worked, and
  always returns;
* a recurring queue never stops recurring and never multiplies;
* files of a finished job are in place exactly when the row says so, or the row
  says that this is uncertain;
* an external effect is requested at most once, under an authority that was
  valid when it was reserved;
* an item document is replaced only by an operation that was made for it, is
  archived before, and never half written; its receipt is true;
* a treatment is applied only to an item it is eligible for, an item that is
  left with something to do has on record what was given up for it, and the
  workflow comes to rest.

## Modules

| Module | What it is |
|---|---|
| `JobLifecycle` | Abstract specification: `ALLOWED_TRANSITIONS`, the matrix that `tests/test_invariants_queue_transitions.py` calls the declared contract. A step inserts rows or moves them along the matrix. |
| `JobQueue` | The lease protocol: the table, three kinds of worker, recovery, time and the operator's commands. Implements `JobLifecycle`. |
| `MCJobQueue` | Symmetry sets for TLC. |
| `JobQueueProofs` | The theorems about `JobQueue`. |
| `EnqueueModes` | `enqueue_job` statement by statement, for one dedupe key and any number of concurrent callers. Implements `JobLifecycle` too. |
| `RecurringChain` | One self-rescheduling queue: process, terminal hook, debounced enqueue, recovery, manual restart. |
| `PublicationClosure` | `close_local_success` on one row, against stops, lost COMMIT answers, recovery and crashes. |
| `ProviderEffects` | The ledger of external effects of one item and the operator authorities behind them; `MCProviderEffects` has its symmetry. |
| `EffectLedger` | Abstract specification: the ledger with every operation in one step. `ProviderEffects` implements it. |
| `ItemMutation` | `mutate_item` and its two reconcilers on one item document, file by file. |
| `ItemRegister` | Abstract specification: a compare-and-swap register whose answers are true. `ItemMutation` implements it. |
| `ItemWorkflow` | Requests, evaluations and local treatments of one item. |
| `JobQueueProofs`, `JobQueueRowsProofs`, `EnqueueModesProofs`, `RecurringChainProofs`, `PublicationClosureProofs`, `ProviderEffectsProofs`, `ItemMutationProofs`, `ItemWorkflowProofs` | The theorems. |

The models are layered by what they assume of each other rather than by
INSTANCE: `PublicationClosure` takes one row with the lease protocol that
`JobQueue` establishes (a claim draws a fresh token, recovery requeues or
buries), `ItemWorkflow` takes from `JobQueue` that a row whose worker died is
handed out again, from `EnqueueModes` that the dedupe key is unique, and from
`ItemMutation` what `ItemRegister` says: a mutation is one comparison and one
write, with one answer that is true.

### JobQueue and the code

One action is one committed transaction. Columns are functions of the row:
`state`, `owner`, `token`, `lease`, `notBefore`, `attempts`. A token is the
number of leases granted on the row, standing for the fresh UUID of
`gen_random_uuid()`. `payload_json` is reduced to the keys that statements of
the queue read or write: `observation_checkpoint`, `result` (by kind),
`origin_job_id`, `result.stop_control` and its acknowledgement.

Time is relative: a lease is live, at its edge or past, and `Elapse` moves it.
Three values are needed because the code compares in three ways:
`mark_running` and the `mark_` functions with `> NOW()`, `start_job` with
`>= NOW()`, `recover_expired_jobs` with `< NOW()`. PostgreSQL's `NOW()` is the
time at which the transaction began; `Open` therefore records the lease as the
transaction sees it, and the guarded `UPDATE` that follows uses the record,
while everything else it compares is current (READ COMMITTED re-evaluates the
row after waiting for its lock). `succeed_job` and `fail_job` use
`clock_timestamp()` and look at the lease itself.

| Action | Code |
|---|---|
| `Enqueue` | `enqueue_job`'s INSERT |
| `Claim` | `claim_queue_jobs()`, `claim_job`, `claim_job_with_envelope` |
| `MarkRunning` | `mark_running`, `start_job` |
| `CheckpointRunningJob` | `checkpoint_running_job` |
| `MarkSucceeded`, `MarkFailed`, `MarkDeadLetter`, `RequeueWithBackoff` | the functions of that name; `MarkFailed` includes the promotion failed → dead_letter in the same transaction |
| `CompleteTreatment`, `CompleteUnchanged` | `complete_treatment_and_enqueue_evaluation`, `complete_treatment_and_schedule_timer` |
| `SucceedClaimedJob`, `FailClaimedJob` | `succeed_job`, `fail_job` and its trailing result UPDATE |
| `HerderMarkRunning`, `HerderHeartbeat`, `HerderFinish` | `harness_queue.mark_running`, `heartbeat`, `_finish` |
| `NoticeStop`, `AcknowledgeCancellation` | `_process`'s JobCancelled branch, `acknowledge_cancellation` |
| `LostLease` | the guarded statement matched no row |
| `Crash` | process or host death at any point |
| `RecoverExpiredJobs` | `recover_expired_jobs()`, both statements, all rows at once |
| `CancelJob`, `OperatorCancel`, `CancelAll` | `cancel_job`, `POST /api/jobs/{id}/cancel`, `cancel_queued` and `clear_dead_letter` |
| `RequeueRead`, `RequeueWrite` | `requeue_dead_letter_job`, whose SELECT locks nothing |
| `MarkFlakeMutationExecuted` | the function of that name |

`recover_expired_jobs` exists in two versions: `schema.sql` sends an exhausted
row to `dead_letter`, the dump `live_schema.sql` to `failed`. The model follows
`schema.sql`, whose comment explains why `failed` would be wrong.
`POST /api/jobs/{id}/requeue` enqueues a new row or dispatches an item action
and leaves the dead letter alone: for the table it is an `Enqueue`.

### EnqueueModes and the code

Each action is one SQL statement of `enqueue_job`; the last one commits. Three
things order concurrent callers and are modelled as PostgreSQL defines them
(marked external where no line of the repository does it): the advisory
transaction lock, which only the idempotent and debounce modes take; row locks
of an uncommitted UPDATE, which only supersede executes before its INSERT (the
rows are in `doomed` until the transaction ends); and the unique index, whose
check waits for a transaction that is changing a conflicting row. supersede's
UPDATE is two actions: the snapshot that picks the rows, and, after any wait,
the re-evaluation of its condition. Which mode each client uses, and which
request an idempotent one makes, is chosen in `Init`. `handed` remembers the payload that a
claim returned.

### RecurringChain and the code

The process of one queue goes through boot, claim, run, the debounced
`enqueue_job` of `_reschedule()` (two actions: the SELECT, and what follows
it), report, and the terminal hook. `startup` distinguishes the workers whose
`run()` enqueues a job when the queue is empty from `token_refresh`, which has
none; it is chosen in `Init`. Row identities are used again after a row ended,
so that the chain is really infinite and `RunsForever` is meaningful; an INSERT
needs an unused one, which is a bound only (5 identities in the run, where
an INSERT always finds one). The startup enqueue's `except Exception`
(a database that is down at that moment) is not modelled.

`Protected` is the condition under which the code keeps a chain alive: a
startup job, or no crash and no lost lease so far. Without it `ChainAlive` is
false: a crash after `mark_dead_letter`, or a last attempt whose lease
expires, ends the token_refresh chain until someone runs `tgw
restart-ebay-token`. The docstring of `_on_terminal_failure`
(`queue/worker_base.py`, 664-671) describes what the hook is for without
claiming more than that.

### PublicationClosure and the code

One row and any number of workers; a lease is the number of its claim, and
`tree` the set of leases whose files are in place. `close_local_success` is cut
at every commit, at the publication callback and at every exception branch:

| Action | Code |
|---|---|
| `Begin`, `Fence`, `Refuse` | the first transaction, waiting for the advisory lock; the closing condition is committed, or the row is somebody else's |
| `Relock`, `Publish` | the second transaction locks the row; `publish(register_undo)` |
| `Commit`, `BackendDone` | UPDATE and COMMIT; a COMMIT whose answer is lost is finished by the database |
| `Reconnect` | a new session takes the advisory lock, reads, and decides |
| `Undo`, `FenceFailed`, `Repair` | compensation, and what is recorded after it |
| `Cancel`, `Recover`, `Elapse`, `Crash` | `cancel_job`, `recover_expired_jobs`, time, process death |

`timely` is the comparison of the lease with `NOW()`, taken when the
transaction begins. Session-level advisory locks survive rollback and end with
the session; this and what a lost COMMIT may do is PostgreSQL's and modelled as
it is documented. No worker class sets `direct_local_receipts` today; the
function is modelled as `queue/worker_base.py` would call it.

### ProviderEffects and the code

One item, one provider and operation. `ledger` is the table
`provider_effects`, one row for each item generation (its unique key), and
`operator_authorities` is four columns. A worker enters under the item's write
lock, reads its authority FOR UPDATE, reserves under the advisory lock, sends,
and records the answer; `Provider` carries a request out or refuses it at any
time after it was sent, also after its sender died. Operators lock the
authorities they are about to supersede and then write, in two actions,
because the check for engaged effects uses a snapshot taken at the second.
`Observe` and `RecordObservation` are `reconcile_provider_effect`, which reads
before it calls the provider and writes after. That an observation of a
successful effect is true is assumed of the provider; one that sees nothing is
not trusted to be final by any property.

`EffectLedger` is what callers may believe. Its six operations are atomic: edit
the item; supersede authorities and issue new ones; reserve the effect of the
current generation under an authority in force; request; carry out or refuse;
settle. The three unresolved states are one there (`open`), and the state of a
request is read off `wire` and `fate`, so that a second request for the same
effect is no step of it. A rejection promises nothing in it, because an
observation may be older than the request.

`reserve_provider_effect` and `begin_provider_dispatch` (the older pair of
functions) are not called by any worker and are left out; `supersede_authority`
and `reconcile_provider_effect` have no caller outside the tests either but are
the declared ways to end an uncertain effect, and are modelled. The effect per
photo of `ebay_upload` uses the same table with other keys and is left out.

### ItemMutation and the code

One action for each file operation of `mutate_item`: intent, archive member,
archive marker, `os.replace` of the document, publication marker, projection,
receipt; `Except` is an exception at any of these places, before or after it
took effect, with the classification that the handler makes from what it can
read then. `Discover` and `Finish` are `reconcile_pending_mutations`, which
reads the intent before it takes the lock; `DiscoverRepair` and `Repair` are
`reconcile_mutation`. A document is its content hash, and the set of
generations is small on purpose: an old content can come back.

`ItemRegister` is what remains for somebody who sees the document and the
receipts only: `Apply` replaces the expected document, `Confirm` finds the
operation's document in place (the publication marker), `Answer` writes the
receipt. COMMITTED and REPAIR_REQUIRED mean that the document is the
operation's at that moment, FAILED that it is the expected one, CONFLICT that
the operation neither stands nor could be done. The two answers that are given
without reading the document (it cannot be parsed) are in `blind` and promise
nothing. A crash after `os.replace` leaves an operation that was applied and
not answered: an ordinary state of the register.

### ItemWorkflow and the code

The item is the handful of facts from which `workflow/item_snapshot.py` derives
the conditions of the four local treatments, with a stamp for the timestamps
that treatments write; the photographs are files beside it and not part of its
generation. A row of the queue is a treatment or an evaluation event with the
generation it was made for, its checkpoint, and what the mutation journal has
for it. `Request`/`RequestDispatch` are `request_item_goal`, `EvaluateEvent` and
`EvaluateDispatch` are `evaluate_event`; `Resume`, `Observe`, `Skip`, `Refuse`,
`Commit`, `Reconcile` and `Report` are the handlers of `ai_identify`,
`ebay_draft`, `ebay_price` and `normalize_condition`. `Edit` is any other writer
of the document or of its directory; it raises no event.

`Commit` has every answer that `mutate_item` gives to them: COMMITTED,
REPAIR_REQUIRED (the document is replaced, its projection failed), CONFLICT, and
FAILED, also where the document was replaced and could not be read again. (The
two branches for a result equal to its document and for an intent of another
request are left out: a treatment's result always differs, and the binding of a
job's operation does not change.) `Reconcile` is the second chance that three of
the four workers give a REPAIR_REQUIRED; `normalize_condition` has none. Whatever
is still not COMMITTED or CONFLICT is raised and buried, the item changed or not
(`Report`, `Reconcile`).

`Crash` hands the row back with its checkpoint and its journal, wherever the
attempt was; `Tear` is a death between the replacement and the receipt,
`Redeliver` one behind a dispatch. `Fail` ends a job at any stage with a dead
letter: an error that is not worth a retry, or the last attempt, failed or dead,
also behind its commit. How many attempts a row has is left open, so each fault
may leave one or not. The history variable `lost` has the documents for which
something was given up: `Abandoned` says of each row which those are.

## Runs

| Run | Instance | What it shows |
|---|---|---|
| `lease_protocols` | 2 rows, one of them a flake mutation; 2 queue workers, a request-addressed one, a herder; every way a run can end; 2 checkpoints, 2 attempts | the three lease protocols live together: one holder, stale workers are harmless, an acknowledged stop means the process is gone, attempts are bounded, ended rows stay ended |
| `follow_up` | 3 rows, 2 workers, evaluation and timer outcomes | a completed treatment has exactly one follow-up, and only it has one |
| `operator_commands` | 2 rows, 2 operator sessions, a queue worker and a herder, unbounded crashes | lease columns consistent, transitions as declared, every row ends |
| `enqueue_modes` | 3 clients in any combination of the four modes, 2 requests, 3 rows | cancellation and replacement are one; a worked row is spared; idempotent calls agree and collide only with other modes; every call returns |
| `recurring_chain` | both kinds of queue, 5 row identities, 2 crashes, lost leases or manual restarts | a protected chain always goes on, and chains do not multiply |
| `publication_closure` | 3 workers, 3 attempts | files of a succeeded row stay; answers are true; files leave evidence; stops are honest; the lock is released |
| `provider_effects` | 2 workers, 2 operators, 2 authorities, 2 generations, a crash | the protocol implements `EffectLedger`: effects are reserved for the right generation and authority, one request per effect, one unresolved effect per item, no supersession under an effect, settled stays settled |
| `item_mutation` | 2 processes, 2 operations, 2 generations, 2 crashes, a file error | the journal implements `ItemRegister`: replaced only when as expected, answered truthfully; archive, immutable receipts, projection current at rest, every intent settled |
| `item_workflow` | 5 rows, 3 events (requests, edits, deaths, failures) | one active treatment per document; applied only when eligible; an item at rest has nothing left to do or a record of what was given up for it; the AI observations that become canonical are bounded; the workflow comes to rest |

The exact constants are in the `.cfg` files.

Three runs are expected to fail: each states what a comment, docstring or test
says and shows the code doing otherwise.

* `debounce_loses`: a row claimed between debounce's SELECT and its UPDATE
  takes a payload that nobody will run.
* `stop_after_recovery`: a worker dies behind its publication, recovery
  requeues the row with its closing condition, and a stop before the next claim
  cancels a row whose files are in place: `cancel_job` honours the condition on
  running rows only.
* `winner_evaluated`: a treatment that loses the race for the item completes
  with `changed = false`, for which
  `complete_treatment_and_enqueue_evaluation` inserts no event, so nobody
  evaluates the generation that won, as the comment in `workers/ai_identify.py`
  says somebody will.

Other behaviour met while modelling, which no run states because no line of the
repository promises otherwise or because a milder form is what a property says:

* `mark_succeeded` compares the lease with `NOW()`, the start of its
  transaction: a report that waits behind a row lock is accepted after the lease
  ran out. The row is still the worker's own, which is why `SoleHolder` and
  `StaleWorkerHarmless` hold. The stored functions use `clock_timestamp()`, and
  for them `NamedReportsUnexpired` is proved.
* Two sessions of `tgw dead-letter --requeue` can clone one dead letter twice.
* supersede can raise `UniqueViolation`.
* An operation of `mutate_item` whose process died after the replacement can be
  applied a second time if somebody has meanwhile brought the expected content
  back (`item_mutation.py`, 654-657); hence `ItemRegister` lets an operation
  without an answer be applied again.
* An effect may be recorded as rejected by observation while its request is
  still on the way (`provider_effects.py`, 434 and 474); nothing says how long
  an observer has to wait.
* Four ways for a treatment to change the item and stop the chain with no
  evaluation event: its mutation stays REPAIR_REQUIRED
  (`workers/ai_identify.py`, 465-483), or FAILED although the document was
  replaced (`item_mutation.py`, 776-810), or its last attempt dies behind the
  commit and `recover_expired_jobs` buries the row (`queue/schema.sql`, 321), or
  its draft or price is of no use, which is raised as a partial result. A dead
  letter is left, and only the next request evaluates the item. `ChainCompletes`
  says that nothing less than this stops it.
* `reconcile_mutation` answers CONFLICT when it cannot read the document
  (`item_mutation.py`, 490-504), which the workers report as a lost race with
  `changed = false`: the item is changed, and there is neither an event nor a
  dead letter.
* `dispatch_treatment` swallows an error of the INSERT
  (`workflow_kernel/scheduler.py`, 340) and the evaluation ends "satisfied"
  (`workers/workflow_evaluate.py`, 429); `ChainCompletes` counts this and the
  conflicts with the dead letters, for the document that was evaluated.
* The photographs may go between the choice of `ai-identify` and its commit,
  since they are not part of the generation: `EligibleWhenApplied` excepts them.
* `ScansBounded` counts observations that became canonical. A call to the AI
  whose worker dies before the checkpoint, that fails afterwards, or whose
  commit loses a race is billed without being counted; nothing bounds those but
  the attempts of each row.
* `mark_flake_mutation_executed` moves queued -> succeeded, which
  `ALLOWED_TRANSITIONS` does not list.

### Bounds

A row that a worker holds interacts with the other rows only through the
statements that touch several rows (recovery, bulk cancels, clones and
follow-ups), so one row and two workers are enough for a lease to be lost,
granted again and used by both; two or three rows for the statements that
touch several. `MaxAttempts` 2 gives both a retry and an exhausted row, 1 the
boundary where a transient requeue exceeds the limit. `MaxHiccups` bounds
transient failures per row, which the code does not bound; `MaxFaults` bounds
crashes, lost leases and manual restarts of a chain, since each may add a row.

In `PublicationClosure` three leases are a publisher that lost its lease, its
successor and one more; in `ProviderEffects` and `ItemMutation` two processes,
two authorities or operations and two generations are enough for a
check-then-act pair with a third party that changes what was checked, and for a
content that comes back. `MaxCrashes` of `ItemMutation` is below max_attempts,
as its fairness needs. In `ItemWorkflow` three events are a request, an edit and
a fault in any order, or a request with a death in its commit and a failure of
the retry, of the event or of the next treatment. At most four rows are then
live, so that 5 identities never run out. Where there are proofs
they remove the bounds.

With a bounded set of rows an instance may come to rest, hence `CHECK_DEADLOCK
FALSE`; that nothing gets stuck is what the liveness properties say. Symmetry
is used for safety properties only.

### Fairness

* `JobQueue.FairSpec`: workers poll for ever and a claim takes the due rows in
  order of priority and age, while a retried row waits at least 30 seconds in
  `retry_wait`, so a row that stays claimable is claimed (weak fairness per
  row); a worker that is not killed takes its next step (`_handle_with_deadline`
  ends a handler that hangs, and systemd restarts a dead process); recovery
  runs every 60 seconds in every worker; time passes. Crashes are not fair and
  not bounded. Heartbeats are not fair either, but a herder's next step is:
  its dispatch timeout ends a dispatch that would renew its lease for ever.
* `EnqueueModes.FairSpec`: strong fairness per caller. PostgreSQL grants a
  lock in the order of the requests, so a caller that waits is not overtaken
  for ever.
* `RecurringChain.FairSpec`: the process takes its steps and is restarted;
  claims are strongly fair per row because they are served in order of age and
  the process returns to its loop between them; the lease of a dead process
  runs out and is recovered.
* `PublicationClosure.FairSpec`: a call that is under way takes its next step
  (its statements and file operations return), and the database finishes a
  COMMIT. Nothing is assumed of claims, stops, time or crashes.
* `ItemMutation.FairSpec`: file operations return, and the job of an unfinished
  operation is retried, which the queue does while there are fewer crashes than
  attempts.
* `ItemWorkflow.FairSpec`: workers poll and take the next step of a job, leases
  of dead workers are recovered (within `Crash`), and the HTTP request returns.
  Requests, edits and faults are not fair.

## Proofs

Eight modules hold theorems. All are for every value of the constants, from
the named assumptions of the modules (null values are not identities, kinds of
processes are disjoint, `MaxAttempts` is positive, bounds are numbers). Each
follows the same scheme: `IInv` holds initially (`InitInv`), every action keeps
its type part (`TypeStep`) and its other conjuncts (`InvStep` and its like, one
step per action), and the properties follow from it, action properties
together with one more look at the actions that can disturb them.

| Module | Theorems |
|---|---|
| `JobQueueProofs` | `TypeCorrect`, `LeaseColumnsInvariant`, `SoleHolderInvariant`, `AckMeansReapedInvariant`, `EndedForGood`, `StaleHarmless`; `ImplementsLifecycle` if there are no flake mutations |
| `JobQueueRowsProofs` | `AttemptsBoundedInvariant`, `RetryWaitPromotableInvariant`, `FollowUpExactInvariant`, `CheckpointBound`, `NamedReportsAreUnexpired` |
| `EnqueueModesProofs` | `TypeCorrect`, `ReplacedNotDroppedInvariant`, `IdempotentAgreeInvariant`, `WorkedRowIsSpared`, `IdempotentIsSerialised`, `ImplementsLifecycle` |
| `RecurringChainProofs` | `TypeCorrect`, `ChainAliveInvariant`, `ChainsBoundedInvariant` |
| `PublicationClosureProofs` | `TypeCorrect`, `SuccessKeepsFilesInvariant`, `AnswerHonestInvariant`, `FilesLeaveEvidenceInvariant`, `StopIsHonest`, `FollowsLifecycle` |
| `ProviderEffectsProofs` | `TypeCorrect`, `EngagedNotSupersededInvariant`, `SentOnceInvariant`, `OneUnresolvedInvariant`, `SucceededAppliedInvariant`, `ReservedExactlyAlways`, `SettledForGood`, `ImplementsLedger` |
| `ItemWorkflowProofs` | `TypeCorrect`, `OneActiveInvariant`, `ScansBoundedInvariant`, `AppliedWhenEligible`, `ChainCompletesInvariant` |
| `ItemMutationProofs` | `TypeCorrect`, `ProjectionCurrentInvariant`, `PreimageArchivedInvariant`, `FailedIsNotCanonical`, `ReplacesOnlyExpected`, `ReceiptIsImmutable`, `ImplementsRegister` |

### The queue

`IInv` of `JobQueueProofs` is the type invariant and

* `TokensFresh`: a row's token is 0 or the newest granted on it, a busy
  worker's token was granted on its row, and no two workers have the same.
  Without it a claim could hand out a token that an old worker still has, and
  neither `SoleHolder` nor the harmlessness of stale workers would be
  preserved;
* `LeaseColumns`: needed because the herder's statements compare the token
  alone, and because recovery and the cancelling statements rely on ended rows
  carrying no lease;
* `SoleHolder` itself;
* `RequeueTargets`: the row that an operator session has read is still a dead
  letter or has been cancelled. `requeue_dead_letter_job` writes without
  checking the state again; this is why it can nevertheless never cancel a
  row that someone works on, and why the refinement holds;
* `AckMeansReaped`, which rests on a stop's token being used up once its
  worker has gone back to its loop.

`RowStep` derives from it what any step may do to the state of any row
(`Moves`); `EndedForGood` and `ImplementsLifecycle` follow. The hypothesis of
the last one is necessary: `mark_flake_mutation_executed` moves queued ->
succeeded, which `ALLOWED_TRANSITIONS` does not list, although
`tests/test_invariants_queue_transitions.py` calls that matrix the contract
(checking `RefinesLifecycle` with a non-empty `FlakeJobs` gives the trace).

`JobQueueRowsProofs` puts `RowInv` on top: rows not yet inserted carry nothing
(`Blank`), a row that waits has an attempt left (`Budget`, stronger than
`AttemptsBounded` and inductive, which that is not), and the follow-ups that
are not clones correspond one to one to the treatments that asked for one
(`FollowUps`); the cardinality in `FollowUpExact` comes from it by the
theorems on finite sets.

In `EnqueueModesProofs` the rows that an uncommitted supersede has marked are
locked by one call (`DoomedHeld`), the live key is unique (`KeyUnique`), and an
idempotent call that got past its SELECT still has the advisory lock and still
sees no other idempotent request under the key (`IdempotentLocked`). From the
last one follow both the agreement of idempotent calls and that they collide
only with other modes.

`RecurringChainProofs` says where a successor is known to wait
(`SuccessorWaits`): once a debounce has found one, from the end of
`_reschedule()` to the report, and in the loop; `LeaseKept` adds that the
process has its lease unless there was a death, without which a report could
fail between the run and the hook.

`ChainsBounded` is not inductive: at the moment of an INSERT it has to be known
that there is room. `Counted` counts the live rows by place. Every crash, lost
lease and manual restart pays for one row (`Paid`; a restart pays in its first
transaction and inserts in its second). Up to the INSERT of `_reschedule()`
there is the row that runs and what was paid for; behind it one row more, which
is queued until the process claims again. That it is queued, and not waiting in
`retry_wait`, keeps a process that starts again from adding another, since
`queue_depths` sees queued rows only. The lemmas `CountAdd` and `CountRemove`
carry the bound through the steps by the theorems on finite sets.

### Publication, effects, items, workflow

* `PublicationClosureProofs`: who has the two locks at which place
  (`LocksHeld`), that the row is the publisher's from the relocking to the end
  of the COMMIT, also while the database executes it for a client that has gone
  (`PublisherHasRow`), which workers can have files (`FilesKnown`), and that
  nobody who could undo a success or publish after a refusal is left
  (`AnswersFinal`). `SuccessKeepsFiles` needs all four: the client of a lost
  COMMIT may compensate only after the advisory lock told it that the old
  session is gone. `FollowsLifecycle` adds that every step of the closure, and
  of those who interfere with it, is a step of `JobLifecycle` for its row; that
  a COMMIT finds the row running is again `PublisherHasRow`.
* `ProviderEffectsProofs`: the item lock's holder works on the current
  generation (`ItemLocked`), a validated authority stays valid under its row
  lock and candidates stay candidates (`RowsLocked`), a new authority is its
  session's own (`SessionsFresh`), and a request can only have been sent for an
  effect in the ledger (`RequestsCounted`). Dispatch and supersession exclude
  each other because both hold the authority's row lock from their check to
  their write. `LedgerStep` maps each action: `Reserve` is where the item lock
  and the row lock together make the check current, `Send` where
  `RequestsCounted` shows that no request has left, `SupersedeWrite` where the
  candidates are still active because they are locked. Locking, expiry,
  crashes, observations and uncertain answers are stutters.
* `ItemMutationProofs`: a process holds the lock exactly while it works on an
  operation without receipt or repairs one (`LockHeld`), the document is known
  at each place (`PlacesKnown`), what the journal says is so (`JournalTrue`),
  and a projection that is not current is owed by an operation that a
  reconciler will find (`ProjectionOwed`). The last one is what
  `ProjectionCurrent` needs to survive crashes. `RegisterStep` maps each action:
  the replacement is `Apply`, the publication marker `Confirm`, each way to
  write a receipt `Answer`, and everything else stutters. It needs
  `PlacesKnown`, that the document is the operation's from the replacement to
  the receipt, and that an operation that was applied has an intent and an
  archived preimage, by which a CONFLICT knows that it is none.

* `ItemWorkflowProofs`: every row is sound (`Sound`): it has what its place
  needs, a treatment is eligible for the generation it was dispatched for, and
  an AI observation is of an item that was to be identified and identifies it.
  `ScanLeft`, an item that is to be identified has a scan left, is the
  inductive form of `ScansBounded`: a commit compares the generation, so it
  uses up the scan that its own observation was made for. `EligibleWhenApplied`
  follows because what the row was dispatched for is, at the commit, what the
  item is. For `ChainCompletes`, `Carried` names the row that brings the next
  treatment about: the treatment itself, the one whose result the item is and
  that has still to report, its event, or the evaluation under way; if there is
  none, the item is `Resting` for one of the reasons that the property allows.
  Whatever gives up such a row puts the item into `lost` (`AbandonedCarries`),
  so it remains to show that nothing else loses it. Three more facts keep the
  carrier from being an old one: nobody knows a document with a later stamp than
  the item's (`NothingNewer`), what a row has made has a later stamp than what it
  was made of (`AppliedPast`), so that a commit makes a document that no row was
  made for, and a row for an item that a treatment wrote has not replaced it yet
  (`Untried`), so that it does not end on an old receipt.

### Only model-checked

Liveness, since fairness and ENABLED are out of the prover's reach:
`EveryJobEnds`, `EveryCallReturns`, `RunsForever`, `LockReleased`,
`IntentSettled`, `ComesToRest`. `RefinesLifecycle` is proved of `JobQueue` under
the hypothesis named above and of `EnqueueModes` without one. Every other
safety property of the passing runs is proved as it stands. The type invariants
of the modules other than `JobQueue` are not listed in a run but proved;
`ReplacesOnlyExpected` and `ReservedExactlyAlways` state consequences of the two
refinements directly.

## Not modelled

By far the most of the repository's code lines: the command line, the HTTP
routes and the MCP tools translate requests into calls of what is modelled
here or into reads; the diagnostics, observation and rendering tools of the
host and of Nix, the validation of plans, contracts, receipts and reviews, and
the Flutter apps are computations on documents without concurrent state of
their own. They are listed in `PROJECT.json` with the reason for each. Two
parts that do have a protocol are still open: the ledger of the coding harness
(`development/harness_*.py`) and the release installer with its root effects.

Within the modelled parts: payload contents, error texts, history triggers,
notifications, priorities and the routing of queues by eBay environment (data
that no property here tells apart); the enqueue of the harness queue; quota
(`quota.py`: per-day counters whose check and update are separate; the budget
is advisory); external treatments, timers and ambiguities of the workflow
kernel (a transient requeue of a treatment is a `Crash` of its row, without the
waiting time); `ebay_upload`'s effects. Two known limits of the code that no run
states: a debounced enqueue can raise `UniqueViolation` when the running row
becomes `retry_wait` between its two SELECTs (the recurring workers catch it);
a debounce that extends a retry_wait row replaces the whole payload, an
`observation_checkpoint` included.

## Plan

Done: the queue (`JobQueue`, `EnqueueModes`, `RecurringChain`), then
`PublicationClosure`, `ProviderEffects`, `ItemMutation`, `ItemWorkflow`, each
with its runs and its proofs; the proofs of all safety properties that the
passing runs check; the refinements of `JobLifecycle`, `EffectLedger` and
`ItemRegister`. Next: a module for the coding harness's ledger, and one for the
installer's staged steps.
