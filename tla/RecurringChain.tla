--------------------------- MODULE RecurringChain ---------------------------
(***************************************************************************)
(* A self-rescheduling queue (token_refresh, velocity_stats, ebay_sync,    *)
(* ebay_dole, ebay_price_reducer, ebay_legacy_sync, sync_conflict): each   *)
(* run enqueues the next one under the key "<queue>:pending", so the chain *)
(* of runs has to survive failures, crashes and lost leases.               *)
(*                                                                         *)
(* One process serves the queue (systemd unit tgw-worker@<queue>); leases  *)
(* are recovered by the workers of every queue.  Whether a lease is still  *)
(* the process's own is one Boolean (JobQueue has the tokens), and         *)
(* not_before is left out.  A chain has no end: the identity of a row that *)
(* ended is used again for a new one.                                      *)
(***************************************************************************)
EXTENDS Naturals, FiniteSets

CONSTANTS
  Rows,            \* identities of live rows
  MaxAttempts,
  MaxFaults,       \* bound: crashes, lost leases and uses of restart-ebay-token
  NoRow

ASSUME RowsAssumption == IsFiniteSet(Rows) /\ Rows # {} /\ NoRow \notin Rows
ASSUME BoundsAssumption ==
  /\ MaxAttempts \in Nat \ {0}
  /\ MaxFaults \in Nat

VARIABLES
  startup,    \* run() enqueues a job when none is queued (not token_refresh's)
  state, keyed, attempts,  \* columns; keyed: dedupe_key is not NULL
  pc,         \* where the process is
  after,      \* where it goes when its enqueue_job call has returned
  held,       \* the row it is processing
  mine,       \* the row's lease is still the one it was handed
  seen,       \* the pending rows that the debounce SELECT found
  cli,        \* restart-ebay-token between its two transactions
  deaths,     \* history: crashes and lost leases
  restarts    \* history: uses of restart-ebay-token

rows == <<state, keyed, attempts>>
vars == <<rows, pc, after, held, mine, seen, cli, deaths, restarts, startup>>

Pending  == {"queued", "retry_wait"}
Active   == {"leased", "running"}
Terminal == {"succeeded", "dead_letter", "cancelled"}

Keyed(S) == {r \in Rows : keyed[r] /\ state[r] \in S}
Live     == {r \in Rows : state[r] \in Pending \cup Active}

-----------------------------------------------------------------------------
\* Someone has enqueued the first run, and the process is about to start.
Init ==
  LET first == CHOOSE r \in Rows : TRUE IN
    /\ startup \in BOOLEAN
    /\ state = [r \in Rows |-> IF r = first THEN "queued" ELSE "absent"]
    /\ keyed = [r \in Rows |-> r = first]
    /\ attempts = [r \in Rows |-> 0]
    /\ pc = "down"
    /\ after = "loop"
    /\ held = NoRow
    /\ mine = FALSE
    /\ seen = {}
    /\ cli = "idle"
    /\ deaths = 0
    /\ restarts = 0

\* The process is gone; systemd will start it again.
Gone ==
  /\ pc' = "down"
  /\ after' = "loop"
  /\ held' = NoRow
  /\ mine' = FALSE
  /\ seen' = {}

\* The row has been reported: back to the claim loop, or first to the hook.
Reported(next) ==
  /\ pc' = next
  /\ after' = "loop"
  /\ held' = NoRow
  /\ mine' = FALSE
  /\ UNCHANGED <<seen, cli, deaths, restarts, startup>>

-----------------------------------------------------------------------------
\* Mutant: a row that somebody runs counts as queued depth too.
Depth_WithActive == Cardinality(Live)

\* queue_depths counts queued rows only.
Depth == Cardinality({r \in Rows : state[r] = "queued"})

(* run(): enqueue the startup job when the queue is empty, then loop. *)
Boot ==
  /\ pc = "down"
  /\ pc' = IF startup /\ Depth = 0 THEN "select" ELSE "loop"
  /\ after' = "loop"
  /\ UNCHANGED <<rows, held, mine, seen, cli, deaths, restarts, startup>>

Claim(r) ==
  /\ pc = "loop"
  /\ state[r] = "queued"
  /\ state' = [state EXCEPT ![r] = "leased"]
  /\ attempts' = [attempts EXCEPT ![r] = @ + 1]
  /\ pc' = "claimed"
  /\ held' = r
  /\ mine' = TRUE
  /\ UNCHANGED <<keyed, after, seen, cli, deaths, restarts, startup>>

MarkRunning ==
  /\ pc = "claimed"
  /\ mine
  /\ state' = [state EXCEPT ![held] = "running"]
  /\ pc' = "handling"
  /\ UNCHANGED <<keyed, attempts, after, held, mine, seen, cli, deaths,
                 restarts, startup>>

(* handle() has done its work and calls _reschedule() before it returns. *)
Handled ==
  /\ pc = "handling"
  /\ pc' = "select"
  /\ after' = "report"
  /\ UNCHANGED <<rows, held, mine, seen, cli, deaths, restarts, startup>>

MarkSucceeded ==
  /\ pc = "report"
  /\ mine
  /\ state' = [state EXCEPT ![held] = "succeeded"]
  /\ Reported("loop")
  /\ UNCHANGED <<keyed, attempts>>

\* _on_terminal_failure calls _reschedule().
TerminalHook == "select"

\* Mutant: the hook runs after every failure.
MarkFailed_AlwaysHook ==
  /\ pc = "handling"
  /\ mine
  /\ state' = [state EXCEPT ![held] = IF attempts[held] >= MaxAttempts
                                     THEN "dead_letter" ELSE "retry_wait"]
  /\ Reported(TerminalHook)
  /\ UNCHANGED <<keyed, attempts>>

(* handle() raised: the row waits for its retry, or is dead and the hook
   runs.  A transient error starts the attempts again. *)
MarkFailed ==
  LET exhausted == attempts[held] >= MaxAttempts IN
  /\ pc = "handling"
  /\ mine
  /\ state' = [state EXCEPT ![held] =
                 IF exhausted THEN "dead_letter" ELSE "retry_wait"]
  /\ Reported(IF exhausted THEN TerminalHook ELSE "loop")
  /\ UNCHANGED <<keyed, attempts>>

MarkDeadLetter ==
  /\ pc = "handling"
  /\ mine
  /\ state' = [state EXCEPT ![held] = "dead_letter"]
  /\ Reported(TerminalHook)
  /\ UNCHANGED <<keyed, attempts>>

RequeueWithBackoff ==
  /\ pc = "handling"
  /\ mine
  /\ state' = [state EXCEPT ![held] = "retry_wait"]
  /\ attempts' = [attempts EXCEPT ![held] = 1]
  /\ Reported("loop")
  /\ UNCHANGED keyed

\* The guarded UPDATE matched no row: the RuntimeError ends the process.
LeaseLost ==
  /\ pc \in {"claimed", "handling", "report"}
  /\ ~mine
  /\ Gone
  /\ UNCHANGED <<rows, cli, deaths, restarts, startup>>

Crash ==
  /\ pc # "down"
  /\ deaths + restarts < MaxFaults
  /\ deaths' = deaths + 1
  /\ Gone
  /\ UNCHANGED <<rows, cli, restarts, startup>>

-----------------------------------------------------------------------------
\* The identities that nothing refers to (bound: Rows), and the one of a new row:
\* they are interchangeable, so any will do.
Unused == {r \in Rows \ (seen \cup {held}) : state[r] \in Terminal \cup {"absent"}}
NewRow == CHOOSE r \in Unused : TRUE

\* INSERT of a new row, under the key or with dedupe_key NULL.
InsertRow(withKey) ==
  /\ Unused # {}
  /\ state' = [state EXCEPT ![NewRow] = "queued"]
  /\ keyed' = [keyed EXCEPT ![NewRow] = withKey]
  /\ attempts' = [attempts EXCEPT ![NewRow] = 0]

(* enqueue_job(debounce=True): look for a pending row of the key ... *)
Select ==
  /\ pc = "select"
  /\ seen' = Keyed(Pending)
  /\ pc' = "write"
  /\ UNCHANGED <<rows, after, held, mine, cli, deaths, restarts, startup>>

(* ... extend it; or insert beside an active one with no key; or insert with
   the key, and swallow the UniqueViolation if the row has become pending. *)
Write ==
  /\ pc = "write"
  /\ \/ seen # {} /\ UNCHANGED rows
     \/ seen = {} /\ Keyed(Active) # {} /\ InsertRow(FALSE)
     \/ seen = {} /\ Keyed(Active) = {} /\ Keyed(Pending) # {} /\ UNCHANGED rows
     \/ seen = {} /\ Keyed(Active) = {} /\ Keyed(Pending) = {} /\ InsertRow(TRUE)
  /\ pc' = after
  /\ seen' = {}
  /\ UNCHANGED <<after, held, mine, cli, deaths, restarts, startup>>

-----------------------------------------------------------------------------
(* recover_expired_jobs(), run by the workers of any queue: a lease whose
   process died, or one that its handler has outlived ... *)
Recover(r) ==
  /\ state[r] \in Active
  /\ \/ r # held /\ UNCHANGED <<mine, deaths>>
     \/ /\ r = held /\ deaths + restarts < MaxFaults
        /\ mine' = FALSE /\ deaths' = deaths + 1
  /\ state' = [state EXCEPT ![r] = IF attempts[r] >= MaxAttempts
                                   THEN "dead_letter" ELSE "queued"]
  /\ UNCHANGED <<keyed, attempts, pc, after, held, seen, cli, restarts, startup>>

\* Mutant: rows without a key are overlooked.
Promote_Keyed(r) ==
  /\ keyed[r]
  /\ state[r] = "retry_wait"
  /\ state' = [state EXCEPT ![r] = "queued"]
  /\ UNCHANGED <<keyed, attempts, pc, after, held, mine, seen, cli, deaths,
                 restarts, startup>>

(* ... and a row whose retry is due. *)
Promote(r) ==
  /\ state[r] = "retry_wait"
  /\ state' = [state EXCEPT ![r] = "queued"]
  /\ UNCHANGED <<keyed, attempts, pc, after, held, mine, seen, cli, deaths,
                 restarts, startup>>

(* tgw restart-ebay-token: clear_dead_letter ... *)
ClearDeadLetter ==
  /\ ~startup
  /\ cli = "idle"
  /\ deaths + restarts < MaxFaults
  /\ restarts' = restarts + 1
  /\ cli' = "enqueue"
  /\ state' = [r \in Rows |-> IF state[r] = "dead_letter" THEN "cancelled"
                              ELSE state[r]]
  /\ UNCHANGED <<keyed, attempts, pc, after, held, mine, seen, deaths, startup>>

(* ... then enqueue_job(supersede=True): the pending row is cancelled and the
   new one inserted, or, if the key is being run, the command fails. *)
Supersede ==
  /\ cli = "enqueue"
  /\ cli' = "idle"
  /\ \/ Keyed(Active) # {} /\ UNCHANGED rows
     \/ /\ Keyed(Active) = {} /\ Unused # {}
        /\ state' = [r \in Rows |->
                       IF r = NewRow THEN "queued"
                       ELSE IF r \in Keyed(Pending \cup {"dead_letter"})
                            THEN "cancelled" ELSE state[r]]
        /\ keyed' = [keyed EXCEPT ![NewRow] = TRUE]
        /\ attempts' = [attempts EXCEPT ![NewRow] = 0]
  /\ UNCHANGED <<pc, after, held, mine, seen, deaths, restarts, startup>>

-----------------------------------------------------------------------------
\* What the process does by itself; how handle() ends is a choice.
ProcessStep ==
  \/ Boot
  \/ MarkRunning
  \/ Handled
  \/ MarkSucceeded
  \/ MarkFailed
  \/ MarkDeadLetter
  \/ RequeueWithBackoff
  \/ LeaseLost
  \/ Select
  \/ Write

Next ==
  \/ ProcessStep
  \/ \E r \in Rows : Claim(r)
  \/ Crash
  \/ \E r \in Rows : Recover(r) \/ Promote(r)
  \/ ClearDeadLetter
  \/ Supersede

Spec == Init /\ [][Next]_vars

\* The process polls and is restarted; claims are served in order of age;
\* leases run out and are recovered, retries become due.
FairSpec ==
  /\ Spec
  /\ WF_vars(ProcessStep)
  /\ \A r \in Rows : SF_vars(Claim(r))
  /\ \A r \in Rows : WF_vars(r # held /\ Recover(r)) /\ WF_vars(Promote(r))

-----------------------------------------------------------------------------
\* Columns and locals have their types.
TypeOK ==
  /\ state \in [Rows -> Pending \cup Active \cup Terminal \cup {"absent"}]
  /\ keyed \in [Rows -> BOOLEAN]
  /\ attempts \in [Rows -> Nat]
  /\ pc \in {"down", "loop", "claimed", "handling", "report", "select", "write"}
  /\ after \in {"loop", "report"}
  /\ held \in Rows \cup {NoRow}
  /\ mine \in BOOLEAN
  /\ seen \subseteq Rows
  /\ cli \in {"idle", "enqueue"}
  /\ deaths \in 0..MaxFaults
  /\ restarts \in 0..MaxFaults
  /\ startup \in BOOLEAN

\* What keeps a chain going: the startup job, or, for token_refresh, only the
\* hook, which runs in the process that served the row.
Protected == startup \/ deaths = 0

\* "a single dead-lettered job ends the chain forever with no future job ever
\* enqueued" is what the hook is for: whenever the process is back in its
\* loop, a next run exists, in whatever way the last one ended.  A queue with a
\* startup job keeps its chain through crashes and lost leases too;
\* token_refresh, which has none, keeps it only while there are neither.
ChainAlive == pc = "loop" /\ Protected => Live # {}

\* The chain goes on for ever: again and again a run is handled.
RunsForever == []<>(Protected => pc = "handling")

\* A restart during a run adds a row without a key, which no debounce finds,
\* and such a row can run beside the chain for a long time; but rows do not
\* multiply by themselves: there is one run and its successor, and at most one
\* row more for every crash, lost lease or manual restart.
ChainsBounded == Cardinality(Live) <= 2 + deaths + restarts
=============================================================================
