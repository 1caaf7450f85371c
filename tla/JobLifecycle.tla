---------------------------- MODULE JobLifecycle ----------------------------
(***************************************************************************)
(* What the queue promises about one row of queue_jobs, whoever touches    *)
(* it: the declared transition matrix ALLOWED_TRANSITIONS of               *)
(* tgw/queue/state_machine.py.  The matrix is data in the program: nothing *)
(* consults it at run time, the guards of the SQL statements are what      *)
(* runs.  JobQueue models those statements and is shown to implement this. *)
(***************************************************************************)
EXTENDS Naturals

CONSTANT Jobs            \* the identities queue_jobs rows may have

VARIABLE state           \* state[j]: the state column, "absent" before INSERT

\* The states a row can be in.
STATES == {"queued", "leased", "running", "retry_wait", "succeeded",
           "failed", "dead_letter", "cancelled"}

\* The states the partial index uq_queue_jobs_dedupe_key_active leaves out.
TERMINAL == {"succeeded", "failed", "dead_letter", "cancelled"}

\* The declared matrix.
ALLOWED_TRANSITIONS ==
  [queued      |-> {"leased", "cancelled"},
   leased      |-> {"running", "queued", "cancelled", "dead_letter"},
   running     |-> {"succeeded", "retry_wait", "failed", "queued",
                    "cancelled", "dead_letter"},
   retry_wait  |-> {"queued", "cancelled", "dead_letter"},
   failed      |-> {"dead_letter", "queued", "cancelled"},
   succeeded   |-> {},
   dead_letter |-> {"queued", "cancelled"},
   cancelled   |-> {"queued"}]

\* can_transition: a row moves only along the matrix.
can_transition(old, new) ==
  /\ old \in STATES
  /\ new \in STATES
  /\ new \in ALLOWED_TRANSITIONS[old]

Init == state = [j \in Jobs |-> "absent"]

\* One transaction: every row it touches is inserted as queued or moves along
\* the matrix (recover_expired_jobs, for one, moves several rows at once).
Next ==
  /\ state' \in [Jobs -> STATES \cup {"absent"}]
  /\ \A j \in Jobs :
       \/ state'[j] = state[j]
       \/ state[j] = "absent" /\ state'[j] = "queued"
       \/ can_transition(state[j], state'[j])

Spec == Init /\ [][Next]_state
=============================================================================
