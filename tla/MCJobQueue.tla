----------------------------- MODULE MCJobQueue -----------------------------
(* JobQueue on small instances. *)
EXTENDS JobQueue, TLC

\* Workers of one kind, rows and operators are interchangeable.
Symmetry == Permutations(QueueWorkers) \cup Permutations(Herders)
              \cup Permutations(Jobs \ FlakeJobs) \cup Permutations(Operators)
=============================================================================
