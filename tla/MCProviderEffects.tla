------------------------- MODULE MCProviderEffects -------------------------
(* ProviderEffects on small instances. *)
EXTENDS ProviderEffects, TLC

\* Workers, operators, authorities and generations are interchangeable.
Symmetry == Permutations(Workers) \cup Permutations(Operators)
              \cup Permutations(Auths) \cup Permutations(Gens)
=============================================================================
