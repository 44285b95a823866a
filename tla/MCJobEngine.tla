---------------------------- MODULE MCJobEngine ----------------------------
(* Model checking of JobEngine: the values of the constants are in the cfgs. *)
EXTENDS JobEngine, TLC

(* The jobs, the workers and the cancel handlers are interchangeable. *)
Symmetry == Permutations(Jobs) \cup Permutations(Workers)
              \cup Permutations(Cancellers)
=============================================================================
