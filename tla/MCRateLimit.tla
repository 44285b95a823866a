--------------------------- MODULE MCRateLimit ----------------------------
(* Model checking of RateLimit: the values of the constants are in the cfgs. *)
EXTENDS RateLimit, TLC

(* Requests of one IP are interchangeable. *)
Symmetry == Permutations(Requests)
=============================================================================
