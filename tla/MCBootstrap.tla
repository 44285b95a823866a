---------------------------- MODULE MCBootstrap ----------------------------
(* Model checking of Bootstrap: the values of the constants are in the cfgs. *)
EXTENDS Bootstrap, TLC

(* Passwords are interchangeable. *)
Symmetry == Permutations(Passwords)
=============================================================================
