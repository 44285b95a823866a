---------------------------- MODULE MCLogStream ----------------------------
(* Model checking of LogStream: the values of the constants are in the cfgs. *)
EXTENDS LogStream, TLC

(* The slots for stream handlers are interchangeable. *)
Symmetry == Permutations(Conns)
=============================================================================
