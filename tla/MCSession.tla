----------------------------- MODULE MCSession ------------------------------
(* Model checking of Session: the values of the constants are in the cfgs. *)
EXTENDS Session, TLC

(* The tabs are interchangeable. *)
Symmetry == Permutations(Tabs)
=============================================================================
