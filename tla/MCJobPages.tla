----------------------------- MODULE MCJobPages -----------------------------
(* Model checking of JobPages: the values of the constants are in the cfgs. *)
EXTENDS JobPages
=============================================================================
