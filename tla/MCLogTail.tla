----------------------------- MODULE MCLogTail ------------------------------
(* Model checking of LogTail: the values of the constants are in the cfgs. *)
EXTENDS LogTail
=============================================================================
