--------------------------- MODULE MCComputeWheel ---------------------------
(* Instances of ComputeWheel for TLC. *)
EXTENDS ComputeWheel

CONSTANTS r1, r2

TwoContexts == <<"us", "eu">>
=============================================================================
