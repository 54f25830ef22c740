----------------------------- MODULE MCWriteBehind -----------------------------
(* Instances of WriteBehind for TLC. *)
EXTENDS WriteBehind, TLC

CONSTANTS b1, b2, token, square, v1
=============================================================================
