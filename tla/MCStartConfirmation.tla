------------------------- MODULE MCStartConfirmation -------------------------
(* Two bots, two tokens and two processes, with time for a token to expire. *)
EXTENDS StartConfirmation, TLC

Symmetry == Permutations(Tokens)
=============================================================================
