----------------------------- MODULE MCReplyDefense -----------------------------
(* Instances of ReplyDefense for TLC. *)
EXTENDS ReplyDefense, TLC

CONSTANTS hi, bye
=============================================================================
