--------------------------- MODULE MCScheduledPosts ---------------------------
(* Instances of ScheduledPosts for TLC: the posts of one account. *)
EXTENDS ScheduledPosts, TLC

CONSTANT b1

Owner == [p \in Posts |-> b1]
=============================================================================
