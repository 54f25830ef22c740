---------------------------- MODULE MCFastPollSlots ----------------------------
(* Instances of FastPollSlots for TLC: two bots of one user and one of another. *)
EXTENDS FastPollSlots

CONSTANTS b1, b2, b3, r1, r2

MCBots == {b1, b2, b3}
MCOwner == [b \in MCBots |-> IF b = b3 THEN "other" ELSE "user"]
MCJoined == [b \in MCBots |-> IF b = b1 THEN {r1, r2} ELSE {r1}]
=============================================================================
