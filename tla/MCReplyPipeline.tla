---------------------------- MODULE MCReplyPipeline ----------------------------
(* Instances of ReplyPipeline for TLC: two bots of one owner and one of nobody. *)
EXTENDS ReplyPipeline, TLC

CONSTANTS b1, b2, b3, alice, ping, pong

Fleet == [b \in Bots |-> IF b = b3 THEN None ELSE alice]
Created == [b \in Bots |-> IF b = b1 THEN 1 ELSE IF b = b2 THEN 2 ELSE 3]

\* b1 and b3 answer ping; b2 answers what b1 answers with, and ping too.
Rules == [b \in Bots |-> [t \in Texts |-> IF t = ping THEN pong
                                          ELSE IF b = b2 THEN ping ELSE None]]
=============================================================================
