---------------------------- MODULE MCSquareReceive ----------------------------
(* Instances of SquareReceive for TLC. *)
EXTENDS SquareReceive

CONSTANT MaxChains  \* how many chains of requests are followed

Bounded ==
    BagCardinality(requests) + BagCardinality(delayed)
        + Cardinality({i \in DOMAIN queue : queue[i].kind = "reply"}) <= MaxChains
=============================================================================
