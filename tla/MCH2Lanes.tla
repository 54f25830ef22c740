------------------------------ MODULE MCH2Lanes ------------------------------
(* Instances of H2Lanes for TLC: two lanes of one pool. *)
EXTENDS H2Lanes

CONSTANT MaxAfterRedial

\* Once a lane has been dialled over a session of its own the sessions that lie
\* about multiply the states: fewer of them are followed from there.
Bounded == redialed => Cardinality(InUse) <= MaxAfterRedial
=============================================================================
