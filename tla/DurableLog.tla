------------------------------- MODULE DurableLog -------------------------------
(***************************************************************************)
(* What the write-behind storage of db/sqlite-storage.ts promises: the     *)
(* operations form one log in the order they were issued, a prefix of it   *)
(* is safe, the safe part only grows, and a crash or a batch that is       *)
(* dropped costs no more than what is not safe yet.                        *)
(***************************************************************************)
EXTENDS Naturals, Sequences

CONSTANT Operations

VARIABLES
    log,        \* the operations of the current process and those it found on disk
    saved       \* how many of them would survive a crash

Init == log = <<>> /\ saved = 0

Issue ==
    /\ \E op \in Operations : log' = Append(log, op)
    /\ UNCHANGED saved

Save ==
    /\ saved' \in (saved + 1)..Len(log)
    /\ UNCHANGED log

\* All that is not safe, or the oldest of it.
Drop ==
    /\ \E n \in saved..Len(log) : log' = SubSeq(log, 1, saved) \o SubSeq(log, n + 1, Len(log))
    /\ UNCHANGED saved

Next == Issue \/ Save \/ Drop

Spec == Init /\ [][Next]_<<log, saved>>

=============================================================================
