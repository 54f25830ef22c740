-------------------------- MODULE MCSessionLifecycle --------------------------
(* Instances of SessionLifecycle for TLC: see the README for the bounds. *)
EXTENDS SessionLifecycle, TLC

Symmetry == Permutations(Runtimes) \cup Permutations(Attempts) \cup Permutations(Mids)
            \cup Permutations(Names)

\* What is left in an object nothing refers to tells no two states apart.
Seen ==
    <<runtime, [r \in Runtimes |-> IF FreeRuntime(r)
                   THEN [rt[r] EXCEPT !.stopRequested = TRUE, !.gen = 0, !.failures = 0]
                   ELSE rt[r]],
      [a \in Attempts |-> IF Referenced(a) THEN attempt[a] ELSE None],
      listening, probes, inflight, token, lock, exempt, status, bot, nameOf, boot, toResume, crashes>>
=============================================================================
