------------------------------ MODULE RateLimiter ------------------------------
(***************************************************************************)
(* Admission control for outbound sends (bot/rate-limiter.ts): one rolling *)
(* window per LINE account.  A send either reserves a slot now or is       *)
(* dropped; nothing is queued.                                             *)
(*                                                                         *)
(* The clock is performance.now(), monotonic, so `now' only grows.         *)
(* `admitted' is a history variable: every send ever let through, which    *)
(* the code does not keep, and against which the window is judged.         *)
(***************************************************************************)
EXTENDS Integers, Sequences

CONSTANTS
    Bots,       \* sending accounts
    MaxSends,   \* SEND_MAX_PER_WINDOW
    Window,     \* SEND_WINDOW_MS
    MaxTime     \* bound on the clock

ASSUME LimiterAssumption ==
    /\ MaxSends \in Nat \ {0}
    /\ Window \in Nat \ {0}
    /\ MaxTime \in Nat

VARIABLES
    now,
    sentAt,     \* states: the times of the sends still inside the window
    deleted,    \* bots whose session was deleted; ids are never reused
    admitted,   \* history: the times of every send admitted for a bot
    retryAt     \* when the last refusal of a bot told its caller to retry, or 0

vars == <<now, sentAt, deleted, admitted, retryAt>>

Init ==
    /\ now = 0
    /\ sentAt = [b \in Bots |-> <<>>]
    /\ deleted = {}
    /\ admitted = [b \in Bots |-> <<>>]
    /\ retryAt = [b \in Bots |-> 0]

Tick ==
    /\ now < MaxTime
    /\ now' = now + 1
    /\ UNCHANGED <<sentAt, deleted, admitted, retryAt>>

-----------------------------------------------------------------------------
\* In this and the other modules a definition whose comment begins "Mutant:" is
\* a broken form of the definition after it; only the mutation checks use it.

\* Mutant: the comparison with the window is off by one.
ExpiredEarly(t) == now - t >= Window - 1

\* The loop that finds firstLive: k sends have left the window, the next has not.
Expired(t) == now - t >= Window

FirstLive(q, k) ==
    /\ k \in 0..Len(q)
    /\ \A i \in 1..k : Expired(q[i])
    /\ k < Len(q) => ~ Expired(q[k + 1])

Live(q, k) == SubSeq(q, k + 1, Len(q))

Admit(b, live) ==
    /\ Len(live) < MaxSends
    /\ sentAt' = [sentAt EXCEPT ![b] = Append(live, now)]
    /\ admitted' = [admitted EXCEPT ![b] = Append(@, now)]
    /\ retryAt' = [retryAt EXCEPT ![b] = 0]

\* Mutant: retryAfterMs is measured from the newest send instead of the oldest.
RefuseFromNewest(b, live) ==
    /\ Len(live) >= MaxSends
    /\ sentAt' = [sentAt EXCEPT ![b] = live]
    /\ retryAt' = [retryAt EXCEPT ![b] = now + (Window - (now - live[Len(live)]))]
    /\ UNCHANGED admitted

\* retryAfterMs = WINDOW_MS - (now - sentAt[0]), counted from now.
Refuse(b, live) ==
    /\ Len(live) >= MaxSends
    /\ sentAt' = [sentAt EXCEPT ![b] = live]
    /\ retryAt' = [retryAt EXCEPT ![b] = now + (Window - (now - live[1]))]
    /\ UNCHANGED admitted

TryAcquireSend(b) ==
    /\ b \notin deleted
    /\ \E k \in 0..Len(sentAt[b]) :
          /\ FirstLive(sentAt[b], k)
          /\ Admit(b, Live(sentAt[b], k)) \/ Refuse(b, Live(sentAt[b], k))
    /\ UNCHANGED <<now, deleted>>

\* deleteBotSession is the only caller for a real bot id.
ClearThrottle(b) ==
    /\ b \notin deleted
    /\ deleted' = deleted \cup {b}
    /\ sentAt' = [sentAt EXCEPT ![b] = <<>>]
    /\ retryAt' = [retryAt EXCEPT ![b] = 0]
    /\ UNCHANGED <<now, admitted>>

Next ==
    \/ Tick
    \/ \E b \in Bots : TryAcquireSend(b) \/ ClearThrottle(b)

Spec == Init /\ [][Next]_vars

-----------------------------------------------------------------------------
TypeOK ==
    /\ now \in Nat
    /\ sentAt \in [Bots -> Seq(Nat)]
    /\ deleted \in SUBSET Bots
    /\ admitted \in [Bots -> Seq(Nat)]
    /\ retryAt \in [Bots -> Nat]

\* The safety net itself: however sends and expiries interleave, any two
\* sends of one account that are MaxSends apart are at least a whole window
\* apart, so no window of that length ever holds more than MaxSends of them.
WindowBound ==
    \A b \in Bots : \A i \in 1..Len(admitted[b]) :
        i + MaxSends <= Len(admitted[b])
            => admitted[b][i + MaxSends] - admitted[b][i] >= Window

\* A slot would be granted right now.
CanSend(b) ==
    \E k \in 0..Len(sentAt[b]) :
        FirstLive(sentAt[b], k) /\ Len(Live(sentAt[b], k)) < MaxSends

\* The wait a refused caller is told (testSend shows it to the operator) is
\* exact: before it has passed a send is still refused, afterwards it is not.
RetryAfterIsExact ==
    \A b \in Bots : retryAt[b] # 0 => (CanSend(b) <=> now >= retryAt[b])

=============================================================================
