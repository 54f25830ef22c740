------------------------- MODULE ScheduledPosts_proofs -------------------------
(***************************************************************************)
(* The send limiter and the posts that share it, for every window length,  *)
(* every quota and every number of accounts, posts, edits and restarts.    *)
(*                                                                         *)
(* WindowBound alone is not inductive: the step needs to know that         *)
(* `sentAt' is exactly the tail of the history that can still be inside    *)
(* the window (TailOf below).  That a post goes out on time rests on       *)
(* timers that always carry the time of the content their row has now;     *)
(* that it goes out once, on an account of who may still post a content:   *)
(* its timer, its send, or nobody.                                         *)
(***************************************************************************)
EXTENDS ScheduledPosts, FiniteSetTheorems, SequenceTheorems, WellFoundedInduction, TLAPS

-----------------------------------------------------------------------------
(* The limiter by itself, under its own specification. *)

\* What is left of a sequence of times once its first k are spliced off.
LEMMA LiveProperties ==
    ASSUME NEW q \in Seq(Nat), NEW k \in 0..Len(q)
    PROVE  /\ Live(q, k) \in Seq(Nat)
           /\ Len(Live(q, k)) = Len(q) - k
           /\ \A i \in 1..(Len(q) - k) : Live(q, k)[i] = q[k + i]
<1>1. Len(q) \in Nat /\ \A i \in k + 1 .. Len(q) : q[i] \in Nat
  OBVIOUS
<1>2. /\ SubSeq(q, k + 1, Len(q)) \in Seq(Nat)
      /\ Len(SubSeq(q, k + 1, Len(q))) =
            IF k + 1 <= Len(q) THEN Len(q) - (k + 1) + 1 ELSE 0
      /\ \A i \in 1 .. Len(q) - (k + 1) + 1 :
            SubSeq(q, k + 1, Len(q))[i] = q[k + 1 + i - 1]
  BY <1>1, SubSeqProperties
<1>3. QED
  BY <1>1, <1>2 DEF Live

LEMMA StepType == TypeOK /\ [Next]_vars => TypeOK'
<1> SUFFICES ASSUME TypeOK, [Next]_vars PROVE TypeOK'
  OBVIOUS
<1> USE LimiterAssumption
<1>1. CASE Tick
  BY <1>1 DEF Tick, TypeOK
<1>2. ASSUME NEW b \in Bots, TryAcquireSend(b) PROVE TypeOK'
  <2>1. PICK k \in 0..Len(sentAt[b]) :
           /\ FirstLive(sentAt[b], k)
           /\ Admit(b, Live(sentAt[b], k)) \/ Refuse(b, Live(sentAt[b], k))
    BY <1>2 DEF TryAcquireSend
  <2> DEFINE live == Live(sentAt[b], k)
  <2>q. sentAt[b] \in Seq(Nat)
    BY DEF TypeOK
  <2>2. /\ live \in Seq(Nat)
        /\ Len(live) = Len(sentAt[b]) - k
        /\ \A i \in 1..(Len(sentAt[b]) - k) : live[i] = sentAt[b][k + i]
    BY <2>q, LiveProperties
  <2> HIDE DEF live
  <2>3. now \in Nat /\ now' = now /\ deleted' = deleted
    BY <1>2 DEF TryAcquireSend, TypeOK
  <2>4. CASE Admit(b, live)
    <3>1. Append(live, now) \in Seq(Nat) /\ Append(admitted[b], now) \in Seq(Nat)
      BY <2>2, <2>3, AppendProperties DEF TypeOK
    <3>2. QED
      BY <2>3, <2>4, <3>1 DEF Admit, TypeOK
  <2>5. CASE Refuse(b, live)
    <3>1. k + 1 <= Len(sentAt[b]) /\ live[1] = sentAt[b][k + 1]
      BY <2>q, <2>2, <2>5 DEF Refuse
    <3>2. live[1] \in Nat /\ now - live[1] < Window
      BY <2>q, <2>1, <2>3, <3>1 DEF FirstLive, Expired
    <3>3. now + (Window - (now - live[1])) \in Nat
      BY <3>2, <2>3
    <3>4. QED
      BY <2>2, <2>3, <2>5, <3>3 DEF Refuse, TypeOK
  <2>6. QED
    BY <2>1, <2>4, <2>5 DEF live
<1>3. ASSUME NEW b \in Bots, ClearThrottle(b) PROVE TypeOK'
  <2>1. <<>> \in Seq(Nat)
    OBVIOUS
  <2>2. QED
    BY <1>3, <2>1 DEF ClearThrottle, TypeOK
<1>4. CASE UNCHANGED vars
  BY <1>4 DEF vars, TypeOK
<1>5. QED
  BY <1>1, <1>2, <1>3, <1>4 DEF Next

\* The type invariant of the limiter, for every value of the constants.
THEOREM TypeCorrect == Spec => []TypeOK
<1>1. Init => TypeOK
  BY DEF Init, TypeOK
<1>2. QED
  BY <1>1, StepType, PTL DEF Spec

-----------------------------------------------------------------------------
\* The sequence q is the end of the history h, and all of h before it has
\* left the window.
TailOf(h, q) ==
    /\ Len(q) <= Len(h)
    /\ \A i \in 1..Len(q) : q[i] = h[Len(h) - Len(q) + i]
    /\ \A i \in 1..(Len(h) - Len(q)) : Expired(h[i])

Spaced(h) ==
    \A i \in 1..Len(h) : i + MaxSends <= Len(h) => h[i + MaxSends] - h[i] >= Window

IInv ==
    /\ TypeOK
    /\ \A b \in Bots : b \notin deleted => TailOf(admitted[b], sentAt[b])
    /\ WindowBound

\* Splicing off the expired sends leaves a tail of the history.
LEMMA SpliceKeepsTail ==
    ASSUME NEW h \in Seq(Nat), NEW q \in Seq(Nat), NEW k \in 0..Len(q),
           TailOf(h, q), FirstLive(q, k)
    PROVE  TailOf(h, Live(q, k))
<1>0. Len(h) - Len(q) \in Nat
  BY DEF TailOf
<1>3. PICK d \in Nat : d = Len(h) - Len(q)
  BY <1>0, Zenon
<1>1. PICK v \in Seq(Nat) : v = Live(q, k)
  BY LiveProperties
<1>2. Len(v) = Len(q) - k /\ \A i \in 1..(Len(q) - k) : v[i] = q[k + i]
  BY <1>1, LiveProperties
<1>4. Len(v) <= Len(h)
  BY <1>2 DEF TailOf
<1>5. ASSUME NEW i \in 1..Len(v) PROVE v[i] = h[Len(h) - Len(v) + i]
  <2>1. k + i \in 1..Len(q) /\ v[i] = q[k + i]
    BY <1>2
  <2>2. q[k + i] = h[Len(h) - Len(q) + (k + i)]
    BY <2>1 DEF TailOf
  <2>3. Len(h) - Len(q) + (k + i) = Len(h) - Len(v) + i
    BY <1>2
  <2>4. QED
    BY <2>1, <2>2, <2>3
<1>6. ASSUME NEW i \in 1..(Len(h) - Len(v)) PROVE Expired(h[i])
  <2>1. CASE i <= d
    BY <1>3, <2>1 DEF TailOf
  <2>2. CASE i > d
    <3>0. Len(h) - Len(v) = d + k
      BY <1>2, <1>3
    <3>1. i - d \in 1..k /\ i - d \in 1..Len(q)
      BY <2>2, <3>0
    <3>2. Expired(q[i - d])
      BY <3>1 DEF FirstLive
    <3>3. q[i - d] = h[Len(h) - Len(q) + (i - d)]
      BY <3>1 DEF TailOf
    <3>4. Len(h) - Len(q) + (i - d) = i
      BY <1>3
    <3>5. QED
      BY <3>2, <3>3, <3>4
  <2>3. QED
    BY <1>3, <2>1, <2>2
<1>7. QED
  BY <1>1, <1>4, <1>5, <1>6 DEF TailOf

\* Reserving a slot extends the history and its tail together.
LEMMA AdmitKeepsTail ==
    ASSUME NEW h \in Seq(Nat), NEW q \in Seq(Nat), now \in Nat, TailOf(h, q)
    PROVE  TailOf(Append(h, now), Append(q, now))
<1>1. PICK g \in Seq(Nat), v \in Seq(Nat) : g = Append(h, now) /\ v = Append(q, now)
  BY AppendProperties
<1>2. /\ Len(g) = Len(h) + 1 /\ Len(v) = Len(q) + 1
      /\ \A i \in 1..Len(h) : g[i] = h[i]
      /\ \A i \in 1..Len(q) : v[i] = q[i]
      /\ g[Len(h) + 1] = now /\ v[Len(q) + 1] = now
  BY <1>1, AppendProperties
<1>3. Len(v) <= Len(g)
  BY <1>2 DEF TailOf
<1>4. ASSUME NEW i \in 1..Len(v) PROVE v[i] = g[Len(g) - Len(v) + i]
  <2>1. CASE i <= Len(q)
    <3>0. i \in 1..Len(q) /\ v[i] = q[i]
      BY <1>2, <2>1
    <3>1. v[i] = h[Len(h) - Len(q) + i]
      BY <3>0 DEF TailOf
    <3>2. Len(h) - Len(q) + i \in 1..Len(h)
      BY <2>1 DEF TailOf
    <3>3. Len(g) - Len(v) + i = Len(h) - Len(q) + i
      BY <1>2
    <3>4. QED
      BY <1>2, <3>1, <3>2, <3>3
  <2>2. CASE i = Len(q) + 1
    <3>1. Len(g) - Len(v) + i = Len(h) + 1
      BY <1>2, <2>2
    <3>2. QED
      BY <1>2, <2>2, <3>1
  <2>3. QED
    BY <1>2, <2>1, <2>2
<1>5. ASSUME NEW i \in 1..(Len(g) - Len(v)) PROVE Expired(g[i])
  <2>1. i \in 1..(Len(h) - Len(q)) /\ i \in 1..Len(h)
    BY <1>2 DEF TailOf
  <2>2. QED
    BY <1>2, <2>1 DEF TailOf
<1>6. QED
  BY <1>1, <1>3, <1>4, <1>5 DEF TailOf

\* A send admitted beside fewer than MaxSends live ones is a whole window
\* after the send MaxSends places before it.
LEMMA AdmitKeepsSpaced ==
    ASSUME NEW h \in Seq(Nat), NEW q \in Seq(Nat), now \in Nat,
           TailOf(h, q), Spaced(h), Len(q) < MaxSends
    PROVE  Spaced(Append(h, now))
<1> USE LimiterAssumption
<1>1. PICK g \in Seq(Nat) : g = Append(h, now)
  BY AppendProperties
<1>2. /\ Len(g) = Len(h) + 1
      /\ \A i \in 1..Len(h) : g[i] = h[i]
      /\ g[Len(h) + 1] = now
  BY <1>1, AppendProperties
<1>3. ASSUME NEW i \in 1..Len(g), i + MaxSends <= Len(g)
      PROVE  g[i + MaxSends] - g[i] >= Window
  <2>1. i \in 1..Len(h)
    BY <1>2, <1>3
  <2>2. CASE i + MaxSends <= Len(h)
    <3>0. i + MaxSends \in 1..Len(h)
      BY <2>2
    <3>1. g[i] = h[i] /\ g[i + MaxSends] = h[i + MaxSends]
      BY <1>2, <2>1, <3>0
    <3>2. QED
      BY <2>1, <2>2, <3>1 DEF Spaced
  <2>3. CASE i + MaxSends = Len(h) + 1
    <3>1. i \in 1..(Len(h) - Len(q))
      BY <2>1, <2>3
    <3>2. now - h[i] >= Window
      BY <3>1 DEF TailOf, Expired
    <3>3. g[i + MaxSends] = now /\ g[i] = h[i]
      BY <1>2, <2>1, <2>3
    <3>4. QED
      BY <3>2, <3>3
  <2>4. i + MaxSends <= Len(h) \/ i + MaxSends = Len(h) + 1
    <3>1. \A m, n \in Nat : m <= n + 1 => m <= n \/ m = n + 1
      OBVIOUS
    <3>2. i + MaxSends \in Nat /\ Len(h) \in Nat /\ i + MaxSends <= Len(h) + 1
      BY <1>2, <1>3
    <3>3. QED
      BY <3>1, <3>2
  <2>5. QED
    BY <2>2, <2>3, <2>4
<1>4. QED
  BY <1>1, <1>3 DEF Spaced

-----------------------------------------------------------------------------
LEMMA InitIInv == Init => IInv
<1> SUFFICES ASSUME Init PROVE IInv
  OBVIOUS
<1>1. TypeOK
  BY DEF Init, TypeOK
<1>2. \A b \in Bots : sentAt[b] = <<>> /\ admitted[b] = <<>>
  BY DEF Init
<1>3. TailOf(<<>>, <<>>)
  BY DEF TailOf
<1>4. WindowBound
  BY <1>2 DEF WindowBound
<1>5. QED
  BY <1>1, <1>2, <1>3, <1>4 DEF IInv

\* What is older than a window stays so.
LEMMA StaysExpired ==
    \A n, m, t, w \in Nat : m = n + 1 /\ n - t >= w => m - t >= w
OBVIOUS

LEMMA StepIInv == IInv /\ TypeOK' /\ [Next]_vars => IInv'
<1> SUFFICES ASSUME IInv, TypeOK', [Next]_vars PROVE IInv'
  OBVIOUS
<1>t. /\ now \in Nat
      /\ sentAt \in [Bots -> Seq(Nat)]
      /\ admitted \in [Bots -> Seq(Nat)]
  BY DEF IInv, TypeOK
<1>s. WindowBound <=> \A b \in Bots : Spaced(admitted[b])
  BY DEF WindowBound, Spaced
<1>p. WindowBound' <=> \A b \in Bots : Spaced(admitted'[b])
  BY DEF WindowBound, Spaced
<1>1. CASE Tick
  <2>1. now' = now + 1 /\ UNCHANGED <<sentAt, deleted, admitted>>
    BY <1>1 DEF Tick
  <2>2. ASSUME NEW h \in Seq(Nat), NEW q \in Seq(Nat), TailOf(h, q)
        PROVE  TailOf(h, q)'
    <3>1. ASSUME NEW i \in 1..(Len(h) - Len(q)) PROVE Expired(h[i])'
      <4>1. now - h[i] >= Window
        BY <2>2 DEF TailOf, Expired
      <4>2. h[i] \in Nat /\ now \in Nat /\ Window \in Nat
        BY <1>t, <2>2, LimiterAssumption DEF TailOf
      <4>3. now' = now + 1
        BY <2>1
      <4>4. now' - h[i] >= Window
        BY <4>1, <4>2, <4>3, StaysExpired
      <4>5. QED
        BY <4>4 DEF Expired
    <3>2. QED
      BY <2>2, <3>1 DEF TailOf
  <2>3. ASSUME NEW b \in Bots, b \notin deleted
        PROVE  TailOf(admitted[b], sentAt[b])'
    BY <1>t, <2>1, <2>2, <2>3 DEF IInv
  <2>4. QED
    BY <1>s, <1>p, <2>1, <2>3 DEF IInv
<1>2. ASSUME NEW b \in Bots, TryAcquireSend(b) PROVE IInv'
  <2>1. PICK k \in 0..Len(sentAt[b]) :
           /\ FirstLive(sentAt[b], k)
           /\ Admit(b, Live(sentAt[b], k)) \/ Refuse(b, Live(sentAt[b], k))
    BY <1>2 DEF TryAcquireSend
  <2>2. PICK live \in Seq(Nat) : live = Live(sentAt[b], k)
    BY <1>t, LiveProperties
  <2>3. now' = now /\ deleted' = deleted /\ b \notin deleted
    BY <1>2 DEF TryAcquireSend
  <2>4. TailOf(admitted[b], live)
    BY <1>t, <2>1, <2>2, <2>3, SpliceKeepsTail DEF IInv
  <2>5. CASE Admit(b, live)
    <3>1. /\ Len(live) < MaxSends
          /\ sentAt' = [sentAt EXCEPT ![b] = Append(live, now)]
          /\ admitted' = [admitted EXCEPT ![b] = Append(admitted[b], now)]
      BY <2>5 DEF Admit
    <3>2. TailOf(Append(admitted[b], now), Append(live, now))
      BY <1>t, <2>4, AdmitKeepsTail
    <3>3. Spaced(Append(admitted[b], now))
      BY <1>t, <1>s, <2>4, <3>1, AdmitKeepsSpaced DEF IInv
    <3>4. ASSUME NEW c \in Bots, c \notin deleted PROVE TailOf(admitted[c], sentAt[c])'
      <4>1. CASE c = b
        BY <1>t, <2>3, <3>1, <3>2, <4>1 DEF TailOf, Expired
      <4>2. CASE c # b
        BY <1>t, <2>3, <3>1, <3>4, <4>2 DEF IInv, TailOf, Expired
      <4>3. QED
        BY <4>1, <4>2
    <3>5. ASSUME NEW c \in Bots PROVE Spaced(admitted'[c])
      BY <1>t, <1>s, <3>1, <3>3 DEF IInv
    <3>6. QED
      BY <1>p, <2>3, <3>4, <3>5 DEF IInv
  <2>6. CASE Refuse(b, live)
    <3>1. sentAt' = [sentAt EXCEPT ![b] = live] /\ admitted' = admitted
      BY <2>6 DEF Refuse
    <3>2. ASSUME NEW c \in Bots, c \notin deleted PROVE TailOf(admitted[c], sentAt[c])'
      <4>1. CASE c = b
        BY <1>t, <2>3, <2>4, <3>1, <4>1 DEF TailOf, Expired
      <4>2. CASE c # b
        BY <1>t, <2>3, <3>1, <3>2, <4>2 DEF IInv, TailOf, Expired
      <4>3. QED
        BY <4>1, <4>2
    <3>3. QED
      BY <1>s, <1>p, <2>3, <3>1, <3>2 DEF IInv
  <2>7. QED
    BY <2>1, <2>2, <2>5, <2>6
<1>3. ASSUME NEW b \in Bots, ClearThrottle(b) PROVE IInv'
  <2>1. /\ now' = now /\ admitted' = admitted
        /\ deleted' = deleted \cup {b}
        /\ sentAt' = [sentAt EXCEPT ![b] = <<>>]
    BY <1>3 DEF ClearThrottle
  <2>2. ASSUME NEW c \in Bots, c \notin deleted' PROVE TailOf(admitted[c], sentAt[c])'
    <3>1. c # b /\ c \notin deleted
      BY <2>1, <2>2
    <3>2. QED
      BY <1>t, <2>1, <3>1 DEF IInv, TailOf, Expired
  <2>3. QED
    BY <1>s, <1>p, <2>1, <2>2 DEF IInv
<1>4. CASE UNCHANGED vars
  <2>1. /\ now' = now /\ admitted' = admitted /\ deleted' = deleted /\ sentAt' = sentAt
    BY <1>4 DEF vars
  <2>2. QED
    BY <1>s, <1>p, <2>1 DEF IInv, TailOf, Expired
<1>5. QED
  BY <1>1, <1>2, <1>3, <1>4 DEF Next

\* No window of SEND_WINDOW_MS ever holds more than SEND_MAX_PER_WINDOW sends
\* of one account, for every value of both and every schedule of sends,
\* refusals, expiries and deletions.
THEOREM WindowBounded == Spec => []WindowBound
<1>1. IInv => WindowBound
  BY DEF IInv
<1>2. QED
  BY <1>1, InitIInv, StepIInv, TypeCorrect, PTL DEF Spec
-----------------------------------------------------------------------------
(* What a refused caller is told. *)

\* A set of positions has a last one.
LEMMA LastPosition ==
    ASSUME NEW n \in Nat, NEW I \in SUBSET (0..n), I # {}
    PROVE  \E i \in I : \A j \in I : j <= i
<1> DEFINE below == {p \in Nat \X Nat : p[1] < p[2]}
           T == {n - i : i \in I}
<1>1. IsWellFoundedOn(below, Nat)
  <2>1. below = OpToRel(<, Nat)
    BY DEF OpToRel
  <2>2. QED
    BY <2>1, NatLessThanWellFounded
<1>2. T \subseteq Nat /\ T # {}
  <2>1. \A i \in I : i \in 0..n /\ n - i \in Nat
    OBVIOUS
  <2>2. T \subseteq Nat
    BY <2>1
  <2>3. T # {}
    BY ZenonT(20)
  <2>4. QED
    BY <2>2, <2>3
<1>3. PICK x \in T : \A y \in T : <<y, x>> \notin below
  <2> HIDE DEF below, T
  <2>1. QED
    BY <1>1, <1>2, WFMin
<1>4. PICK i \in I : x = n - i
  OBVIOUS
<1>5. ASSUME NEW j \in I PROVE j <= i
  <2>1. n - j \in T /\ n - j \in Nat /\ x \in Nat
    OBVIOUS
  <2>2. ~ (n - j < x)
    BY <1>3, <2>1
  <2>3. QED
    BY <1>4, <2>1, <2>2
<1>6. QED
  BY <1>5

\* The loop always ends: every queue has an expired prefix.
LEMMA FirstLiveExists ==
    ASSUME NEW q \in Seq(Nat)
    PROVE  \E k \in 0..Len(q) : FirstLive(q, k)
<1> DEFINE I == {k \in 0..Len(q) : \A i \in 1..k : Expired(q[i])}
<1>1. 0 \in I /\ Len(q) \in Nat
  OBVIOUS
<1>2. PICK k \in I : \A j \in I : j <= k
  <2> HIDE DEF I
  <2>1. I \in SUBSET (0..Len(q)) /\ I # {}
    BY <1>1 DEF I
  <2>2. QED
    BY <1>1, <2>1, LastPosition
<1>3. k < Len(q) => ~ Expired(q[k + 1])
  <2>1. SUFFICES ASSUME k < Len(q), Expired(q[k + 1]) PROVE FALSE
    OBVIOUS
  <2>2. k + 1 \in 0..Len(q) /\ \A i \in 1..(k + 1) : i \in 1..k \/ i = k + 1
    BY <2>1
  <2>3. k + 1 \in I
    BY <2>1, <2>2
  <2>4. k + 1 <= k
    BY <1>2, <2>3
  <2>5. QED
    BY <2>4
<1>4. QED
  BY <1>2, <1>3 DEF FirstLive

\* A refusal leaves a full queue behind, and the time told is when its oldest
\* send leaves the window.
RetryInv ==
    \A b \in Bots : /\ Len(sentAt[b]) <= MaxSends
                    /\ retryAt[b] # 0 => /\ Len(sentAt[b]) = MaxSends
                                         /\ retryAt[b] = sentAt[b][1] + Window

LEMMA InitRetry == Init => RetryInv
<1>1. Len(<<>>) = 0 /\ 0 <= MaxSends
  BY LimiterAssumption
<1>2. QED
  BY <1>1, Zenon DEF Init, RetryInv

LEMMA StepRetry == TypeOK /\ RetryInv /\ [Next]_vars => RetryInv'
<1> SUFFICES ASSUME TypeOK, RetryInv, [Next]_vars PROVE RetryInv'
  OBVIOUS
<1>1. CASE Tick
  BY <1>1 DEF Tick, RetryInv
<1>2. ASSUME NEW b \in Bots, TryAcquireSend(b) PROVE RetryInv'
  <2>1. PICK k \in 0..Len(sentAt[b]) :
           /\ FirstLive(sentAt[b], k)
           /\ Admit(b, Live(sentAt[b], k)) \/ Refuse(b, Live(sentAt[b], k))
    BY <1>2 DEF TryAcquireSend
  <2>2. PICK live \in Seq(Nat) :
           /\ live = Live(sentAt[b], k)
           /\ Len(live) = Len(sentAt[b]) - k
    BY LiveProperties DEF TypeOK
  <2>3. Len(sentAt[b]) \in Nat /\ Len(sentAt[b]) <= MaxSends /\ MaxSends \in Nat \ {0}
    BY LimiterAssumption DEF RetryInv, TypeOK
  <2>4. Len(live) \in Nat /\ Len(live) <= MaxSends
    BY <2>2, <2>3
  <2>5. CASE Admit(b, live)
    <3>1. /\ Len(live) < MaxSends
          /\ sentAt' = [sentAt EXCEPT ![b] = Append(live, now)]
          /\ retryAt' = [retryAt EXCEPT ![b] = 0]
      BY <2>5 DEF Admit
    <3>2. Len(Append(live, now)) = Len(live) + 1
      BY <2>2, AppendProperties DEF TypeOK
    <3>3. QED
      BY <2>3, <2>4, <3>1, <3>2 DEF RetryInv, TypeOK
  <2>6. CASE Refuse(b, live)
    <3>1. /\ Len(live) >= MaxSends
          /\ sentAt' = [sentAt EXCEPT ![b] = live]
          /\ retryAt' = [retryAt EXCEPT ![b] = now + (Window - (now - live[1]))]
      BY <2>6 DEF Refuse
    <3>2. Len(live) = MaxSends
      BY <2>3, <2>4, <3>1
    <3>3. live[1] \in Nat
      BY <2>2, <2>3, <3>2
    <3>4. now + (Window - (now - live[1])) = live[1] + Window
      BY <3>3, LimiterAssumption DEF TypeOK
    <3>5. QED
      BY <2>4, <3>1, <3>2, <3>4 DEF RetryInv, TypeOK
  <2>7. QED
    BY <2>1, <2>2, <2>5, <2>6
<1>3. ASSUME NEW b \in Bots, ClearThrottle(b) PROVE RetryInv'
  <2>1. /\ sentAt' = [sentAt EXCEPT ![b] = <<>>]
        /\ retryAt' = [retryAt EXCEPT ![b] = 0]
    BY <1>3 DEF ClearThrottle
  <2>2. Len(<<>>) = 0
    OBVIOUS
  <2>3. QED
    BY <2>1, <2>2, LimiterAssumption DEF RetryInv, TypeOK
<1>4. CASE UNCHANGED vars
  BY <1>4 DEF vars, RetryInv
<1>5. QED
  BY <1>1, <1>2, <1>3, <1>4 DEF Next

LEMMA RetryIsExact == TypeOK /\ RetryInv => RetryAfterIsExact
<1> SUFFICES ASSUME TypeOK, RetryInv, NEW b \in Bots, retryAt[b] # 0
             PROVE  CanSend(b) <=> now >= retryAt[b]
  BY DEF RetryAfterIsExact
<1> DEFINE q == sentAt[b]
<1>1. /\ q \in Seq(Nat) /\ now \in Nat
      /\ Len(q) = MaxSends /\ retryAt[b] = q[1] + Window
      /\ MaxSends \in Nat \ {0} /\ Window \in Nat \ {0}
  BY LimiterAssumption DEF TypeOK, RetryInv
<1> HIDE DEF q
<1>2. q[1] \in Nat
  BY <1>1
<1>3. \A k \in 0..Len(q) : Len(Live(q, k)) = Len(q) - k
  BY <1>1, LiveProperties
<1>4. ASSUME CanSend(b) PROVE now >= retryAt[b]
  <2>1. PICK k \in 0..Len(q) : FirstLive(q, k) /\ Len(Live(q, k)) < MaxSends
    BY <1>4 DEF CanSend, q
  <2>2. k >= 1
    BY <1>1, <1>3, <2>1
  <2>3. Expired(q[1])
    BY <2>1, <2>2 DEF FirstLive
  <2>4. QED
    BY <1>1, <1>2, <2>3 DEF Expired
<1>5. ASSUME now >= retryAt[b] PROVE CanSend(b)
  <2>1. Expired(q[1])
    BY <1>1, <1>2, <1>5 DEF Expired
  <2>2. PICK k \in 0..Len(q) : FirstLive(q, k)
    BY <1>1, FirstLiveExists
  <2>3. k # 0
    BY <1>1, <2>1, <2>2 DEF FirstLive
  <2>4. Len(Live(q, k)) < MaxSends
    BY <1>1, <1>3, <2>3
  <2>5. QED
    BY <2>2, <2>4 DEF CanSend, q
<1>6. QED
  BY <1>4, <1>5

\* The wait a refused caller is told ends with the very tick at which a send is
\* granted again, whatever happened in between.
THEOREM RetryExact == Spec => []RetryAfterIsExact
<1>1. QED
  BY InitRetry, StepRetry, RetryIsExact, TypeCorrect, PTL DEF Spec

-----------------------------------------------------------------------------
(* The parts of the invariant. *)

\* A bot that was deleted has no client.
OnlineLive == online \cap deleted = {}

\* A timer is for the content its post has now, and sends it no earlier.
TimersMatch ==
    \A t \in timers : /\ row[t.post] # None
                      /\ t.runAt = row[t.post].runAt
                      /\ t.stage \/ t.due >= t.runAt

OneTimer == \A t, u \in timers : t.post = u.post => t = u

\* The contents are numbered as they are submitted.
Numbered ==
    /\ \A p \in Posts : row[p] # None => row[p].rev <= revisions
    /\ \A p, q \in Posts :
          row[p] # None /\ row[q] # None /\ row[p].rev = row[q].rev => p = q
    /\ \A f \in flying : f.rev <= revisions
    /\ \A r \in Revisions : r > revisions => posted[r] = 0

\* Who may still post a content in the life of this process: its one timer, or
\* its one request that has not landed; and then this process has not yet.
Ledger ==
    /\ \A r \in Revisions : posted[r] <= 1 + crashes
    /\ \A f, g \in flying : f.rev = g.rev => f = g
    /\ \A f \in flying : ~ f.landed => posted[f.rev] <= crashes
    /\ \A t \in timers : /\ posted[row[t.post].rev] <= crashes
                         /\ \A f \in flying : f.rev # row[t.post].rev

Core == /\ PostTypeOK
        /\ TimersMatch /\ OneTimer /\ Numbered /\ Ledger
        /\ OnTimeOrNever /\ PendingIsArmed

-----------------------------------------------------------------------------
(* The operators. *)

LEMMA TimerFacts ==
    ASSUME NEW time \in Nat, NEW p \in Posts, NEW at \in Nat
    PROVE  /\ TimerSetAt(time, p, at) \in Timers
           /\ TimerSetAt(time, p, at).post = p
           /\ TimerSetAt(time, p, at).runAt = at
           /\ TimerSetAt(time, p, at).stage \/ TimerSetAt(time, p, at).due >= at
<1>1. MaxTimeout \in Nat
  BY PostsAssumption
<1>2. CASE at - time > MaxTimeout
  <2>1. TimerSetAt(time, p, at) =
           [post |-> p, runAt |-> at, stage |-> TRUE, due |-> time + MaxTimeout]
    BY <1>2 DEF TimerSetAt
  <2>2. time + MaxTimeout \in Nat
    BY <1>1
  <2>3. QED
    BY <2>1, <2>2 DEF Timers
<1>3. CASE ~ (at - time > MaxTimeout)
  <2>1. TimerSetAt(time, p, at) =
           [post |-> p, runAt |-> at, stage |-> FALSE, due |-> NotBefore(at, time)]
    BY <1>3 DEF TimerSetAt
  <2>2. NotBefore(at, time) \in Nat /\ NotBefore(at, time) >= at
    BY DEF NotBefore
  <2>3. QED
    BY <2>1, <2>2 DEF Timers
<1>4. QED
  BY <1>2, <1>3

\* A step that only settles rows: what is in them, and whose, stays.
SameContent ==
    /\ row' \in [Posts -> Rows \cup {None}]
    /\ \A q \in Posts : /\ row'[q] = None <=> row[q] = None
                        /\ row[q] # None => /\ row'[q].rev = row[q].rev
                                            /\ row'[q].runAt = row[q].runAt
                                            /\ Pending(q)' => Pending(q)

LEMMA RowFacts ==
    ASSUME NEW r \in Rows
    PROVE  /\ r # None
           /\ [r EXCEPT !.enabled = FALSE] \in Rows
           /\ [r EXCEPT !.enabled = FALSE] # None
           /\ [r EXCEPT !.enabled = FALSE].rev = r.rev
           /\ [r EXCEPT !.enabled = FALSE].runAt = r.runAt
           /\ [r EXCEPT !.enabled = FALSE].enabled = FALSE
           /\ [r EXCEPT !.sent = TRUE] \in Rows
           /\ [r EXCEPT !.sent = TRUE] # None
           /\ [r EXCEPT !.sent = TRUE].rev = r.rev
           /\ [r EXCEPT !.sent = TRUE].runAt = r.runAt
           /\ [r EXCEPT !.sent = TRUE].sent = TRUE
           /\ [r EXCEPT !.sent = TRUE].enabled = r.enabled
<1>1. None \notin Rows
  BY PostsAssumption, Zenon DEF Rows, Revisions
<1>2. QED
  BY <1>1 DEF Rows

LEMMA SettledRow ==
    ASSUME PostTypeOK, NEW p \in Posts, Disable(p) \/ MarkSent(p)
    PROVE  SameContent /\ ~ Pending(p)'
<1>1. row \in [Posts -> Rows \cup {None}]
  BY DEF PostTypeOK
<1>2. ASSUME NEW q \in Posts
      PROVE  /\ row'[q] \in Rows \cup {None}
             /\ row'[q] = None <=> row[q] = None
             /\ row[q] # None => /\ row'[q].rev = row[q].rev
                                 /\ row'[q].runAt = row[q].runAt
                                 /\ Pending(q)' => Pending(q)
             /\ q = p => ~ Pending(q)'
  <2>1. CASE q = p /\ row[q] # None
    <3>1. row[q] \in Rows
      BY <1>1, <2>1
    <3>2. CASE Disable(p)
      <4>1. row'[q] = [row[q] EXCEPT !.enabled = FALSE]
        BY <2>1, <3>2 DEF Disable
      <4>2. PICK s \in Rows : /\ s = row'[q] /\ s # None /\ ~ s.enabled
                             /\ s.rev = row[q].rev /\ s.runAt = row[q].runAt
        BY <3>1, <4>1, RowFacts, Zenon
      <4>3. QED
        BY <2>1, <4>2 DEF Pending
    <3>3. CASE MarkSent(p)
      <4>1. row'[q] = [row[q] EXCEPT !.sent = TRUE]
        BY <2>1, <3>3 DEF MarkSent
      <4>2. PICK s \in Rows : /\ s = row'[q] /\ s # None /\ s.sent
                             /\ s.rev = row[q].rev /\ s.runAt = row[q].runAt
        BY <3>1, <4>1, RowFacts, Zenon
      <4>3. QED
        BY <2>1, <4>2 DEF Pending
    <3>4. QED
      BY <3>2, <3>3
  <2>2. CASE ~ (q = p /\ row[q] # None)
    <3>1. row'[q] = row[q]
      BY <2>2 DEF Disable, MarkSent
    <3>2. QED
      BY <1>1, <2>2, <3>1 DEF Pending
  <2>3. QED
    BY <2>1, <2>2
<1>3. row' = [q \in Posts |-> row'[q]]
  BY DEF Disable, MarkSent
<1>4. row' \in [Posts -> Rows \cup {None}]
  BY <1>2, <1>3
<1>5. QED
  BY <1>2, <1>4 DEF SameContent
LEMMA SameRow == PostTypeOK /\ UNCHANGED row => SameContent
  BY DEF PostTypeOK, SameContent, Pending

-----------------------------------------------------------------------------
(* The limiter takes its own steps, or is made anew by a restart. *)

LimiterInv == IInv /\ RetryInv

LEMMA LimiterSteps ==
    ASSUME PostTypeOK, OnlineLive, PostNext
    PROVE  [Next]_vars \/ CrashAndBoot
<1>1. CASE Clock
  BY <1>1 DEF Clock, Next
<1>2. CASE \E p \in Posts : CreatePost(p) \/ UpdatePost(p) \/ DeletePost(p)
  BY <1>2 DEF CreatePost, UpdatePost, DeletePost
<1>3. CASE Fire
  <2>1. PICK t \in timers : FireStage(t) \/ FireSettled(t) \/ FireMissed(t) \/ FireSend(t)
    BY <1>3 DEF Fire
  <2>2. CASE FireStage(t) \/ FireSettled(t) \/ FireMissed(t)
    BY <2>2 DEF FireStage, FireSettled, FireMissed
  <2>3. CASE FireSend(t)
    <3>1. PICK b \in Bots : b = BotOf[t.post] /\ b \in online
      BY <2>3, PostsAssumption DEF FireSend, PostTypeOK, Timers
    <3>2. b \notin deleted
      BY <3>1 DEF OnlineLive
    <3>3. TryAcquireSend(b)
      BY <2>3, <3>1, <3>2 DEF FireSend, TryAcquireSend
    <3>4. QED
      BY <3>3 DEF Next
  <2>4. QED
    BY <2>1, <2>2, <2>3
<1>4. CASE Land \/ Settle
  BY <1>4 DEF Land, Settle
<1>5. CASE \E b \in Bots : Connect(b) \/ Disconnect(b) \/ OtherSend(b) \/ DeleteBot(b)
  BY <1>5 DEF Connect, Disconnect, OtherSend, DeleteBot, Next
<1>6. QED
  BY <1>1, <1>2, <1>3, <1>4, <1>5 DEF PostNext

\* A restart forgets the sends of the window, and those it judges them by.
LEMMA CrashLimiter == IInv /\ CrashAndBoot => LimiterInv'
<1> SUFFICES ASSUME IInv, CrashAndBoot PROVE LimiterInv'
  OBVIOUS
<1>1. /\ now' \in now..MaxTime /\ deleted' = deleted
      /\ sentAt' = [b \in Bots |-> <<>>]
      /\ admitted' = [b \in Bots |-> <<>>]
      /\ retryAt' = [b \in Bots |-> 0]
  BY DEF CrashAndBoot
<1>2. <<>> \in Seq(Nat) /\ Len(<<>>) = 0 /\ 0 <= MaxSends
  BY LimiterAssumption
<1>3. TypeOK'
  BY <1>1, <1>2, LimiterAssumption DEF IInv, TypeOK
<1>4. \A b \in Bots : /\ sentAt'[b] = <<>> /\ admitted'[b] = <<>> /\ retryAt'[b] = 0
  BY <1>1
<1>5. TailOf(<<>>, <<>>)'
  BY DEF TailOf
<1>6. WindowBound'
  BY <1>4 DEF WindowBound
<1>7. \A b \in Bots : b \notin deleted' => TailOf(admitted[b], sentAt[b])'
  BY <1>4, <1>5
<1>8. RetryInv'
  BY <1>2, <1>4, Zenon DEF RetryInv
<1>9. QED
  BY <1>3, <1>6, <1>7, <1>8 DEF LimiterInv, IInv

LEMMA StepLimiter ==
    LimiterInv /\ PostTypeOK /\ OnlineLive /\ [PostNext]_allVars => LimiterInv'
<1> SUFFICES ASSUME LimiterInv, PostTypeOK, OnlineLive, [PostNext]_allVars PROVE LimiterInv'
  OBVIOUS
<1>1. TypeOK
  BY DEF LimiterInv, IInv
<1>2. [Next]_vars \/ CrashAndBoot
  BY LimiterSteps DEF allVars
<1>3. CASE [Next]_vars
  BY <1>1, <1>3, StepType, StepIInv, StepRetry DEF LimiterInv
<1>4. CASE CrashAndBoot
  BY <1>4, CrashLimiter DEF LimiterInv
<1>5. QED
  BY <1>2, <1>3, <1>4
-----------------------------------------------------------------------------
(* The steps, in the groups that disturb the same parts. *)

\* Timers and sends only go away, and with them the post they were for.
LEMMA Given ==
    ASSUME Core, NEW p \in Posts, SameContent, ~ Pending(p)',
           timers' \subseteq timers, \A t \in timers : t.post # p => t \in timers',
           flying' \subseteq flying, \A f \in flying : f.post # p => f \in flying',
           UNCHANGED <<used, revisions, posted, crashes>>, online' \subseteq Bots
    PROVE  Core'
<1>t. /\ \A t \in timers : t.post \in Posts /\ t.runAt \in Nat
      /\ \A f \in flying : f.post \in Posts
      /\ row \in [Posts -> Rows \cup {None}]
  BY DEF Core, PostTypeOK, Timers, Flights
<1>1. PostTypeOK'
  BY DEF Core, PostTypeOK, SameContent
<1>2. TimersMatch' /\ OneTimer'
  BY <1>t DEF Core, TimersMatch, OneTimer, SameContent
<1>3. Numbered'
  BY <1>t DEF Core, Numbered, SameContent
<1>4. Ledger'
  <2>1. \A t \in timers' : row'[t.post].rev = row[t.post].rev
    BY <1>t DEF Core, TimersMatch, SameContent
  <2>2. QED
    BY <2>1 DEF Core, Ledger
<1>5. OnTimeOrNever'
  BY DEF Core, OnTimeOrNever
<1>6. PendingIsArmed'
  <2>1. SUFFICES ASSUME NEW q \in Posts, Pending(q)'
                 PROVE  \/ \E t \in timers' : t.post = q /\ t.runAt = row'[q].runAt
                        \/ \E f \in flying' : f.post = q /\ f.rev = row'[q].rev
    BY DEF PendingIsArmed
  <2>2. q # p
    BY <2>1
  <2>3. row[q] # None
    BY <2>1 DEF SameContent, Pending
  <2>4. Pending(q) /\ row'[q].runAt = row[q].runAt /\ row'[q].rev = row[q].rev
    BY <2>1, <2>3 DEF SameContent
  <2>5. \/ \E t \in timers : t.post = q /\ t.runAt = row[q].runAt
        \/ \E f \in flying : f.post = q /\ f.rev = row[q].rev
    BY <2>4 DEF Core, PendingIsArmed
  <2>6. QED
    BY <2>2, <2>4, <2>5
<1>7. QED
  BY <1>1, <1>2, <1>3, <1>4, <1>5, <1>6 DEF Core

LEMMA NewRow ==
    \A n \in Revisions, at \in Nat, on \in BOOLEAN : \E r \in Rows :
        /\ r = [rev |-> n, runAt |-> at, enabled |-> on, sent |-> FALSE]
        /\ r.rev = n /\ r.runAt = at /\ r.enabled = on
<1> TAKE n \in Revisions, at \in Nat, on \in BOOLEAN
<1> DEFINE r == [rev |-> n, runAt |-> at, enabled |-> on, sent |-> FALSE]
<1>1. r \in Rows
  BY Zenon DEF Rows
<1>2. r.rev = n /\ r.runAt = at
  OBVIOUS
<1>3. r.enabled = on
  BY Zenon
<1>4. QED
  BY <1>1, <1>2, <1>3, Zenon

\* Operators' steps: a new content, and its timer.
LEMMA Submitted ==
    ASSUME Core, now \in Nat, NEW p \in Posts, Submit(p), used' \subseteq Posts,
           UNCHANGED <<flying, online, posted, crashes>>
    PROVE  Core'
<1>1. PICK at \in RunTimes, on \in BOOLEAN :
         row' = [row EXCEPT ![p] = [rev |-> revisions + 1, runAt |-> at,
                                    enabled |-> on, sent |-> FALSE]]
  BY DEF Submit
<1>2. /\ revisions < MaxRevisions /\ revisions' = revisions + 1
      /\ timers' = Synced(p, row'[p])
  BY DEF Submit
<1>t. /\ row \in [Posts -> Rows \cup {None}] /\ timers \subseteq Timers
      /\ flying \subseteq Flights
      /\ revisions \in 0..MaxRevisions /\ MaxRevisions \in Nat /\ at \in Nat
  BY PostsAssumption DEF Core, PostTypeOK
<1>3. PICK r \in Rows : /\ r = row'[p] /\ r.rev = revisions + 1
                        /\ r.runAt = at /\ r.enabled = on
  <2>1. row'[p] = [rev |-> revisions + 1, runAt |-> at, enabled |-> on, sent |-> FALSE]
    BY <1>1, <1>t
  <2>2. PICK n \in Revisions : n = revisions + 1
    BY <1>2, <1>t DEF Revisions
  <2>3. at \in Nat
    BY <1>t
  <2>4. PICK r \in Rows : /\ r = [rev |-> n, runAt |-> at, enabled |-> on, sent |-> FALSE]
                         /\ r.rev = n /\ r.runAt = at /\ r.enabled = on
    BY <1>1, <2>3, NewRow
  <2>5. r = row'[p]
    BY <2>1, <2>2, <2>4, Zenon
  <2>6. QED
    BY <2>2, <2>4, <2>5, Zenon
<1>4. r # None
  BY RowFacts
<1>5. \A q \in Posts : q # p => row'[q] = row[q]
  BY <1>1, <1>t
<1>6. row' \in [Posts -> Rows \cup {None}]
  BY <1>1, <1>3, <1>t
<1>7. PICK new \in Timers : /\ new = Timer(p, at) /\ new.post = p /\ new.runAt = at
                            /\ new.stage \/ new.due >= at
  BY <1>t, TimerFacts DEF Timer
<1>8. timers' = Disarmed(p) \cup (IF on THEN {new} ELSE {})
  BY <1>2, <1>3, <1>7 DEF Synced
<1>9. /\ \A t \in timers' : (t \in timers /\ t.post # p) \/ (t = new /\ on)
      /\ \A t \in timers : t.post # p => t \in timers'
      /\ on => new \in timers'
  BY <1>8 DEF Disarmed
<1>10. \A t \in timers : t.post \in Posts
  BY <1>t DEF Timers
<1>11. PostTypeOK'
  BY <1>2, <1>6, <1>7, <1>9, <1>t DEF Core, PostTypeOK
<1>12. TimersMatch'
  BY <1>3, <1>4, <1>5, <1>7, <1>9, <1>10 DEF Core, TimersMatch
<1>13. OneTimer'
  BY <1>7, <1>9 DEF Core, OneTimer
<1>14. Numbered'
  <2>1. \A q \in Posts : q # p /\ row[q] # None => row[q].rev <= revisions /\ row[q].rev \in Nat
    BY <1>t DEF Core, Numbered, Rows, Revisions
  <2>2. \A f \in flying : f.rev <= revisions /\ f.rev \in Nat
    BY <1>t DEF Core, Numbered, Flights, Revisions
  <2>3. \A q \in Posts : row'[q] # None => row'[q].rev <= revisions'
    BY <1>2, <1>3, <1>5, <1>t, <2>1
  <2>4. \A q, v \in Posts :
           row'[q] # None /\ row'[v] # None /\ row'[q].rev = row'[v].rev => q = v
    <3>1. SUFFICES ASSUME NEW q \in Posts, NEW v \in Posts, row'[q] # None, row'[v] # None,
                          row'[q].rev = row'[v].rev
                   PROVE  q = v
      OBVIOUS
    <3>2. CASE q # p /\ v # p
      BY <1>5, <3>1, <3>2 DEF Core, Numbered
    <3>3. CASE q = p
      BY <1>3, <1>5, <1>t, <2>1, <3>1, <3>3
    <3>4. CASE v = p
      BY <1>3, <1>5, <1>t, <2>1, <3>1, <3>4
    <3>5. QED
      BY <3>2, <3>3, <3>4
  <2>5. \A f \in flying' : f.rev <= revisions'
    BY <1>2, <1>t, <2>2
  <2>6. \A k \in Revisions : k > revisions' => posted'[k] = 0
    BY <1>2, <1>t DEF Core, Numbered, Revisions
  <2>7. QED
    BY <2>3, <2>4, <2>5, <2>6 DEF Numbered
<1>15. Ledger'
  <2>1. posted[r.rev] = 0
    BY <1>2, <1>3, <1>t DEF Core, Numbered, Rows, Revisions
  <2>2. \A f \in flying : f.rev # r.rev
    BY <1>3, <1>t DEF Core, Numbered, Flights, Revisions
  <2>3. crashes \in Nat
    BY DEF Core, PostTypeOK
  <2>4. ASSUME NEW t \in timers'
        PROVE  posted[row'[t.post].rev] <= crashes /\ \A f \in flying : f.rev # row'[t.post].rev
    <3>1. CASE t \in timers /\ t.post # p
      BY <1>5, <1>10, <3>1 DEF Core, Ledger
    <3>2. CASE t = new
      BY <1>3, <1>7, <2>1, <2>2, <2>3, <3>2
    <3>3. QED
      BY <1>9, <3>1, <3>2
  <2>5. QED
    BY <2>4 DEF Core, Ledger
<1>16. OnTimeOrNever'
  BY DEF Core, OnTimeOrNever
<1>17. PendingIsArmed'
  <2>1. SUFFICES ASSUME NEW q \in Posts, Pending(q)'
                 PROVE  \/ \E t \in timers' : t.post = q /\ t.runAt = row'[q].runAt
                        \/ \E f \in flying' : f.post = q /\ f.rev = row'[q].rev
    BY DEF PendingIsArmed
  <2>2. CASE q = p
    BY <1>3, <1>7, <1>9, <2>1, <2>2 DEF Pending
  <2>3. CASE q # p
    <3>1. Pending(q) /\ row'[q] = row[q]
      BY <1>5, <2>1, <2>3 DEF Pending
    <3>2. QED
      BY <1>9, <2>3, <3>1 DEF Core, PendingIsArmed
  <2>4. QED
    BY <2>2, <2>3
<1>18. QED
  BY <1>11, <1>12, <1>13, <1>14, <1>15, <1>16, <1>17 DEF Core

\* Rows disappear, with their timers.
LEMMA Removed ==
    ASSUME Core, NEW Gone \in SUBSET Posts,
           row' \in [Posts -> Rows \cup {None}],
           \A q \in Posts : row'[q] = IF q \in Gone THEN None ELSE row[q],
           timers' = {t \in timers : t.post \notin Gone},
           UNCHANGED <<used, flying, revisions, posted, crashes>>, online' \subseteq Bots
    PROVE  Core'
<1>t. /\ \A t \in timers : t.post \in Posts /\ t.runAt \in Nat
      /\ row \in [Posts -> Rows \cup {None}]
  BY DEF Core, PostTypeOK, Timers
<1>1. PostTypeOK'
  BY DEF Core, PostTypeOK
<1>2. TimersMatch' /\ OneTimer'
  BY <1>t DEF Core, TimersMatch, OneTimer
<1>3. Numbered'
  <2>1. \A q \in Posts : row'[q] # None => row'[q] = row[q]
    OBVIOUS
  <2>2. QED
    BY <2>1 DEF Core, Numbered
<1>4. Ledger'
  <2>1. \A t \in timers' : t \in timers /\ row'[t.post].rev = row[t.post].rev
    BY <1>t
  <2>2. QED
    BY <2>1 DEF Core, Ledger
<1>5. OnTimeOrNever'
  BY DEF Core, OnTimeOrNever
<1>6. PendingIsArmed'
  <2>1. ASSUME NEW q \in Posts, Pending(q)' PROVE q \notin Gone /\ row'[q] = row[q] /\ Pending(q)
    BY <2>1 DEF Pending
  <2>2. QED
    BY <2>1 DEF Core, PendingIsArmed
<1>7. QED
  BY <1>1, <1>2, <1>3, <1>4, <1>5, <1>6 DEF Core
-----------------------------------------------------------------------------
(* The timers that run. *)

LEMMA StageStep ==
    ASSUME Core, now \in Nat, NEW t \in timers, FireStage(t),
           UNCHANGED <<used, online, revisions, posted, crashes>>
    PROVE  Core'
<1>t. /\ timers \subseteq Timers /\ t.post \in Posts /\ t.runAt \in Nat
      /\ \A u \in timers : u.post \in Posts
  BY DEF Core, PostTypeOK, Timers
<1>1. /\ timers' = Disarmed(t.post) \cup {Timer(t.post, t.runAt)}
      /\ row' = row /\ flying' = flying
  BY DEF FireStage
<1>2. PICK new \in Timers : /\ new = Timer(t.post, t.runAt)
                            /\ new.post = t.post /\ new.runAt = t.runAt
                            /\ new.stage \/ new.due >= t.runAt
  BY <1>t, TimerFacts DEF Timer
<1>3. /\ \A u \in timers' : (u \in timers /\ u.post # t.post) \/ u = new
      /\ \A u \in timers : u.post # t.post => u \in timers'
      /\ new \in timers'
  BY <1>1, <1>2 DEF Disarmed
<1>4. PostTypeOK'
  BY <1>1, <1>2, <1>3, <1>t DEF Core, PostTypeOK
<1>5. TimersMatch'
  <2>1. \A u \in timers : /\ row[u.post] # None /\ u.runAt = row[u.post].runAt
                          /\ u.stage \/ u.due >= u.runAt
    BY DEF Core, TimersMatch
  <2>2. row[t.post] # None /\ t.runAt = row[t.post].runAt
    BY <2>1
  <2>3. ASSUME NEW u \in timers' PROVE /\ row'[u.post] # None /\ u.runAt = row'[u.post].runAt
                                       /\ u.stage \/ u.due >= u.runAt
    BY <1>1, <1>2, <1>3, <2>1, <2>2
  <2>4. QED
    BY <2>3 DEF TimersMatch
<1>6. OneTimer'
  BY <1>2, <1>3 DEF Core, OneTimer
<1>7. Numbered' /\ OnTimeOrNever'
  BY <1>1 DEF Core, Numbered, OnTimeOrNever
<1>8. Ledger'
  BY <1>1, <1>2, <1>3 DEF Core, Ledger
<1>9. PendingIsArmed'
  <2>1. SUFFICES ASSUME NEW q \in Posts, Pending(q)'
                 PROVE  \/ \E u \in timers' : u.post = q /\ u.runAt = row'[q].runAt
                        \/ \E f \in flying' : f.post = q /\ f.rev = row'[q].rev
    BY DEF PendingIsArmed
  <2>2. Pending(q)
    BY <1>1, <2>1 DEF Pending
  <2>3. CASE q = t.post
    BY <1>1, <1>2, <1>3, <2>3 DEF Core, TimersMatch
  <2>4. CASE q # t.post
    BY <1>1, <1>3, <2>2, <2>4 DEF Core, PendingIsArmed
  <2>5. QED
    BY <2>3, <2>4
<1>10. QED
  BY <1>4, <1>5, <1>6, <1>7, <1>8, <1>9 DEF Core

LEMMA NewFlight ==
    \A p \in Posts, n \in Revisions, a \in Nat, m \in Nat : \E g \in Flights :
        /\ g = [post |-> p, rev |-> n, at |-> a, runAt |-> m, landed |-> FALSE]
        /\ g.post = p /\ g.rev = n /\ g.at = a /\ g.runAt = m /\ ~ g.landed
<1> TAKE p \in Posts, n \in Revisions, a \in Nat, m \in Nat
<1> DEFINE g == [post |-> p, rev |-> n, at |-> a, runAt |-> m, landed |-> FALSE]
<1>1. g \in Flights
  BY DEF Flights
<1>2. g.post = p /\ g.rev = n /\ g.at = a /\ g.runAt = m /\ ~ g.landed
  OBVIOUS
<1>3. QED
  BY <1>1, <1>2, Zenon

\* The send of a post that is due: its timer becomes its flight.
LEMMA SendStep ==
    ASSUME Core, now \in Nat, NEW t \in timers, ~ t.stage, now >= t.due,
           now - row[t.post].runAt <= Grace,
           timers' = timers \ {t},
           flying' = flying \cup {[post |-> t.post, rev |-> row[t.post].rev, at |-> now,
                                   runAt |-> row[t.post].runAt, landed |-> FALSE]},
           UNCHANGED <<row, used, online, revisions, posted, crashes>>
    PROVE  Core'
<1>t. /\ timers \subseteq Timers /\ flying \subseteq Flights
      /\ t.post \in Posts /\ t.runAt \in Nat /\ t.due \in Nat
      /\ \A u \in timers : u.post \in Posts
      /\ row \in [Posts -> Rows \cup {None}]
  BY DEF Core, PostTypeOK, Timers
<1>1. row[t.post] # None /\ t.runAt = row[t.post].runAt /\ t.due >= t.runAt
  BY DEF Core, TimersMatch
<1>2. row[t.post] \in Rows
  BY <1>1, <1>t
<1>3. /\ row[t.post].rev \in Revisions /\ row[t.post].runAt \in Nat
      /\ row[t.post].rev <= revisions
  BY <1>1, <1>2, <1>t DEF Rows, Core, Numbered
<1>4. PICK g \in Flights : /\ flying' = flying \cup {g}
                           /\ g.post = t.post /\ g.rev = row[t.post].rev
                           /\ g.at = now /\ g.runAt = row[t.post].runAt /\ ~ g.landed
  <2>1. PICK n \in Revisions, m \in Nat : n = row[t.post].rev /\ m = row[t.post].runAt
    BY <1>3
  <2>2. PICK g \in Flights :
           /\ g = [post |-> t.post, rev |-> n, at |-> now, runAt |-> m, landed |-> FALSE]
           /\ g.post = t.post /\ g.rev = n /\ g.at = now /\ g.runAt = m /\ ~ g.landed
    BY <1>t, NewFlight
  <2>3. flying' = flying \cup {g}
    BY <2>1, <2>2, Zenon
  <2>4. QED
    BY <2>1, <2>2, <2>3, Zenon
<1>5. PostTypeOK'
  BY <1>4 DEF Core, PostTypeOK
<1>6. TimersMatch' /\ OneTimer'
  BY DEF Core, TimersMatch, OneTimer
<1>7. Numbered'
  BY <1>3, <1>4 DEF Core, Numbered
<1>8. Ledger'
  <2>1. posted[g.rev] <= crashes /\ \A f \in flying : f.rev # g.rev
    BY <1>4 DEF Core, Ledger
  <2>2. \A f, h \in flying' : f.rev = h.rev => f = h
    BY <1>4, <2>1 DEF Core, Ledger
  <2>3. \A f \in flying' : ~ f.landed => posted'[f.rev] <= crashes'
    BY <1>4, <2>1 DEF Core, Ledger
  <2>4. ASSUME NEW u \in timers' PROVE \A f \in flying' : f.rev # row'[u.post].rev
    <3>1. u \in timers /\ u.post # t.post
      BY DEF Core, OneTimer
    <3>2. row[u.post].rev # row[t.post].rev
      BY <1>1, <1>t, <3>1 DEF Core, TimersMatch, Numbered
    <3>3. QED
      BY <1>4, <3>1, <3>2 DEF Core, Ledger
  <2>5. \A r \in Revisions : posted'[r] <= 1 + crashes'
    BY DEF Core, Ledger
  <2>6. \A u \in timers' : posted'[row'[u.post].rev] <= crashes'
    BY DEF Core, Ledger
  <2>7. QED
    BY <2>2, <2>3, <2>4, <2>5, <2>6 DEF Ledger
<1>9. OnTimeOrNever'
  <2>1. now \in row[t.post].runAt .. row[t.post].runAt + Grace
    BY <1>1, <1>3, <1>t, PostsAssumption
  <2>2. QED
    BY <1>4, <2>1 DEF Core, OnTimeOrNever
<1>10. PendingIsArmed'
  <2>1. SUFFICES ASSUME NEW q \in Posts, Pending(q)'
                 PROVE  \/ \E u \in timers' : u.post = q /\ u.runAt = row'[q].runAt
                        \/ \E f \in flying' : f.post = q /\ f.rev = row'[q].rev
    BY DEF PendingIsArmed
  <2>2. Pending(q)
    BY <2>1 DEF Pending
  <2>3. CASE q = t.post
    BY <1>4, <2>3
  <2>4. CASE q # t.post
    BY <1>4, <2>2, <2>4 DEF Core, PendingIsArmed
  <2>5. QED
    BY <2>3, <2>4
<1>11. QED
  BY <1>5, <1>6, <1>7, <1>8, <1>9, <1>10 DEF Core

LEMMA FireStep == Core /\ now \in Nat /\ Fire => Core'
<1> SUFFICES ASSUME Core, now \in Nat, Fire PROVE Core'
  OBVIOUS
<1>1. PICK t \in timers :
         now >= t.due /\ (FireStage(t) \/ FireSettled(t) \/ FireMissed(t) \/ FireSend(t))
  BY DEF Fire
<1>2. UNCHANGED <<used, online, revisions, posted, crashes>> /\ online \subseteq Bots
  BY DEF Fire, Core, PostTypeOK
<1>t. t.post \in Posts /\ PostTypeOK
  BY DEF Core, PostTypeOK, Timers
<1>3. ASSUME timers' = timers \ {t}, flying' = flying, SameContent, ~ Pending(t.post)'
      PROVE  Core'
  <2>1. /\ timers' \subseteq timers /\ \A u \in timers : u.post # t.post => u \in timers'
        /\ flying' \subseteq flying /\ \A f \in flying : f.post # t.post => f \in flying'
    BY <1>3
  <2>2. QED
    BY <1>2, <1>3, <1>t, <2>1, Given
<1>4. CASE FireStage(t)
  BY <1>2, <1>4, StageStep
<1>5. CASE FireSettled(t)
  <2>1. SameContent /\ ~ Pending(t.post)'
    BY <1>5, <1>t, SameRow DEF FireSettled, Pending
  <2>2. QED
    BY <1>3, <1>5, <2>1 DEF FireSettled
<1>6. CASE FireMissed(t)
  BY <1>3, <1>6, <1>t, SettledRow DEF FireMissed
<1>7. CASE FireSend(t)
  <2>1. ~ t.stage /\ now - row[t.post].runAt <= Grace /\ timers' = timers \ {t}
    BY <1>7 DEF FireSend
  <2>2. \/ /\ flying' = flying \cup {[post |-> t.post, rev |-> row[t.post].rev, at |-> now,
                                      runAt |-> row[t.post].runAt, landed |-> FALSE]}
           /\ row' = row
        \/ Disable(t.post) /\ flying' = flying
    BY <1>7 DEF FireSend
  <2>3. CASE Disable(t.post) /\ flying' = flying
    BY <1>3, <1>t, <2>1, <2>3, SettledRow
  <2>4. CASE ~ (Disable(t.post) /\ flying' = flying)
    BY <1>1, <1>2, <2>1, <2>2, <2>4, SendStep
  <2>5. QED
    BY <2>3, <2>4
<1>8. QED
  BY <1>1, <1>4, <1>5, <1>6, <1>7
-----------------------------------------------------------------------------
(* Requests that land and return, and restarts. *)

LEMMA LandedFlight ==
    ASSUME NEW f \in Flights
    PROVE  /\ [f EXCEPT !.landed = TRUE] \in Flights
           /\ [f EXCEPT !.landed = TRUE].post = f.post
           /\ [f EXCEPT !.landed = TRUE].rev = f.rev
           /\ [f EXCEPT !.landed = TRUE].at = f.at
           /\ [f EXCEPT !.landed = TRUE].runAt = f.runAt
           /\ [f EXCEPT !.landed = TRUE].landed
  BY DEF Flights

LEMMA LandStep == Core /\ Land => Core'
<1> SUFFICES ASSUME Core, Land PROVE Core'
  OBVIOUS
<1>1. PICK f \in flying :
         /\ ~ f.landed
         /\ flying' = (flying \ {f}) \cup {[f EXCEPT !.landed = TRUE]}
         /\ posted' = [posted EXCEPT ![f.rev] = @ + 1]
  BY DEF Land
<1>2. UNCHANGED <<row, used, timers, online, revisions, crashes>>
  BY DEF Land
<1>t. /\ flying \subseteq Flights /\ f.rev \in Revisions /\ f \in Flights
      /\ posted \in [Revisions -> Nat] /\ crashes \in Nat
      /\ \A h \in flying : h.rev \in Revisions
  BY DEF Core, PostTypeOK, Flights
<1>3. PICK g \in Flights : /\ flying' = (flying \ {f}) \cup {g}
                           /\ g.post = f.post /\ g.rev = f.rev /\ g.at = f.at
                           /\ g.runAt = f.runAt /\ g.landed
  BY <1>1, <1>t, LandedFlight, Zenon
<1>4. /\ posted' \in [Revisions -> Nat]
      /\ posted'[f.rev] = posted[f.rev] + 1
      /\ \A r \in Revisions : r # f.rev => posted'[r] = posted[r]
  BY <1>1, <1>t
<1>5. posted[f.rev] <= crashes /\ \A h \in flying : h # f => h.rev # f.rev
  BY <1>1 DEF Core, Ledger
<1>6. PostTypeOK'
  BY <1>2, <1>3, <1>4 DEF Core, PostTypeOK
<1>7. TimersMatch' /\ OneTimer'
  BY <1>2 DEF Core, TimersMatch, OneTimer
<1>8. Numbered'
  <2>1. \A r \in Revisions : r > revisions' => posted'[r] = 0
    <3>1. f.rev <= revisions /\ revisions \in Nat
      BY DEF Core, Numbered, PostTypeOK
    <3>2. QED
      BY <1>2, <1>4, <1>t, <3>1 DEF Core, Numbered, Revisions
  <2>2. \A h \in flying' : h.rev <= revisions'
    BY <1>2, <1>3 DEF Core, Numbered
  <2>3. QED
    BY <1>2, <2>1, <2>2 DEF Core, Numbered
<1>9. Ledger'
  <2>1. \A r \in Revisions : posted'[r] <= 1 + crashes'
    <3>1. SUFFICES ASSUME NEW r \in Revisions PROVE posted'[r] <= 1 + crashes
      BY <1>2
    <3>2. posted[r] \in Nat /\ posted[r] <= 1 + crashes
      BY <1>t DEF Core, Ledger
    <3>3. posted[f.rev] + 1 <= 1 + crashes
      BY <1>5, <1>t
    <3>4. QED
      BY <1>4, <1>t, <3>2, <3>3
  <2>2. \A h, k \in flying' : h.rev = k.rev => h = k
    BY <1>3, <1>5 DEF Core, Ledger
  <2>3. \A h \in flying' : ~ h.landed => posted'[h.rev] <= crashes'
    <3>1. SUFFICES ASSUME NEW h \in flying', ~ h.landed PROVE posted'[h.rev] <= crashes
      BY <1>2
    <3>2. h \in flying /\ h # f
      BY <1>3, <3>1
    <3>3. QED
      BY <1>4, <1>5, <1>t, <3>1, <3>2 DEF Core, Ledger
  <2>4. ASSUME NEW t \in timers'
        PROVE  /\ posted'[row'[t.post].rev] <= crashes'
               /\ \A h \in flying' : h.rev # row'[t.post].rev
    <3>1. /\ t \in timers /\ row'[t.post] = row[t.post]
          /\ posted[row[t.post].rev] <= crashes
          /\ \A h \in flying : h.rev # row[t.post].rev
      BY <1>2 DEF Core, Ledger
    <3>2. row[t.post].rev \in Revisions
      BY <3>1 DEF Core, PostTypeOK, TimersMatch, Timers, Rows
    <3>3. QED
      BY <1>2, <1>3, <1>4, <3>1, <3>2
  <2>5. QED
    BY <2>1, <2>2, <2>3, <2>4 DEF Ledger
<1>10. OnTimeOrNever'
  BY <1>3 DEF Core, OnTimeOrNever
<1>11. PendingIsArmed'
  <2>1. SUFFICES ASSUME NEW q \in Posts, Pending(q)'
                 PROVE  \/ \E t \in timers' : t.post = q /\ t.runAt = row'[q].runAt
                        \/ \E h \in flying' : h.post = q /\ h.rev = row'[q].rev
    BY DEF PendingIsArmed
  <2>2. Pending(q) /\ row' = row /\ timers' = timers
    BY <1>2, <2>1 DEF Pending
  <2>3. CASE \E t \in timers : t.post = q /\ t.runAt = row[q].runAt
    BY <2>2, <2>3
  <2>4. CASE \E h \in flying : h.post = q /\ h.rev = row[q].rev
    <3>1. PICK h \in flying : h.post = q /\ h.rev = row[q].rev
      BY <2>4
    <3>2. CASE h = f
      BY <1>3, <2>2, <3>1, <3>2
    <3>3. CASE h # f
      BY <1>3, <2>2, <3>1, <3>3
    <3>4. QED
      BY <3>2, <3>3
  <2>5. QED
    BY <2>2, <2>3, <2>4 DEF Core, PendingIsArmed
<1>12. QED
  BY <1>6, <1>7, <1>8, <1>9, <1>10, <1>11 DEF Core

LEMMA SettleStep == Core /\ Settle => Core'
<1> SUFFICES ASSUME Core, Settle PROVE Core'
  OBVIOUS
<1>1. PICK f \in flying : /\ flying' = flying \ {f}
                          /\ MarkSent(f.post) \/ Disable(f.post)
  BY DEF Settle
<1>2. UNCHANGED <<used, timers, online, revisions, posted, crashes>> /\ online \subseteq Bots
  BY DEF Settle, Core, PostTypeOK
<1>3. f.post \in Posts /\ PostTypeOK
  BY DEF Core, PostTypeOK, Flights
<1>4. SameContent /\ ~ Pending(f.post)'
  BY <1>1, <1>3, SettledRow
<1>5. /\ timers' \subseteq timers /\ \A u \in timers : u.post # f.post => u \in timers'
      /\ flying' \subseteq flying /\ \A h \in flying : h.post # f.post => h \in flying'
  BY <1>1, <1>2
<1>6. QED
  BY <1>2, <1>3, <1>4, <1>5, Given

\* A restart: whichever of its requests land, none landed before, and at most
\* one of them carries a content.
LEMMA CrashStep == Core /\ now \in Nat /\ CrashAndBoot => Core'
<1> SUFFICES ASSUME Core, now \in Nat, CrashAndBoot PROVE Core'
  OBVIOUS
<1>1. PICK got \in SUBSET {f \in flying : ~ f.landed} :
         posted' = [r \in Revisions |-> posted[r] + Cardinality({f \in got : f.rev = r})]
  BY DEF CrashAndBoot
<1>2. /\ crashes' = crashes + 1 /\ crashes < MaxCrashes
      /\ now' \in now..MaxTime
      /\ timers' = BootTimers
      /\ flying' = {} /\ online' = {}
      /\ UNCHANGED <<row, used, revisions>>
  BY DEF CrashAndBoot
<1>t. /\ posted \in [Revisions -> Nat] /\ crashes \in Nat /\ crashes \in 0..MaxCrashes
      /\ MaxCrashes \in Nat /\ now' \in Nat
      /\ row \in [Posts -> Rows \cup {None}] /\ revisions \in Nat
      /\ \A f \in flying : f.rev \in Revisions
  BY <1>2, PostsAssumption, LimiterAssumption DEF Core, PostTypeOK, Flights
<1>3. ASSUME NEW r \in Revisions
      PROVE  /\ posted'[r] \in Nat
             /\ posted'[r] <= 1 + crashes
             /\ r > revisions => posted'[r] = 0
  <2> DEFINE S == {f \in got : f.rev = r}
  <2>1. posted'[r] = posted[r] + Cardinality(S)
    BY <1>1
  <2>2. posted[r] \in Nat /\ posted[r] <= 1 + crashes /\ (r > revisions => posted[r] = 0)
    BY <1>t DEF Core, Ledger, Numbered
  <2>3. CASE S = {}
    <3>1. Cardinality(S) = 0
      BY <2>3, FS_EmptySet
    <3>2. QED
      BY <2>1, <2>2, <3>1
  <2>4. CASE S # {}
    <3>1. PICK f \in S : TRUE
      BY <2>4
    <3>2. f \in flying /\ ~ f.landed /\ f.rev = r
      BY <3>1
    <3>3. S = {f}
      BY <3>1, <3>2 DEF Core, Ledger
    <3>4. Cardinality(S) = 1
      BY <3>3, FS_Singleton
    <3>5. posted[r] <= crashes /\ r <= revisions
      BY <3>2 DEF Core, Ledger, Numbered
    <3>6. r \in Nat
      BY PostsAssumption DEF Revisions
    <3>7. QED
      BY <1>t, <2>1, <2>2, <3>4, <3>5, <3>6
  <2>5. QED
    BY <2>3, <2>4
<1>4. posted' \in [Revisions -> Nat]
  <2>1. posted' = [r \in Revisions |-> posted'[r]]
    BY <1>1
  <2>2. QED
    BY <1>3, <2>1
<1>5. /\ \A t \in timers' : /\ t \in Timers /\ Pending(t.post)
                            /\ t.runAt = row[t.post].runAt
                            /\ t.stage \/ t.due >= t.runAt
                            /\ t = TimerSetAt(now', t.post, row[t.post].runAt)
      /\ \A q \in Posts : Pending(q) => \E t \in timers' : t.post = q /\ t.runAt = row[q].runAt
  <2>1. timers' = {TimerSetAt(now', p, row[p].runAt) : p \in {q \in Posts : Pending(q)}}
    BY <1>2, Zenon DEF BootTimers
  <2>2. \A q \in Posts : Pending(q) => row[q].runAt \in Nat
    BY <1>t DEF Pending, Rows
  <2>3. \A q \in Posts : Pending(q) =>
           /\ TimerSetAt(now', q, row[q].runAt) \in Timers
           /\ TimerSetAt(now', q, row[q].runAt).post = q
           /\ TimerSetAt(now', q, row[q].runAt).runAt = row[q].runAt
           /\ \/ TimerSetAt(now', q, row[q].runAt).stage
              \/ TimerSetAt(now', q, row[q].runAt).due >= row[q].runAt
    BY <1>t, <2>2, TimerFacts
  <2>4. ASSUME NEW t \in timers'
        PROVE  /\ t \in Timers /\ Pending(t.post)
               /\ t.runAt = row[t.post].runAt
               /\ t.stage \/ t.due >= t.runAt
               /\ t = TimerSetAt(now', t.post, row[t.post].runAt)
    <3>1. PICK q \in Posts : Pending(q) /\ t = TimerSetAt(now', q, row[q].runAt)
      BY <2>1, Zenon
    <3>2. t.post = q /\ t.runAt = row[q].runAt
      BY <2>3, <3>1, Zenon
    <3>3. t \in Timers /\ (t.stage \/ t.due >= row[q].runAt)
      BY <2>3, <3>1, Zenon
    <3>4. QED
      BY <3>1, <3>2, <3>3, Zenon
  <2>5. ASSUME NEW q \in Posts, Pending(q)
        PROVE  \E t \in timers' : t.post = q /\ t.runAt = row[q].runAt
    <3>1. TimerSetAt(now', q, row[q].runAt) \in timers'
      BY <2>1, <2>5, Zenon
    <3>2. QED
      BY <2>3, <2>5, <3>1, Zenon
  <2>6. QED
    BY <2>4, <2>5, Zenon
<1>6. PostTypeOK'
  BY <1>2, <1>4, <1>5, <1>t DEF Core, PostTypeOK
<1>7. TimersMatch'
  BY <1>2, <1>5 DEF TimersMatch, Pending
<1>8. OneTimer'
  BY <1>5, Zenon DEF OneTimer
<1>9. Numbered'
  BY <1>2, <1>3 DEF Core, Numbered
<1>10. Ledger'
  <2>1. \A t \in timers' : row'[t.post].rev \in Revisions
    BY <1>2, <1>5, <1>t DEF Pending, Timers, Rows
  <2>2. \A r \in Revisions : posted'[r] <= crashes' /\ posted'[r] <= 1 + crashes'
    BY <1>2, <1>3, <1>t
  <2>3. QED
    BY <1>2, <2>1, <2>2 DEF Ledger
<1>11. OnTimeOrNever'
  BY <1>2 DEF OnTimeOrNever
<1>12. PendingIsArmed'
  BY <1>2, <1>5 DEF PendingIsArmed, Pending
<1>13. QED
  BY <1>6, <1>7, <1>8, <1>9, <1>10, <1>11, <1>12 DEF Core

-----------------------------------------------------------------------------
PostInv == LimiterInv /\ OnlineLive /\ Core

LEMMA InitPost == PostInit => PostInv
<1> SUFFICES ASSUME PostInit PROVE PostInv
  OBVIOUS
<1>1. LimiterInv
  BY InitIInv, InitRetry DEF PostInit, LimiterInv
<1>2. /\ row = [p \in Posts |-> None] /\ used = {} /\ timers = {} /\ flying = {}
      /\ online = {} /\ revisions = 0 /\ posted = [r \in Revisions |-> 0] /\ crashes = 0
  BY DEF PostInit
<1>3. PostTypeOK /\ OnlineLive
  BY <1>2, PostsAssumption DEF PostTypeOK, OnlineLive
<1>4. TimersMatch /\ OneTimer /\ OnTimeOrNever
  BY <1>2 DEF TimersMatch, OneTimer, OnTimeOrNever
<1>5. Numbered /\ Ledger
  BY <1>2 DEF Numbered, Ledger
<1>6. PendingIsArmed
  BY <1>2 DEF PendingIsArmed, Pending
<1>7. QED
  BY <1>1, <1>3, <1>4, <1>5, <1>6 DEF PostInv, Core

LEMMA StepLive == PostTypeOK /\ OnlineLive /\ [PostNext]_allVars => OnlineLive'
<1> SUFFICES ASSUME PostTypeOK, OnlineLive, [PostNext]_allVars PROVE OnlineLive'
  OBVIOUS
<1>1. CASE Clock
  BY <1>1 DEF Clock, Tick, postVars, OnlineLive
<1>2. CASE \E p \in Posts : CreatePost(p) \/ UpdatePost(p) \/ DeletePost(p)
  BY <1>2 DEF CreatePost, UpdatePost, DeletePost, vars, OnlineLive
<1>3. CASE Fire
  BY <1>3 DEF Fire, FireStage, FireSettled, FireMissed, FireSend, vars, OnlineLive
<1>4. CASE Land \/ Settle
  BY <1>4 DEF Land, Settle, vars, OnlineLive
<1>5. ASSUME NEW b \in Bots, Connect(b) \/ Disconnect(b) \/ OtherSend(b) \/ DeleteBot(b)
      PROVE  OnlineLive'
  <2>1. CASE Connect(b) \/ Disconnect(b)
    BY <2>1 DEF Connect, Disconnect, vars, OnlineLive
  <2>2. CASE OtherSend(b)
    BY <2>2 DEF OtherSend, TryAcquireSend, postVars, OnlineLive
  <2>3. CASE DeleteBot(b)
    BY <2>3 DEF DeleteBot, ClearThrottle, OnlineLive
  <2>4. QED
    BY <1>5, <2>1, <2>2, <2>3
<1>6. CASE CrashAndBoot
  BY <1>6 DEF CrashAndBoot, OnlineLive
<1>7. CASE UNCHANGED allVars
  BY <1>7 DEF allVars, vars, postVars, OnlineLive
<1>8. QED
  BY <1>1, <1>2, <1>3, <1>4, <1>5, <1>6, <1>7 DEF PostNext

\* Nothing of the posts moves.
LEMMA Idle ==
    ASSUME Core, UNCHANGED <<row, used, timers, flying, revisions, posted, crashes>>,
           online' \subseteq Bots
    PROVE  Core'
<1>1. PostTypeOK' /\ TimersMatch' /\ OneTimer'
  BY DEF Core, PostTypeOK, TimersMatch, OneTimer
<1>2. Numbered' /\ Ledger'
  BY DEF Core, Numbered, Ledger
<1>3. OnTimeOrNever' /\ PendingIsArmed'
  BY DEF Core, OnTimeOrNever, PendingIsArmed, Pending
<1>4. QED
  BY <1>1, <1>2, <1>3 DEF Core

LEMMA StepCore == Core /\ now \in Nat /\ [PostNext]_allVars => Core'
<1> SUFFICES ASSUME Core, now \in Nat, [PostNext]_allVars PROVE Core'
  OBVIOUS
<1>t. /\ row \in [Posts -> Rows \cup {None}] /\ online \subseteq Bots /\ used \subseteq Posts
      /\ \A t \in timers : t.post \in Posts
  BY DEF Core, PostTypeOK, Timers
<1>1. CASE Clock
  BY <1>1, <1>t, Idle DEF Clock, postVars
<1>2. ASSUME NEW p \in Posts, CreatePost(p) PROVE Core'
  BY <1>2, <1>t, Submitted DEF CreatePost
<1>3. ASSUME NEW p \in Posts, UpdatePost(p) PROVE Core'
  BY <1>3, <1>t, Submitted DEF UpdatePost
<1>4. ASSUME NEW p \in Posts, DeletePost(p) PROVE Core'
  <2>1. /\ row' = [row EXCEPT ![p] = None] /\ timers' = Disarmed(p)
        /\ UNCHANGED <<used, flying, online, revisions, posted, crashes>>
    BY <1>4 DEF DeletePost
  <2>2. PICK Gone \in SUBSET Posts : Gone = {p}
    OBVIOUS
  <2>3. /\ row' \in [Posts -> Rows \cup {None}]
        /\ \A q \in Posts : row'[q] = IF q \in Gone THEN None ELSE row[q]
        /\ timers' = {t \in timers : t.post \notin Gone}
        /\ online' \subseteq Bots
    BY <1>t, <2>1, <2>2 DEF Disarmed
  <2>4. QED
    BY <2>1, <2>3, Removed
<1>5. CASE Fire
  BY <1>5, FireStep
<1>6. CASE Land \/ Settle
  BY <1>6, LandStep, SettleStep
<1>7. ASSUME NEW b \in Bots, Connect(b) \/ Disconnect(b) \/ OtherSend(b) PROVE Core'
  BY <1>7, <1>t, Idle DEF Connect, Disconnect, OtherSend, postVars
<1>8. ASSUME NEW b \in Bots, DeleteBot(b) PROVE Core'
  <2>1. /\ online' = online \ {b}
        /\ timers' = {t \in timers : BotOf[t.post] # b}
        /\ row' = [p \in Posts |-> IF BotOf[p] = b THEN None ELSE row[p]]
        /\ UNCHANGED <<used, flying, revisions, posted, crashes>>
    BY <1>8 DEF DeleteBot
  <2>2. PICK Gone \in SUBSET Posts : Gone = {p \in Posts : BotOf[p] = b}
    OBVIOUS
  <2>3. /\ row' \in [Posts -> Rows \cup {None}]
        /\ \A q \in Posts : row'[q] = IF q \in Gone THEN None ELSE row[q]
        /\ timers' = {t \in timers : t.post \notin Gone}
        /\ online' \subseteq Bots
    BY <1>t, <2>1, <2>2
  <2>4. QED
    BY <2>1, <2>3, Removed
<1>9. CASE CrashAndBoot
  BY <1>9, CrashStep
<1>10. CASE UNCHANGED allVars
  BY <1>10, <1>t, Idle DEF allVars, postVars
<1>11. QED
  BY <1>1, <1>2, <1>3, <1>4, <1>5, <1>6, <1>7, <1>8, <1>9, <1>10 DEF PostNext

LEMMA PostAlways == PostSpec => []PostInv
<1>1. PostInv /\ [PostNext]_allVars => PostInv'
  <2> SUFFICES ASSUME PostInv, [PostNext]_allVars PROVE PostInv'
    OBVIOUS
  <2>1. PostTypeOK /\ now \in Nat
    BY DEF PostInv, Core, LimiterInv, IInv, TypeOK
  <2>2. QED
    BY <2>1, StepLimiter, StepLive, StepCore DEF PostInv
<1>2. QED
  BY <1>1, InitPost, PTL DEF PostSpec

\* The type invariant of posts, timers and sends.
THEOREM PostTypesCorrect == PostSpec => []PostTypeOK
<1>1. PostInv => PostTypeOK
  BY DEF PostInv, Core
<1>2. QED
  BY <1>1, PostAlways, PTL

\* Whoever sends, a reply or a scheduled post, and whatever restarts forget: in
\* the life of a process no window of an account holds more than its quota.
THEOREM PostsStayInWindow == PostSpec => []WindowBound
<1>1. PostInv => WindowBound
  BY DEF PostInv, LimiterInv, IInv
<1>2. QED
  BY <1>1, PostAlways, PTL

\* What a refused caller is told stays exact beside the posts.
THEOREM RetryExactWithPosts == PostSpec => []RetryAfterIsExact
<1>1. PostInv => RetryAfterIsExact
  BY RetryIsExact DEF PostInv, LimiterInv, IInv
<1>2. QED
  BY <1>1, PostAlways, PTL

\* No post is sent before its time or more than the grace after it, for every
\* schedule of edits, stages and restarts.
THEOREM PostsAreOnTime == PostSpec => []OnTimeOrNever
<1>1. PostInv => OnTimeOrNever
  BY DEF PostInv, Core
<1>2. QED
  BY <1>1, PostAlways, PTL

\* A row that says it will go out always has its timer or its send.
THEOREM NoPostIsForgotten == PostSpec => []PendingIsArmed
<1>1. PostInv => PendingIsArmed
  BY DEF PostInv, Core
<1>2. QED
  BY <1>1, PostAlways, PTL

\* A content is posted at most once in the life of a process.
THEOREM PostsGoOutOnce == PostSpec => []OncePerProcess
<1>1. PostInv => OncePerProcess
  BY DEF PostInv, Core, Ledger, OncePerProcess
<1>2. QED
  BY <1>1, PostAlways, PTL
===============================================================================
