-------------------------- MODULE ReplyPipeline_proofs --------------------------
(***************************************************************************)
(* One answer per message and owner, and no trigger left unanswered, for   *)
(* any number of bots, owners, rules, messages and upsets, and any cap on  *)
(* the claims.  The bots share three maps that lose entries in several     *)
(* ways; what the proofs need of a map is only the set of its keys.        *)
(* AnswerOnce is not inductive: the step needs that the claim on every     *)
(* answered message is either in the map or known to have been given up    *)
(* (AnswersClaimed), and TriggersAreAnswered needs the other direction,    *)
(* that every claim in the maps stands for a reply begun (ClaimsAnswered). *)
(***************************************************************************)
EXTENDS ReplyPipeline, SequenceTheorems, FiniteSetTheorems, WellFoundedInduction, TLAPS

-----------------------------------------------------------------------------
(* The maps of reply-guard.ts.                                             *)

LEMMA ClaimedIsKeyed == \A map, k : Claimed(map, k) <=> k \in Keyed(map)
BY DEF Claimed, Keyed

LEMMA ClaimRecord ==
    \A S : \A k \in S, b \in Bots :
        \E r \in ClaimType(S) : r = [key |-> k, bot |-> b] /\ r.key = k
<1> TAKE S
<1> TAKE k \in S, b \in Bots
<1>1. [key |-> k, bot |-> b] \in ClaimType(S)
  BY DEF ClaimType
<1>2. QED
  BY <1>1

\* A claim is taken: the map stays within its cap and gains at most this key.
LEMMA ClaimMap ==
    ASSUME NEW S, NEW map \in Seq(ClaimType(S)), Len(map) <= MaxClaims,
           NEW k \in S, NEW b \in Bots
    PROVE  /\ Claim(map, k, b) \in Seq(ClaimType(S))
           /\ Len(Claim(map, k, b)) <= MaxClaims
           /\ k \in Keyed(Claim(map, k, b))
           /\ Keyed(Claim(map, k, b)) \subseteq Keyed(map) \cup {k}
<1> USE PipelineAssumption
<1>1. PICK r \in ClaimType(S) : r = [key |-> k, bot |-> b] /\ r.key = k
  BY ClaimRecord
<1> DEFINE rest == IF Len(map) < MaxClaims THEN map ELSE Tail(map)
<1>2. /\ rest \in Seq(ClaimType(S))
      /\ Len(rest) \in Nat /\ Len(rest) < MaxClaims
      /\ \A i \in 1..Len(rest) : \E j \in 1..Len(map) : rest[i] = map[j]
  <2>1. CASE Len(map) < MaxClaims
    BY <2>1, LenProperties
  <2>2. CASE ~ (Len(map) < MaxClaims)
    <3>1. Len(map) \in Nat /\ Len(map) = MaxClaims
      BY <2>2, LenProperties
    <3>2. map # <<>>
      BY <3>1, EmptySeq
    <3>3. /\ Tail(map) \in Seq(ClaimType(S))
          /\ Len(Tail(map)) = Len(map) - 1
          /\ \A i \in 1..Len(Tail(map)) : Tail(map)[i] = map[i + 1]
      BY <3>2, HeadTailProperties
    <3>4. \A i \in 1..Len(Tail(map)) : i + 1 \in 1..Len(map)
      BY <3>1, <3>3
    <3>5. rest = Tail(map)
      BY <2>2
    <3>6. QED
      BY <3>1, <3>3, <3>4, <3>5
  <2>3. QED
    BY <2>1, <2>2
<1> HIDE DEF rest
<1>3. Claim(map, k, b) = Append(rest, r)
  BY <1>1 DEF Claim, rest
<1> DEFINE new == Append(rest, r)
<1>4. /\ new \in Seq(ClaimType(S))
      /\ Len(new) = Len(rest) + 1
      /\ \A i \in 1..Len(rest) : new[i] = rest[i]
      /\ new[Len(rest) + 1] = r
  BY <1>2, <1>1, AppendProperties
<1> HIDE DEF new
<1>5. DOMAIN new = 1..(Len(rest) + 1) /\ DOMAIN map = 1..Len(map)
  BY <1>4, LenProperties
<1>6. k \in Keyed(new)
  <2>1. Len(rest) + 1 \in DOMAIN new
    BY <1>2, <1>5
  <2>2. new[Len(rest) + 1].key = k
    BY <1>1, <1>4
  <2>3. QED
    BY <2>1, <2>2, Zenon DEF Keyed
<1>7. ASSUME NEW i \in 1..(Len(rest) + 1)
      PROVE  new[i].key \in Keyed(map) \cup {k}
  <2>1. CASE i = Len(rest) + 1
    BY <2>1, <1>1, <1>4
  <2>2. CASE i # Len(rest) + 1
    <3>1. i \in 1..Len(rest)
      BY <2>2, <1>2
    <3>2. PICK j \in 1..Len(map) : rest[i] = map[j]
      BY <3>1, <1>2
    <3>3. new[i] = map[j]
      BY <3>1, <3>2, <1>4
    <3>4. QED
      BY <3>3, <1>5 DEF Keyed
  <2>3. QED
    BY <2>1, <2>2
<1>8. Keyed(new) \subseteq Keyed(map) \cup {k}
  BY <1>5, <1>7 DEF Keyed
<1>9. Len(new) <= MaxClaims
  BY <1>2, <1>4
<1>10. QED
  BY <1>3, <1>4, <1>6, <1>8, <1>9 DEF new

\* The oldest claim expires.
LEMMA TailMap ==
    ASSUME NEW S, NEW map \in Seq(ClaimType(S)), map # <<>>, Len(map) <= MaxClaims
    PROVE  /\ Tail(map) \in Seq(ClaimType(S))
           /\ Len(Tail(map)) <= MaxClaims
           /\ Keyed(Tail(map)) \subseteq Keyed(map)
<1> USE PipelineAssumption
<1>1. Len(map) \in Nat /\ DOMAIN map = 1..Len(map)
  BY LenProperties
<1>2. /\ Tail(map) \in Seq(ClaimType(S))
      /\ Len(Tail(map)) = Len(map) - 1
      /\ \A i \in 1..Len(Tail(map)) : Tail(map)[i] = map[i + 1]
  BY HeadTailProperties
<1>3. DOMAIN Tail(map) = 1..Len(Tail(map))
  BY <1>2, LenProperties
<1>4. \A i \in 1..Len(Tail(map)) : i + 1 \in 1..Len(map)
  BY <1>1, <1>2
<1>5. Len(Tail(map)) <= MaxClaims
  BY <1>1, <1>2
<1>6. QED
  BY <1>1, <1>2, <1>3, <1>4, <1>5 DEF Keyed

LEMMA SameOrTail ==
    ASSUME NEW S, NEW map \in Seq(ClaimType(S)), Len(map) <= MaxClaims, NEW new,
           \/ new = map
           \/ map # <<>> /\ new = Tail(map)
    PROVE  new \in Seq(ClaimType(S)) /\ Len(new) <= MaxClaims
<1>1. CASE new = map
  BY <1>1
<1>2. CASE map # <<>> /\ new = Tail(map)
  BY <1>2, TailMap
<1>3. QED
  BY <1>1, <1>2

\* Ranks in a finite set of positions: some member has n members up to it.
LEMMA Rank ==
    ASSUME NEW N \in Nat, NEW I \in SUBSET (1..N), NEW n \in 1..Cardinality(I)
    PROVE  \E i \in I : Cardinality({j \in I : j <= i}) = n
<1>0. \A j \in I : j \in Nat /\ 1 <= j /\ j <= N
  OBVIOUS
<1>1. IsFiniteSet(I) /\ Cardinality(I) \in Nat
  <2>1. IsFiniteSet(1..N)
    BY FS_Interval
  <2>2. QED
    BY <2>1, FS_Subset, FS_CardinalityType
<1> DEFINE Upto(i) == {j \in I : j <= i}
<1>2. \A i \in Nat : IsFiniteSet(Upto(i)) /\ Cardinality(Upto(i)) \in Nat
  <2> TAKE i \in Nat
  <2>1. Upto(i) \subseteq I
    OBVIOUS
  <2>2. QED
    BY <1>1, <2>1, FS_Subset, FS_CardinalityType
<1> DEFINE Far == {i \in Nat : Cardinality(Upto(i)) >= n}
<1>3. N \in Far
  <2>1. \A j : j \in Upto(N) <=> j \in I
    BY <1>0
  <2>2. Upto(N) = I
    BY <2>1, Zenon
  <2>3. QED
    BY <2>2, <1>1
<1>4. PICK i \in Far : \A j \in Far : ~ (<<j, i>> \in OpToRel(<, Nat))
  BY <1>3, NatLessThanWellFounded, WFMin
<1>5. i \in Nat /\ Cardinality(Upto(i)) >= n /\ (\A j \in Nat : j < i => ~ (Cardinality(Upto(j)) >= n))
  BY <1>4 DEF OpToRel
<1> HIDE DEF Far
<1>6. i # 0
  <2>1. \A j \in I : ~ (j <= 0)
    BY <1>0
  <2>2. Upto(0) = {}
    BY <2>1, Zenon
  <2>3. Cardinality(Upto(0)) = 0
    BY <2>2, FS_EmptySet
  <2>4. QED
    BY <2>3, <1>5
<1>7. i - 1 \in Nat /\ Cardinality(Upto(i - 1)) < n
  <2>1. i - 1 \in Nat /\ i - 1 < i
    BY <1>5, <1>6
  <2> DEFINE h == i - 1
  <2>2. h \in Nat /\ h < i
    BY <2>1
  <2> HIDE DEF h
  <2>3. Cardinality(Upto(h)) \in Nat /\ ~ (Cardinality(Upto(h)) >= n)
    BY <2>2, <1>2, <1>5
  <2>4. n \in Nat
    BY <1>1
  <2>5. Cardinality(Upto(h)) < n
    <3> DEFINE c == Cardinality(Upto(h))
    <3>1. c \in Nat /\ ~ (c >= n)
      BY <2>3
    <3> HIDE DEF c
    <3>2. c < n
      BY <3>1, <2>4
    <3>3. QED
      BY <3>2 DEF c
  <2>6. QED
    BY <2>2, <2>5 DEF h
<1>8. i \in I
  <2> SUFFICES ASSUME i \notin I PROVE FALSE
    OBVIOUS
  <2>0. \A j \in I : j <= i <=> j <= i - 1
    <3> TAKE j \in I
    <3>1. j \in Nat /\ j # i
      BY <1>0
    <3>2. QED
      BY <3>1, <1>5, <1>7
  <2>1. Upto(i) = Upto(i - 1)
    BY <2>0, Zenon
  <2>2. QED
    BY <2>1, <1>2, <1>5, <1>7
<1>9. Upto(i) = Upto(i - 1) \cup {i} /\ i \notin Upto(i - 1)
  <2>1. \A j \in I : j <= i <=> j <= i - 1 \/ j = i
    <3> TAKE j \in I
    <3>1. j \in Nat
      BY <1>0
    <3>2. QED
      BY <3>1, <1>5, <1>7
  <2>2. Upto(i) = Upto(i - 1) \cup {i}
    BY <2>1, <1>8, Zenon
  <2>3. i \notin Upto(i - 1)
    BY <1>5, <1>7
  <2>4. QED
    BY <2>2, <2>3
<1>10. Cardinality(Upto(i)) = Cardinality(Upto(i - 1)) + 1
  BY <1>2, <1>7, <1>9, FS_AddElement
<1>11. Cardinality(Upto(i)) = n
  <2>1. Cardinality(Upto(i - 1)) \in Nat
    BY <1>2, <1>7
  <2>2. QED
    BY <2>1, <1>5, <1>7, <1>10
<1>12. QED
  BY <1>8, <1>11

\* A stopped bot forgets its claims; the rest keeps its order.
LEMMA WithoutMap ==
    ASSUME NEW S, NEW map \in Seq(ClaimType(S)), Len(map) <= MaxClaims, NEW b \in Bots
    PROVE  /\ Without(map, b) \in Seq(ClaimType(S))
           /\ Len(Without(map, b)) <= MaxClaims
           /\ Keyed(Without(map, b)) \subseteq Keyed(map)
<1> USE PipelineAssumption
<1>1. Len(map) \in Nat /\ DOMAIN map = 1..Len(map)
  BY LenProperties
<1> DEFINE kept == {i \in DOMAIN map : map[i].bot # b}
           N == Cardinality(kept)
<1>2. kept \in SUBSET (1..Len(map))
  BY <1>1
<1>3. N \in Nat /\ N <= Len(map)
  <2>1. IsFiniteSet(1..Len(map)) /\ Cardinality(1..Len(map)) = Len(map)
    <3>1. 1 \in Int /\ Len(map) \in Int
      BY <1>1
    <3>2. /\ IsFiniteSet(1..Len(map))
          /\ Cardinality(1..Len(map)) = IF 1 > Len(map) THEN 0 ELSE Len(map) - 1 + 1
      BY <3>1, FS_Interval
    <3>3. QED
      BY <3>2, <1>1
  <2>2. QED
    BY <2>1, <1>2, FS_Subset, FS_CardinalityType
<1>4. Without(map, b) = [n \in 1..N |-> map[Nth(kept, n)]]
  BY DEF Without
<1>5. \A n \in 1..N : Nth(kept, n) \in kept
  <2> TAKE n \in 1..N
  <2>1. \E i \in kept : Cardinality({j \in kept : j <= i}) = n
    BY <1>1, <1>2, Rank
  <2>2. QED
    BY <2>1 DEF Nth
<1> HIDE DEF kept
<1> DEFINE e(n) == map[Nth(kept, n)]
<1>6. \A n \in 1..N : e(n) \in ClaimType(S) /\ e(n).key \in Keyed(map)
  <2> TAKE n \in 1..N
  <2>1. Nth(kept, n) \in 1..Len(map)
    BY <1>2, <1>5
  <2>2. QED
    BY <2>1, <1>1, ElementOfSeq DEF Keyed
<1> DEFINE new == [n \in 1..N |-> e(n)]
<1> HIDE DEF N
<1>7. new \in Seq(ClaimType(S))
  <2>1. \A n \in 1..N : e(n) \in ClaimType(S)
    BY <1>6
  <2>2. N \in Nat
    BY <1>3
  <2> HIDE DEF e
  <2>3. QED
    BY ONLY <2>1, <2>2, IsASeq
<1>8. DOMAIN new = 1..N /\ Len(new) = N
  BY <1>3, <1>7, LenProperties
<1>9. Keyed(new) \subseteq Keyed(map)
  BY <1>6, <1>8 DEF Keyed
<1>10. Len(new) <= MaxClaims
  BY <1>1, <1>3, <1>8
<1>11. QED
  BY <1>4, <1>7, <1>9, <1>10

-----------------------------------------------------------------------------
(* Types.                                                                  *)

SignatureType == [scope : Keys, text : TextType]

PendingType == [signature : SignatureType, bot : Bots, token : Nat]

SendType == [token : Nat, bot : Bots, text : TextType, posted : BOOLEAN]

Message == [author : Bots \cup {Human}, text : TextType, auto : BOOLEAN]

Sessions ==
    /\ session \in [Bots -> {"off", "on", "reconnecting"}]
    /\ selfKnown \subseteq Bots
    /\ primary \in Bots \cup {None}

Maps ==
    /\ seenIncoming \in Seq(ClaimType(Bots \X Ids)) /\ Len(seenIncoming) <= MaxClaims
    /\ claims \in Seq(ClaimType(Bots \X Ids)) /\ Len(claims) <= MaxClaims
    /\ roomAnswers \in Seq(ClaimType(Keys \X Ids)) /\ Len(roomAnswers) <= MaxClaims

Pending ==
    /\ IsFiniteSet(pendingReplies) /\ pendingReplies \subseteq PendingType
    /\ \A p, q \in pendingReplies : p.signature = q.signature \/ p.token = q.token => p = q

Requests == IsFiniteSet(sends) /\ sends \subseteq SendType

PipeTypes ==
    /\ Sessions /\ Maps /\ Pending /\ Requests
    /\ room \in Seq(Message)
    /\ last \in [Bots -> TextType \cup {None}]
    /\ begun \in [Keys -> [Ids -> Nat]]

LEMMA TypesSuffice == PipeTypes => TypeOK
BY DEF PipeTypes, Sessions, Maps, Pending, TypeOK, Message

\* A token that no request and no pending echo carries: there are more tokens
\* to choose from than requests and echoes together.
LEMMA FreeTokenIsFree ==
    ASSUME Pending, Requests
    PROVE  /\ FreeToken \in Nat
           /\ \A s \in sends : s.token # FreeToken
           /\ \A p \in pendingReplies : p.token # FreeToken
<1> DEFINE A == {s.token : s \in sends}
           B == {p.token : p \in pendingReplies}
           a == Cardinality(sends)
           b == Cardinality(pendingReplies)
<1>1. IsFiniteSet(A) /\ Cardinality(A) <= a
  <2> DEFINE f == [s \in sends |-> s.token]
  <2>1. f \in Surjection(sends, A)
    BY DEF Surjection
  <2>2. IsFiniteSet(sends)
    BY DEF Requests
  <2> HIDE DEF f, A
  <2>3. QED
    BY <2>1, <2>2, FS_Surjection
<1>2. IsFiniteSet(B) /\ Cardinality(B) <= b
  <2> DEFINE f == [p \in pendingReplies |-> p.token]
  <2>1. f \in Surjection(pendingReplies, B)
    BY DEF Surjection
  <2>2. IsFiniteSet(pendingReplies)
    BY DEF Pending
  <2> HIDE DEF f, B
  <2>3. QED
    BY <2>1, <2>2, FS_Surjection
<1>3. a \in Nat /\ b \in Nat
  BY FS_CardinalityType DEF Pending, Requests
<1> HIDE DEF A, B, a, b
<1>4. Cardinality(A \cup B) <= a + b /\ IsFiniteSet(A \cup B) /\ Cardinality(A \cup B) \in Nat
  <2>1. /\ IsFiniteSet(A \cup B)
        /\ Cardinality(A \cup B) = Cardinality(A) + Cardinality(B) - Cardinality(A \cap B)
    BY <1>1, <1>2, FS_Union
  <2>2. IsFiniteSet(A \cap B)
    <3>1. A \cap B \in SUBSET A
      OBVIOUS
    <3>2. QED
      BY <3>1, <1>1, FS_Subset
  <2>3. /\ Cardinality(A) \in Nat /\ Cardinality(B) \in Nat
        /\ Cardinality(A \cap B) \in Nat /\ Cardinality(A \cup B) \in Nat
    BY <1>1, <1>2, <2>1, <2>2, FS_CardinalityType
  <2>4. QED
    BY <1>1, <1>2, <1>3, <2>1, <2>3
<1>5. Cardinality(0..(a + b)) = a + b + 1
  <2>1. 0 \in Int /\ a + b \in Int /\ ~ (0 > a + b)
    BY <1>3
  <2>2. Cardinality(0..(a + b)) = IF 0 > a + b THEN 0 ELSE (a + b) - 0 + 1
    BY <2>1, FS_Interval
  <2>3. QED
    BY <2>1, <2>2, <1>3
<1>6. ~ (0..(a + b) \subseteq A \cup B)
  <2> SUFFICES ASSUME 0..(a + b) \subseteq A \cup B PROVE FALSE
    OBVIOUS
  <2>1. Cardinality(0..(a + b)) <= Cardinality(A \cup B)
    BY <1>4, FS_Subset
  <2>2. QED
    BY <2>1, <1>3, <1>4, <1>5
<1>7. PICK t \in 0..(a + b) : t \notin A /\ t \notin B
  BY <1>6
<1>8. (\A s \in sends : s.token # t) /\ (\A p \in pendingReplies : p.token # t)
  BY <1>7 DEF A, B
<1>9. \E u \in 0..(a + b) :
         (\A s \in sends : s.token # u) /\ (\A p \in pendingReplies : p.token # u)
  BY <1>8
<1>10. /\ FreeToken \in 0..(a + b)
       /\ \A s \in sends : s.token # FreeToken
       /\ \A p \in pendingReplies : p.token # FreeToken
  BY <1>9, Zenon DEF FreeToken, a, b
<1>11. QED
  BY <1>3, <1>10

LEMMA VariantRange ==
    /\ 0 \in 0..(Variants - 1)
    /\ \A v \in 0..(Variants - 1) : (v + 1) % Variants \in 0..(Variants - 1)
<1>1. Variants \in Nat /\ Variants >= 1
  BY PipelineAssumption
<1>2. ASSUME NEW v \in 0..(Variants - 1), v + 1 < Variants PROVE (v + 1) % Variants = v + 1
  BY <1>1, <1>2
<1>3. Variants % Variants = 0
  BY <1>1
<1>4. ASSUME NEW v \in 0..(Variants - 1)
      PROVE  (v + 1) % Variants \in 0..(Variants - 1)
  <2>1. CASE v + 1 < Variants
    BY <1>1, <1>2, <2>1
  <2>2. CASE v + 1 = Variants
    BY <1>1, <1>3, <2>2
  <2>3. QED
    BY <1>1, <2>1, <2>2
<1>5. QED
  BY <1>1, <1>4

LEMMA NextVariantRange ==
    ASSUME last \in [Bots -> TextType \cup {None}], NEW s \in Bots, NEW reply
    PROVE  NextVariant(s, reply) \in 0..(Variants - 1)
<1>1. CASE last[s] # None /\ last[s].base = reply
  <2>1. last[s] \in TextType
    BY <1>1
  <2>2. last[s].variant \in 0..(Variants - 1)
    BY <2>1 DEF TextType
  <2>3. QED
    BY <1>1, <2>2, VariantRange DEF NextVariant
<1>2. CASE ~ (last[s] # None /\ last[s].base = reply)
  BY <1>2, VariantRange DEF NextVariant
<1>3. QED
  BY <1>1, <1>2

LEMMA KeyIsKey == \A b \in Bots : Key(b) \in Keys
BY DEF Keys

\* Somebody in a crowd is the oldest, so the hand-off finds its answerer.
LEMMA SenderIsBot == ASSUME NEW b \in Bots PROVE Sender(b) \in Bots
<1> DEFINE online == {s \in Siblings(b) : session[s] = "on"}
<1>1. online \subseteq Bots
  BY DEF Siblings
<1>2. online # {} => \E s \in online : \A o \in online : Age[s] <= Age[o]
  <2> SUFFICES ASSUME online # {} PROVE \E s \in online : \A o \in online : Age[s] <= Age[o]
    OBVIOUS
  <2> DEFINE ages == {Age[s] : s \in online}
  <2>0. \A s \in online : Age[s] \in Nat
    BY <1>1, PipelineAssumption
  <2> HIDE DEF online
  <2>1. ages \subseteq Nat
    BY <2>0
  <2>2. \A s \in online : Age[s] \in ages
    OBVIOUS
  <2>3. ages # {}
    BY <2>2
  <2>4. \A x \in ages : \E s \in online : Age[s] = x
    OBVIOUS
  <2> HIDE DEF ages
  <2>5. PICK x \in ages : \A y \in ages : ~ (<<y, x>> \in OpToRel(<, Nat))
    BY <2>1, <2>3, NatLessThanWellFounded, WFMin
  <2>6. \A y \in ages : ~ (y < x)
    BY <2>1, <2>5 DEF OpToRel
  <2>7. PICK s \in online : Age[s] = x
    BY <2>4
  <2>8. \A o \in online : Age[s] <= Age[o]
    BY <2>0, <2>1, <2>2, <2>6, <2>7
  <2>9. QED
    BY <2>8
<1> DEFINE oldest == CHOOSE s \in online : \A o \in online : Age[s] <= Age[o]
<1>3. online # {} => oldest \in online
  <2> SUFFICES ASSUME online # {} PROVE oldest \in online
    OBVIOUS
  <2>1. \E s \in online : \A o \in online : Age[s] <= Age[o]
    BY <1>2
  <2> HIDE DEF online
  <2>2. QED
    BY <2>1, Zenon
<1>4. Sender(b) = IF ~ Square \/ Cardinality(Siblings(b)) <= 1 \/ online = {} THEN b
                  ELSE IF primary \in online THEN primary ELSE oldest
  BY DEF Sender
<1> HIDE DEF online, oldest
<1>5. QED
  BY <1>1, <1>3, <1>4, Zenon
-----------------------------------------------------------------------------
(* What the actions do to each part.                                       *)

LEMMA PendingRecord ==
    \A sig \in SignatureType, s \in Bots, t \in Nat :
        \E p \in PendingType :
            /\ p = [signature |-> sig, bot |-> s, token |-> t]
            /\ p.signature = sig /\ p.token = t
<1> TAKE sig \in SignatureType, s \in Bots, t \in Nat
<1>1. [signature |-> sig, bot |-> s, token |-> t] \in PendingType
  BY DEF PendingType
<1>2. QED
  BY <1>1

LEMMA SendRecord ==
    \A t \in Nat, s \in Bots, text \in TextType :
        [token |-> t, bot |-> s, text |-> text, posted |-> FALSE] \in SendType
BY DEF SendType

LEMMA PostedRecord == \A r \in SendType : [r EXCEPT !.posted = TRUE] \in SendType
BY DEF SendType

LEMMA MessageRecord ==
    \A a \in Bots \cup {Human}, text \in TextType :
        /\ [author |-> a, text |-> text, auto |-> TRUE] \in Message
        /\ [author |-> a, text |-> text, auto |-> FALSE] \in Message
BY DEF Message

\* Every way out of handleIncoming records the message it was told of first.
LEMMA Sighted ==
    ASSUME NEW b \in Bots, NEW m \in Ids, Deliver(b, m)
    PROVE  \/ UNCHANGED <<seenIncoming, claims, roomAnswers, last, echoes, sends, history>>
           \/ FirstSight(b, m)
BY DEF Deliver, Duplicate, guards, OwnMessage, Echo, Unanswered, Outrun, Answer, Strange

\* The answerer, the text it sends and what is tracked are of their types.
LEMMA AnswerEffect ==
    ASSUME PipeTypes, NEW b \in Bots, NEW m \in Ids, Answer(b, m)
    PROVE  \E s \in Bots, text \in TextType, sig \in SignatureType, p \in PendingType :
              /\ sig = Signature(s, text)
              /\ p.signature = sig /\ p.token = FreeToken
              /\ last' = [last EXCEPT ![s] = text]
              /\ tracked' = tracked \cup {sig}
              /\ \/ pendingReplies' = {q \in pendingReplies : q.signature # sig} \cup {p}
                 \/ pendingReplies' = {q \in pendingReplies : q.signature # sig}
              /\ \/ UNCHANGED sends
                 \/ \E r \in SendType : sends' = sends \cup {r}
<1> DEFINE s == Sender(b)
           reply == Matched(b, m)
           text == [base |-> reply, variant |-> NextVariant(s, reply)]
           sig == Signature(s, text)
<1>1. s \in Bots
  BY SenderIsBot
<1>2. text \in TextType
  <2>1. m \in DOMAIN room /\ reply # None
    BY DEF Answer, Strange, FirstSight, Told
  <2>2. room[m] \in Message
    BY <2>1, ElementOfSeq, LenProperties DEF PipeTypes
  <2>3. room[m].text.base \in Texts
    BY <2>2 DEF Message, TextType
  <2>4. reply \in Texts
    BY <2>1, <2>3, PipelineAssumption DEF Matched
  <2>5. NextVariant(s, reply) \in 0..(Variants - 1)
    BY <1>1, NextVariantRange DEF PipeTypes
  <2>6. QED
    BY <2>4, <2>5 DEF TextType
<1>3. sig \in SignatureType
  BY <1>1, <1>2, KeyIsKey DEF Signature, SignatureType, EchoScope
<1>4. FreeToken \in Nat
  BY FreeTokenIsFree DEF PipeTypes
<1>5. PICK p \in PendingType : /\ p = [signature |-> sig, bot |-> s, token |-> FreeToken]
                               /\ p.signature = sig /\ p.token = FreeToken
  BY <1>1, <1>3, <1>4, PendingRecord
<1>6. [token |-> FreeToken, bot |-> s, text |-> text, posted |-> FALSE] \in SendType
  BY <1>1, <1>2, <1>4, SendRecord
<1>7. /\ last' = [last EXCEPT ![s] = text]
      /\ tracked' = tracked \cup {sig}
      /\ \/ /\ pendingReplies' = {q \in pendingReplies : q.signature # sig}
                   \cup {[signature |-> sig, bot |-> s, token |-> FreeToken]}
            /\ sends' = sends
                   \cup {[token |-> FreeToken, bot |-> s, text |-> text, posted |-> FALSE]}
         \/ /\ pendingReplies' = {q \in pendingReplies : q.signature # sig}
            /\ UNCHANGED sends
  BY Zenon DEF Answer
<1> HIDE DEF s, reply, text
<1>8. sig = Signature(s, text)
  OBVIOUS
<1> HIDE DEF sig
<1>9. \/ pendingReplies' = {q \in pendingReplies : q.signature # sig} \cup {p}
      \/ pendingReplies' = {q \in pendingReplies : q.signature # sig}
  BY <1>5, <1>7, Zenon
<1>10. \/ UNCHANGED sends
       \/ \E r \in SendType : sends' = sends \cup {r}
  BY <1>6, <1>7, Zenon
<1>11. QED
  BY <1>1, <1>2, <1>3, <1>5, <1>7, <1>8, <1>9, <1>10, Zenon

LEMMA PendingShrinks ==
    ASSUME Pending, pendingReplies' \subseteq pendingReplies
    PROVE  Pending'
<1>1. IsFiniteSet(pendingReplies')
  BY FS_Subset DEF Pending
<1>2. QED
  BY <1>1 DEF Pending

LEMMA RequestsShrink ==
    ASSUME Requests, sends' \subseteq sends
    PROVE  Requests'
<1>1. IsFiniteSet(sends')
  BY FS_Subset DEF Requests
<1>2. QED
  BY <1>1 DEF Requests

LEMMA RequestsGrow ==
    ASSUME Requests, NEW S \in SUBSET sends, NEW r \in SendType, sends' = S \cup {r}
    PROVE  Requests'
<1>1. IsFiniteSet(S)
  BY FS_Subset DEF Requests
<1>2. IsFiniteSet(sends')
  BY <1>1, FS_AddElement
<1>3. QED
  BY <1>2 DEF Requests

\* Two echoes under one token or one signature would be confused: the echo of
\* the same signature makes way for the new one, and the token is unused.
LEMMA PendingGrows ==
    ASSUME Pending, Requests, NEW sig, NEW p \in PendingType,
           p.signature = sig, p.token = FreeToken,
           pendingReplies' = {q \in pendingReplies : q.signature # sig} \cup {p}
    PROVE  Pending'
<1> DEFINE rest == {q \in pendingReplies : q.signature # sig}
<1>1. rest \in SUBSET pendingReplies
  OBVIOUS
<1>2. \A q \in rest : q.signature # p.signature /\ q.token # p.token
  BY FreeTokenIsFree
<1> HIDE DEF rest
<1>3. pendingReplies' = rest \cup {p}
  BY DEF rest
<1>4. IsFiniteSet(rest)
  BY <1>1, FS_Subset DEF Pending
<1>5. IsFiniteSet(pendingReplies')
  BY <1>3, <1>4, FS_AddElement
<1>6. QED
  BY <1>1, <1>2, <1>3, <1>5 DEF Pending
\* The claims of handleIncoming, in whichever of its ways out they are taken.
LEMMA DeliverMaps ==
    ASSUME Maps, NEW b \in Bots, NEW m \in Ids, Deliver(b, m)
    PROVE  Maps'
<1>0. <<b, m>> \in Bots \X Ids /\ RoomKey(b, m) \in Keys \X Ids
  BY KeyIsKey DEF RoomKey
<1>1. CASE UNCHANGED <<seenIncoming, claims, roomAnswers>>
  BY <1>1 DEF Maps
<1>2. CASE FirstSight(b, m)
  <2>1. seenIncoming' \in Seq(ClaimType(Bots \X Ids)) /\ Len(seenIncoming') <= MaxClaims
    BY <1>0, <1>2, ClaimMap DEF FirstSight, Maps
  <2>2. /\ claims' = claims \/ claims' = Claim(claims, <<b, m>>, b)
        /\ roomAnswers' = roomAnswers \/ roomAnswers' = Claim(roomAnswers, RoomKey(b, m), b)
    BY DEF Deliver, Duplicate, guards, OwnMessage, Echo, Unanswered, Outrun, Answer
  <2>3. claims' \in Seq(ClaimType(Bots \X Ids)) /\ Len(claims') <= MaxClaims
    BY <1>0, <2>2, ClaimMap DEF Maps
  <2>4. roomAnswers' \in Seq(ClaimType(Keys \X Ids)) /\ Len(roomAnswers') <= MaxClaims
    BY <1>0, <2>2, ClaimMap DEF Maps
  <2>5. QED
    BY <2>1, <2>3, <2>4 DEF Maps
<1>3. QED
  BY <1>1, <1>2, Sighted

LEMMA StepTypes == PipeTypes /\ [Next]_vars => PipeTypes'
<1> SUFFICES ASSUME PipeTypes, [Next]_vars PROVE PipeTypes'
  OBVIOUS
<1>1. ASSUME NEW b \in Bots, NEW m \in Ids, Deliver(b, m) PROVE PipeTypes'
  <2>1. UNCHANGED <<session, selfKnown, primary, room>>
    BY <1>1 DEF Deliver, Duplicate, FirstSight, Told, OwnMessage, Echo, Strange, Unanswered,
                Outrun, Answer
  <2>2. Sessions' /\ room' \in Seq(Message)
    BY <2>1 DEF PipeTypes, Sessions
  <2>3. Maps'
    BY <1>1, DeliverMaps DEF PipeTypes
  <2>4. CASE Answer(b, m)
    <3>1. PICK s \in Bots, text \in TextType, sig \in SignatureType, p \in PendingType :
              /\ p.signature = sig /\ p.token = FreeToken
              /\ last' = [last EXCEPT ![s] = text]
              /\ \/ pendingReplies' = {q \in pendingReplies : q.signature # sig} \cup {p}
                 \/ pendingReplies' = {q \in pendingReplies : q.signature # sig}
              /\ \/ UNCHANGED sends
                 \/ \E r \in SendType : sends' = sends \cup {r}
      BY <2>4, AnswerEffect
    <3>2. Pending'
      <4>1. CASE pendingReplies' = {q \in pendingReplies : q.signature # sig} \cup {p}
        BY <3>1, <4>1, PendingGrows DEF PipeTypes
      <4>2. CASE pendingReplies' = {q \in pendingReplies : q.signature # sig}
        BY <4>2, PendingShrinks DEF PipeTypes
      <4>3. QED
        BY <3>1, <4>1, <4>2
    <3>3. Requests'
      <4>1. sends \in SUBSET sends
        OBVIOUS
      <4>2. CASE UNCHANGED sends
        BY <4>2 DEF PipeTypes, Requests
      <4>3. ASSUME NEW r \in SendType, sends' = sends \cup {r} PROVE Requests'
        BY <4>1, <4>3, RequestsGrow DEF PipeTypes
      <4>4. QED
        BY <3>1, <4>2, <4>3
    <3>4. last' \in [Bots -> TextType \cup {None}]
      BY <3>1 DEF PipeTypes
    <3>5. begun' \in [Keys -> [Ids -> Nat]]
      BY <2>4, KeyIsKey DEF Answer, PipeTypes
    <3>6. QED
      BY <2>2, <2>3, <3>2, <3>3, <3>4, <3>5 DEF PipeTypes
  <2>5. CASE ~ Answer(b, m)
    <3>1. UNCHANGED <<last, sends, begun>> /\ pendingReplies' \subseteq pendingReplies
      BY <1>1, <2>5 DEF Deliver, Duplicate, OwnMessage, Echo, Unanswered, Outrun, echoes, history
    <3>2. Pending'
      BY <3>1, PendingShrinks DEF PipeTypes
    <3>3. QED
      BY <2>2, <2>3, <3>1, <3>2 DEF PipeTypes, Requests
  <2>6. QED
    BY <2>4, <2>5
<1>2. CASE HumanPosts
  <2>1. PICK t \in HumanTexts, a \in Posters : Post(a, [base |-> t, variant |-> 0], FALSE)
    BY <1>2 DEF HumanPosts
  <2>2. a \in Bots \cup {Human} /\ [base |-> t, variant |-> 0] \in TextType
    BY VariantRange, PipelineAssumption DEF Human, TextType
  <2>3. [author |-> a, text |-> [base |-> t, variant |-> 0], auto |-> FALSE] \in Message
    BY <2>2, MessageRecord
  <2>4. room' \in Seq(Message)
    BY <2>1, <2>3, AppendProperties DEF Post, PipeTypes
  <2>5. QED
    BY <1>2, <2>4 DEF HumanPosts, guards, echoes, history, PipeTypes, Sessions, Maps, Pending,
                      Requests
<1>3. ASSUME NEW s \in sends, ReplyPosted(s) PROVE PipeTypes'
  <2>1. s \in SendType
    BY DEF PipeTypes, Requests
  <2>2. s.bot \in Bots \cup {Human} /\ s.text \in TextType
    BY <2>1 DEF SendType
  <2>3. [author |-> s.bot, text |-> s.text, auto |-> TRUE] \in Message
    BY <2>2, MessageRecord
  <2>4. room' \in Seq(Message)
    BY <1>3, <2>3, AppendProperties DEF ReplyPosted, Post, PipeTypes
  <2>5. Requests'
    <3>1. sends \ {s} \in SUBSET sends
      OBVIOUS
    <3>2. CASE sends' = sends \ {s}
      BY <3>2, RequestsShrink DEF PipeTypes
    <3>3. CASE sends' = (sends \ {s}) \cup {[s EXCEPT !.posted = TRUE]}
      <4>1. [s EXCEPT !.posted = TRUE] \in SendType
        BY <2>1, PostedRecord
      <4>2. QED
        BY <3>1, <3>3, <4>1, RequestsGrow DEF PipeTypes
    <3>4. QED
      BY <1>3, <3>2, <3>3 DEF ReplyPosted
  <2>6. QED
    BY <1>3, <2>4, <2>5 DEF ReplyPosted, guards, echoes, history, PipeTypes, Sessions, Maps,
                            Pending
<1>4. ASSUME NEW s \in sends, ReplyFails(s) PROVE PipeTypes'
  <2>1. Pending' /\ Requests'
    BY <1>4, PendingShrinks, RequestsShrink DEF ReplyFails, Cancelled, PipeTypes
  <2>2. QED
    BY <1>4, <2>1 DEF ReplyFails, guards, history, PipeTypes, Sessions, Maps
<1>5. CASE ClaimExpires
  <2>1. Maps'
    <3>1. /\ \/ seenIncoming' = seenIncoming
             \/ seenIncoming # <<>> /\ seenIncoming' = Tail(seenIncoming)
          /\ \/ claims' = claims
             \/ claims # <<>> /\ claims' = Tail(claims)
          /\ \/ roomAnswers' = roomAnswers
             \/ roomAnswers # <<>> /\ roomAnswers' = Tail(roomAnswers)
      BY <1>5 DEF ClaimExpires
    <3>2. seenIncoming' \in Seq(ClaimType(Bots \X Ids)) /\ Len(seenIncoming') <= MaxClaims
      <4>1. seenIncoming \in Seq(ClaimType(Bots \X Ids)) /\ Len(seenIncoming) <= MaxClaims
        BY DEF PipeTypes, Maps
      <4>2. QED
        BY <3>1, <4>1, SameOrTail
    <3>3. claims' \in Seq(ClaimType(Bots \X Ids)) /\ Len(claims') <= MaxClaims
      <4>1. claims \in Seq(ClaimType(Bots \X Ids)) /\ Len(claims) <= MaxClaims
        BY DEF PipeTypes, Maps
      <4>2. QED
        BY <3>1, <4>1, SameOrTail
    <3>4. roomAnswers' \in Seq(ClaimType(Keys \X Ids)) /\ Len(roomAnswers') <= MaxClaims
      <4>1. roomAnswers \in Seq(ClaimType(Keys \X Ids)) /\ Len(roomAnswers) <= MaxClaims
        BY DEF PipeTypes, Maps
      <4>2. QED
        BY <3>1, <4>1, SameOrTail
    <3>5. QED
      BY <3>2, <3>3, <3>4 DEF Maps
  <2>2. QED
    BY <1>5, <2>1 DEF ClaimExpires, echoes, PipeTypes, Sessions, Pending, Requests
<1>6. ASSUME NEW b \in Bots, Stop(b) PROVE PipeTypes'
  <2>1. Maps'
    BY <1>6, WithoutMap DEF Stop, PipeTypes, Maps
  <2>2. Pending'
    BY <1>6, PendingShrinks DEF Stop, PipeTypes
  <2>3. QED
    BY <1>6, <2>1, <2>2 DEF Stop, PipeTypes, Sessions, Requests
<1>7. ASSUME NEW b \in Bots,
             ListenerLost(b) \/ Online(b) \/ SelfMidResolved(b) \/ SetPrimaryBot(b)
      PROVE  PipeTypes'
  BY <1>7 DEF ListenerLost, Online, SelfMidResolved, SetPrimaryBot, guards, echoes, history,
              PipeTypes, Sessions, Maps, Pending, Requests
<1>8. CASE EchoExpires
  <2>1. Pending'
    BY <1>8, PendingShrinks DEF EchoExpires, PipeTypes
  <2>2. QED
    BY <1>8, <2>1 DEF EchoExpires, guards, history, PipeTypes, Sessions, Maps, Requests
<1>9. CASE UNCHANGED vars
  BY <1>9 DEF vars, guards, echoes, history, PipeTypes, Sessions, Maps, Pending, Requests
<1>10. QED
  BY <1>1, <1>2, <1>3, <1>4, <1>5, <1>6, <1>7, <1>8, <1>9 DEF Next

LEMMA InitTypes == Init => PipeTypes
<1> SUFFICES ASSUME Init PROVE PipeTypes
  OBVIOUS
<1>1. /\ <<>> \in Seq(ClaimType(Bots \X Ids)) /\ <<>> \in Seq(ClaimType(Keys \X Ids))
      /\ <<>> \in Seq(Message)
  OBVIOUS
<1>2. Len(<<>>) = 0
  BY EmptySeq
<1>3. Maps
  BY <1>1, <1>2, PipelineAssumption DEF Init, Maps
<1>4. Pending /\ Requests
  BY FS_EmptySet DEF Init, Pending, Requests
<1>5. Sessions
  BY DEF Init, Sessions
<1>6. last \in [Bots -> TextType \cup {None}] /\ begun \in [Keys -> [Ids -> Nat]]
  BY DEF Init
<1>7. QED
  BY <1>1, <1>3, <1>4, <1>5, <1>6 DEF Init, PipeTypes

\* The maps stay within their cap, no two echoes a bot waits for can be taken
\* for each other, and a failed request cancels its own echo and no other: for
\* every number of bots, messages and upsets and every cap.
THEOREM TypeCorrect == Spec => []TypeOK
<1>1. PipeTypes => TypeOK
  BY TypesSuffice
<1>2. QED
  BY <1>1, InitTypes, StepTypes, PTL DEF Spec
-----------------------------------------------------------------------------
(* The inductive invariant.                                                *)

\* A reply begun is claimed in the room, or its claim is known to be gone.
AnswersClaimed ==
    \A k \in Keys, m \in Ids :
        begun[k][m] > 0 => <<k, m>> \in Keyed(roomAnswers) \cup released

\* A claim stands for a reply the owner began.
ClaimsAnswered ==
    /\ \A k \in Keys, m \in Ids : <<k, m>> \in Keyed(roomAnswers) => begun[k][m] > 0
    /\ \A b \in Bots, m \in Ids : <<b, m>> \in Keyed(claims) => begun[Key(b)][m] > 0

\* What passes for an echo has the bytes of a reply that was tracked.
EchoesTracked ==
    /\ \A p \in pendingReplies : p.signature \in tracked
    /\ \A e \in seenMessageIds :
          e.id \in DOMAIN room /\ [scope |-> e.scope, text |-> room[e.id].text] \in tracked

Heeded(b, m) ==
    /\ m \in DOMAIN room
    /\ Matched(b, m) # None /\ ~ Ignored(b, m) /\ Signature(b, room[m].text) \notin tracked
          => begun[Key(b)][m] > 0

SightsHeeded ==
    \A b \in Bots, m \in Ids : <<b, m>> \in Keyed(seenIncoming) => Heeded(b, m)

PipeInv ==
    PipeTypes /\ AnswersClaimed /\ ClaimsAnswered /\ AnswerOnce /\ EchoesTracked /\ SightsHeeded

LEMMA StillHeeded ==
    ASSUME selfKnown \subseteq selfKnown', tracked \subseteq tracked',
           \A n \in DOMAIN room : n \in DOMAIN room' /\ room'[n] = room[n],
           NEW b \in Bots, NEW m \in Ids,
           begun[Key(b)][m] > 0 => begun'[Key(b)][m] > 0,
           Heeded(b, m)
    PROVE  Heeded(b, m)'
BY DEF Heeded, Matched, Ignored, Own, Signature, EchoScope

\* A room claim that goes is recorded as released.
LEMMA ReleasedGrows ==
    ASSUME released' = Released(roomAnswers')
    PROVE  /\ released \subseteq released'
           /\ Keyed(roomAnswers) \cup released \subseteq Keyed(roomAnswers') \cup released'
BY DEF Released, Keyed

\* Steps that begin no reply.
LEMMA QuietStep ==
    ASSUME PipeInv,
           UNCHANGED <<begun, tracked>>, selfKnown \subseteq selfKnown',
           \A n \in DOMAIN room : n \in DOMAIN room' /\ room'[n] = room[n],
           Keyed(roomAnswers') \subseteq Keyed(roomAnswers),
           \/ released' = Released(roomAnswers')
           \/ UNCHANGED <<roomAnswers, released>>,
           \A b \in Bots, m \in Ids :
              <<b, m>> \in Keyed(claims') =>
                 <<b, m>> \in Keyed(claims) \/ <<Key(b), m>> \in Keyed(roomAnswers),
           \A b \in Bots, m \in Ids :
              <<b, m>> \in Keyed(seenIncoming') => <<b, m>> \in Keyed(seenIncoming) \/ Heeded(b, m)
    PROVE  AnswersClaimed' /\ ClaimsAnswered' /\ AnswerOnce' /\ SightsHeeded'
<1>1. /\ released \subseteq released'
      /\ Keyed(roomAnswers) \cup released \subseteq Keyed(roomAnswers') \cup released'
  BY ReleasedGrows
<1>2. AnswersClaimed'
  BY <1>1 DEF PipeInv, AnswersClaimed
<1>3. AnswerOnce'
  BY <1>1 DEF PipeInv, AnswerOnce
<1>4. ClaimsAnswered'
  BY KeyIsKey DEF PipeInv, ClaimsAnswered
<1>5. ASSUME NEW b \in Bots, NEW m \in Ids, <<b, m>> \in Keyed(seenIncoming')
      PROVE  Heeded(b, m)'
  <2>1. Heeded(b, m)
    BY <1>5 DEF PipeInv, SightsHeeded
  <2>2. QED
    BY <2>1, StillHeeded
<1>6. QED
  BY <1>2, <1>3, <1>4, <1>5 DEF SightsHeeded

LEMMA QuietEchoes ==
    ASSUME EchoesTracked, tracked' = tracked,
           \A n \in DOMAIN room : n \in DOMAIN room' /\ room'[n] = room[n],
           pendingReplies' \subseteq pendingReplies, seenMessageIds' \subseteq seenMessageIds
    PROVE  EchoesTracked'
BY DEF EchoesTracked

\* A message that looks like an echo, or is known as one, has tracked bytes.
LEMMA EchoIsTracked ==
    ASSUME EchoesTracked, NEW b \in Bots, NEW m \in Ids,
           KnownEcho(b, m) \/ LooksLikeEcho(b, m)
    PROVE  Signature(b, room[m].text) \in tracked
BY DEF EchoesTracked, KnownEcho, LooksLikeEcho, Signature

\* One bot more to read the message, however it reads it, is one bot more that
\* heeds it, when its owner has begun its reply, its bytes are tracked, or
\* there is nothing to answer.
LEMMA SeenGrows ==
    ASSUME Maps, NEW b \in Bots, NEW m \in Ids, FirstSight(b, m), Heeded(b, m)
    PROVE  \A c \in Bots, n \in Ids :
              <<c, n>> \in Keyed(seenIncoming') => <<c, n>> \in Keyed(seenIncoming) \/ Heeded(c, n)
<1>1. <<b, m>> \in Bots \X Ids
  OBVIOUS
<1>2. Keyed(seenIncoming') \subseteq Keyed(seenIncoming) \cup {<<b, m>>}
  BY <1>1, ClaimMap DEF FirstSight, Maps
<1>3. QED
  BY <1>2

LEMMA QuietDelivery ==
    ASSUME PipeInv, NEW b \in Bots, NEW m \in Ids, Deliver(b, m), ~ Answer(b, m)
    PROVE  AnswersClaimed' /\ ClaimsAnswered' /\ AnswerOnce' /\ SightsHeeded' /\ EchoesTracked'
<1>1. UNCHANGED <<room, selfKnown, roomAnswers, released, begun, tracked>>
  BY DEF Deliver, Duplicate, FirstSight, Told, OwnMessage, Echo, Strange, Unanswered, Outrun,
         guards, history
<1>2. CASE Duplicate(b, m)
  <2>1. UNCHANGED <<seenIncoming, claims, pendingReplies, seenMessageIds>>
    BY <1>2 DEF Duplicate, guards, echoes
  <2>2. AnswersClaimed' /\ ClaimsAnswered' /\ AnswerOnce' /\ SightsHeeded'
    BY <1>1, <2>1, QuietStep DEF Keyed
  <2>3. EchoesTracked'
    BY <1>1, <2>1, QuietEchoes DEF PipeInv
  <2>4. QED
    BY <2>2, <2>3
<1>3. CASE ~ Duplicate(b, m)
  <2>1. FirstSight(b, m) /\ m \in DOMAIN room
    BY <1>3 DEF Deliver, OwnMessage, Echo, Unanswered, Outrun, Strange, FirstSight, Told
  <2>2. \A c \in Bots, n \in Ids :
           <<c, n>> \in Keyed(claims') =>
              <<c, n>> \in Keyed(claims) \/ <<Key(c), n>> \in Keyed(roomAnswers)
    <3>1. CASE Outrun(b, m)
      <4>1. <<b, m>> \in Bots \X Ids
        OBVIOUS
      <4>2. Keyed(claims') \subseteq Keyed(claims) \cup {<<b, m>>}
        BY <3>1, <4>1, ClaimMap DEF Outrun, PipeInv, PipeTypes, Maps
      <4>3. <<Key(b), m>> \in Keyed(roomAnswers)
        BY <3>1, ClaimedIsKeyed DEF Outrun, RoomKey
      <4>4. QED
        BY <4>2, <4>3
    <3>2. CASE ~ Outrun(b, m)
      <4>1. claims' = claims
        BY <1>3, <3>2 DEF Deliver, OwnMessage, Echo, Unanswered
      <4>2. QED
        BY <4>1
    <3>3. QED
      BY <3>1, <3>2
  <2>3. Heeded(b, m)
    <3>1. CASE OwnMessage(b, m)
      BY <2>1, <3>1 DEF OwnMessage, Heeded
    <3>2. CASE Echo(b, m)
      <4>1. KnownEcho(b, m) \/ LooksLikeEcho(b, m)
        BY <3>2 DEF Echo, LooksLikeEcho
      <4>2. Signature(b, room[m].text) \in tracked
        BY <4>1, EchoIsTracked DEF PipeInv
      <4>3. QED
        BY <2>1, <4>2 DEF Heeded
    <3>3. CASE Unanswered(b, m)
      <4>1. Matched(b, m) = None \/ <<b, m>> \in Keyed(claims)
        BY <3>3, ClaimedIsKeyed DEF Unanswered
      <4>2. Matched(b, m) = None \/ begun[Key(b)][m] > 0
        BY <4>1 DEF PipeInv, ClaimsAnswered
      <4>3. QED
        BY <2>1, <4>2 DEF Heeded
    <3>4. CASE Outrun(b, m)
      <4>1. <<Key(b), m>> \in Keyed(roomAnswers)
        BY <3>4, ClaimedIsKeyed DEF Outrun, RoomKey
      <4>2. begun[Key(b)][m] > 0
        BY <4>1, KeyIsKey DEF PipeInv, ClaimsAnswered
      <4>3. QED
        BY <2>1, <4>2 DEF Heeded
    <3>5. QED
      BY <1>3, <3>1, <3>2, <3>3, <3>4 DEF Deliver
  <2>4. \A c \in Bots, n \in Ids :
           <<c, n>> \in Keyed(seenIncoming') => <<c, n>> \in Keyed(seenIncoming) \/ Heeded(c, n)
    BY <2>1, <2>3, SeenGrows DEF PipeInv, PipeTypes
  <2>5. AnswersClaimed' /\ ClaimsAnswered' /\ AnswerOnce' /\ SightsHeeded'
    BY <1>1, <2>2, <2>4, QuietStep DEF Keyed
  <2>6. EchoesTracked'
    <3>1. CASE UNCHANGED <<pendingReplies, seenMessageIds>>
      BY <1>1, <3>1, QuietEchoes DEF PipeInv
    <3>2. ASSUME NEW p \in pendingReplies,
                 p.signature = Signature(b, room[m].text),
                 pendingReplies' = pendingReplies \ {p},
                 seenMessageIds' = seenMessageIds
                    \cup {[scope |-> EchoScope(b), id |-> m, bot |-> p.bot]}
          PROVE  EchoesTracked'
      <4>1. Signature(b, room[m].text) \in tracked
        BY <3>2 DEF PipeInv, EchoesTracked
      <4>2. QED
        BY <1>1, <2>1, <3>2, <4>1 DEF PipeInv, EchoesTracked, Signature
    <3>3. QED
      BY <1>3, <3>1, <3>2 DEF Deliver, OwnMessage, Echo, Unanswered, Outrun, echoes
  <2>7. QED
    BY <2>5, <2>6
<1>4. QED
  BY <1>2, <1>3

LEMMA AnswerStep ==
    ASSUME PipeInv, NEW b \in Bots, NEW m \in Ids, Answer(b, m)
    PROVE  AnswersClaimed' /\ ClaimsAnswered' /\ AnswerOnce' /\ SightsHeeded' /\ EchoesTracked'
<1>0. Key(b) \in Keys /\ <<Key(b), m>> \in Keys \X Ids /\ <<b, m>> \in Bots \X Ids
  BY KeyIsKey
<1>1. /\ UNCHANGED <<room, selfKnown, seenMessageIds>>
      /\ m \in DOMAIN room
      /\ FirstSight(b, m)
      /\ released' = Released(roomAnswers')
      /\ tracked \subseteq tracked'
  BY DEF Answer, Strange, FirstSight, Told
<1>2. /\ \A k \in Keys, n \in Ids : ~ (k = Key(b) /\ n = m) => begun'[k][n] = begun[k][n]
      /\ begun'[Key(b)][m] = begun[Key(b)][m] + 1
      /\ \A k \in Keys, n \in Ids : begun[k][n] \in Nat
  BY <1>0 DEF Answer, PipeInv, PipeTypes
<1>3. /\ <<Key(b), m>> \in Keyed(roomAnswers')
      /\ Keyed(roomAnswers') \subseteq Keyed(roomAnswers) \cup {<<Key(b), m>>}
  BY <1>0, ClaimMap DEF Answer, RoomKey, PipeInv, PipeTypes, Maps
<1>4. Keyed(claims') \subseteq Keyed(claims) \cup {<<b, m>>}
  BY <1>0, ClaimMap DEF Answer, PipeInv, PipeTypes, Maps
<1>5. <<Key(b), m>> \notin Keyed(roomAnswers)
  BY ClaimedIsKeyed DEF Answer, RoomKey
<1>6. /\ released \subseteq released'
      /\ Keyed(roomAnswers) \cup released \subseteq Keyed(roomAnswers') \cup released'
  BY <1>1, ReleasedGrows
<1>7. \A k \in Keys, n \in Ids : begun[k][n] > 0 => begun'[k][n] > 0
  BY <1>0, <1>2
<1>8. begun'[Key(b)][m] > 0
  BY <1>0, <1>2
<1>9. AnswersClaimed'
  <2> SUFFICES ASSUME NEW k \in Keys, NEW n \in Ids, begun'[k][n] > 0
               PROVE  <<k, n>> \in Keyed(roomAnswers') \cup released'
    BY DEF AnswersClaimed
  <2>1. CASE k = Key(b) /\ n = m
    BY <2>1, <1>3
  <2>2. CASE ~ (k = Key(b) /\ n = m)
    BY <2>2, <1>2, <1>6 DEF PipeInv, AnswersClaimed
  <2>3. QED
    BY <2>1, <2>2
<1>10. AnswerOnce'
  <2> SUFFICES ASSUME NEW k \in Keys, NEW n \in Ids, begun'[k][n] > 1
               PROVE  <<k, n>> \in released'
    BY DEF AnswerOnce
  <2>1. CASE k = Key(b) /\ n = m
    <3>1. begun[Key(b)][m] > 0
      BY <2>1, <1>0, <1>2
    <3>2. <<Key(b), m>> \in Keyed(roomAnswers) \cup released
      BY <3>1, <1>0 DEF PipeInv, AnswersClaimed
    <3>3. QED
      BY <2>1, <3>2, <1>5, <1>6
  <2>2. CASE ~ (k = Key(b) /\ n = m)
    BY <2>2, <1>2, <1>6 DEF PipeInv, AnswerOnce
  <2>3. QED
    BY <2>1, <2>2
<1>11. ClaimsAnswered'
  <2>1. ASSUME NEW k \in Keys, NEW n \in Ids, <<k, n>> \in Keyed(roomAnswers')
        PROVE  begun'[k][n] > 0
    <3>1. CASE <<k, n>> = <<Key(b), m>>
      BY <3>1, <1>8
    <3>2. CASE <<k, n>> # <<Key(b), m>>
      BY <2>1, <3>2, <1>3, <1>7 DEF PipeInv, ClaimsAnswered
    <3>3. QED
      BY <3>1, <3>2
  <2>2. ASSUME NEW c \in Bots, NEW n \in Ids, <<c, n>> \in Keyed(claims')
        PROVE  begun'[Key(c)][n] > 0
    <3>1. CASE <<c, n>> = <<b, m>>
      BY <3>1, <1>8
    <3>2. CASE <<c, n>> # <<b, m>>
      BY <2>2, <3>2, <1>4, <1>7, KeyIsKey DEF PipeInv, ClaimsAnswered
    <3>3. QED
      BY <3>1, <3>2
  <2>3. QED
    BY <2>1, <2>2 DEF ClaimsAnswered
<1>12. SightsHeeded'
  <2>1. Keyed(seenIncoming') \subseteq Keyed(seenIncoming) \cup {<<b, m>>}
    BY <1>0, <1>1, ClaimMap DEF FirstSight, PipeInv, PipeTypes, Maps
  <2> SUFFICES ASSUME NEW c \in Bots, NEW n \in Ids, <<c, n>> \in Keyed(seenIncoming')
               PROVE  Heeded(c, n)'
    BY DEF SightsHeeded
  <2>2. CASE <<c, n>> = <<b, m>>
    BY <2>2, <1>1, <1>8 DEF Heeded
  <2>3. CASE <<c, n>> # <<b, m>>
    <3>1. Heeded(c, n)
      BY <2>1, <2>3 DEF PipeInv, SightsHeeded
    <3>2. Key(c) \in Keys
      BY KeyIsKey
    <3>3. QED
      BY <3>1, <3>2, <1>1, <1>7, StillHeeded
  <2>4. QED
    BY <2>2, <2>3
<1>13. EchoesTracked'
  <2>1. PICK s \in Bots, text \in TextType, sig \in SignatureType, p \in PendingType :
            /\ p.signature = sig
            /\ tracked' = tracked \cup {sig}
            /\ \/ pendingReplies' = {q \in pendingReplies : q.signature # sig} \cup {p}
               \/ pendingReplies' = {q \in pendingReplies : q.signature # sig}
    BY AnswerEffect DEF PipeInv
  <2>2. QED
    BY <2>1, <1>1 DEF PipeInv, EchoesTracked
<1>14. QED
  BY <1>9, <1>10, <1>11, <1>12, <1>13

LEMMA PostKeeps ==
    ASSUME room \in Seq(Message), NEW x \in Message, room' = Append(room, x)
    PROVE  \A n \in DOMAIN room : n \in DOMAIN room' /\ room'[n] = room[n]
<1>1. DOMAIN room = 1..Len(room) /\ Len(room) \in Nat
  BY LenProperties
<1>2. /\ room' \in Seq(Message) /\ Len(room') = Len(room) + 1
      /\ \A n \in 1..Len(room) : room'[n] = room[n]
  BY AppendProperties
<1>3. DOMAIN room' = 1..(Len(room) + 1)
  BY <1>2, LenProperties
<1>4. QED
  BY <1>1, <1>2, <1>3
LEMMA PipeStep == PipeInv /\ [Next]_vars => PipeInv'
<1> SUFFICES ASSUME PipeInv, [Next]_vars PROVE PipeInv'
  OBVIOUS
<1>0. PipeTypes' /\ PipeTypes
  BY StepTypes DEF PipeInv
<1>1. ASSUME NEW b \in Bots, NEW m \in Ids, Deliver(b, m) PROVE PipeInv'
  BY <1>0, <1>1, AnswerStep, QuietDelivery DEF PipeInv
<1>2. ASSUME UNCHANGED <<seenIncoming, claims, roomAnswers, begun, released, tracked>>,
             selfKnown \subseteq selfKnown',
             \A n \in DOMAIN room : n \in DOMAIN room' /\ room'[n] = room[n],
             pendingReplies' \subseteq pendingReplies, seenMessageIds' \subseteq seenMessageIds
      PROVE  PipeInv'
  <2>1. /\ Keyed(roomAnswers') = Keyed(roomAnswers)
        /\ Keyed(claims') = Keyed(claims)
        /\ Keyed(seenIncoming') = Keyed(seenIncoming)
    BY <1>2
  <2>2. AnswersClaimed' /\ ClaimsAnswered' /\ AnswerOnce' /\ SightsHeeded'
    BY <1>2, <2>1, QuietStep
  <2>3. EchoesTracked'
    BY <1>2, QuietEchoes DEF PipeInv
  <2>4. QED
    BY <1>0, <2>2, <2>3 DEF PipeInv
<1>3. CASE HumanPosts
  <2>1. PICK t \in HumanTexts, a \in Posters : Post(a, [base |-> t, variant |-> 0], FALSE)
    BY <1>3 DEF HumanPosts
  <2>2. a \in Bots \cup {Human} /\ [base |-> t, variant |-> 0] \in TextType
    BY VariantRange, PipelineAssumption DEF Human, TextType
  <2>3. [author |-> a, text |-> [base |-> t, variant |-> 0], auto |-> FALSE] \in Message
    BY <2>2, MessageRecord
  <2>4. \A n \in DOMAIN room : n \in DOMAIN room' /\ room'[n] = room[n]
    BY <1>0, <2>1, <2>3, PostKeeps DEF Post, PipeTypes
  <2>5. QED
    BY <1>2, <1>3, <2>4 DEF HumanPosts, guards, echoes, history
<1>4. ASSUME NEW s \in sends, ReplyPosted(s) PROVE PipeInv'
  <2>1. s \in SendType
    BY <1>0 DEF PipeTypes, Requests
  <2>2. s.bot \in Bots \cup {Human} /\ s.text \in TextType
    BY <2>1 DEF SendType
  <2>3. [author |-> s.bot, text |-> s.text, auto |-> TRUE] \in Message
    BY <2>2, MessageRecord
  <2>4. \A n \in DOMAIN room : n \in DOMAIN room' /\ room'[n] = room[n]
    BY <1>0, <1>4, <2>3, PostKeeps DEF ReplyPosted, Post, PipeTypes
  <2>5. QED
    BY <1>2, <1>4, <2>4 DEF ReplyPosted, guards, echoes, history
<1>5. ASSUME NEW s \in sends, ReplyFails(s) PROVE PipeInv'
  BY <1>2, <1>5 DEF ReplyFails, Cancelled, guards, history
<1>6. CASE ClaimExpires
  <2>1. Keyed(roomAnswers') \subseteq Keyed(roomAnswers)
    BY <1>0, <1>6, TailMap DEF ClaimExpires, PipeTypes, Maps
  <2>2. Keyed(claims') \subseteq Keyed(claims)
    BY <1>0, <1>6, TailMap DEF ClaimExpires, PipeTypes, Maps
  <2>3. Keyed(seenIncoming') \subseteq Keyed(seenIncoming)
    BY <1>0, <1>6, TailMap DEF ClaimExpires, PipeTypes, Maps
  <2>4. UNCHANGED <<begun, tracked, selfKnown, room>> /\ released' = Released(roomAnswers')
    BY <1>6 DEF ClaimExpires
  <2>5. AnswersClaimed' /\ ClaimsAnswered' /\ AnswerOnce' /\ SightsHeeded'
    BY <2>1, <2>2, <2>3, <2>4, QuietStep
  <2>6. EchoesTracked'
    BY <1>6, QuietEchoes DEF ClaimExpires, echoes, PipeInv
  <2>7. QED
    BY <1>0, <2>5, <2>6 DEF PipeInv
<1>7. ASSUME NEW b \in Bots, Stop(b) PROVE PipeInv'
  <2>1. /\ Keyed(roomAnswers') \subseteq Keyed(roomAnswers)
        /\ Keyed(claims') \subseteq Keyed(claims)
        /\ Keyed(seenIncoming') \subseteq Keyed(seenIncoming)
    BY <1>0, <1>7, WithoutMap DEF Stop, PipeTypes, Maps
  <2>2. UNCHANGED <<begun, tracked, selfKnown, room>> /\ released' = Released(roomAnswers')
    BY <1>7 DEF Stop
  <2>3. AnswersClaimed' /\ ClaimsAnswered' /\ AnswerOnce' /\ SightsHeeded'
    BY <2>1, <2>2, QuietStep
  <2>4. EchoesTracked'
    BY <1>7, QuietEchoes DEF Stop, PipeInv
  <2>5. QED
    BY <1>0, <2>3, <2>4 DEF PipeInv
<1>8. ASSUME NEW b \in Bots,
             ListenerLost(b) \/ Online(b) \/ SelfMidResolved(b) \/ SetPrimaryBot(b)
      PROVE  PipeInv'
  BY <1>2, <1>8 DEF ListenerLost, Online, SelfMidResolved, SetPrimaryBot, guards, echoes, history
<1>9. CASE EchoExpires
  BY <1>2, <1>9 DEF EchoExpires, guards, history
<1>10. CASE UNCHANGED vars
  BY <1>2, <1>10 DEF vars, guards, echoes, history
<1>11. QED
  BY <1>1, <1>3, <1>4, <1>5, <1>6, <1>7, <1>8, <1>9, <1>10 DEF Next

LEMMA PipeInit == Init => PipeInv
<1> SUFFICES ASSUME Init PROVE PipeInv
  OBVIOUS
<1>1. Keyed(seenIncoming) = {} /\ Keyed(claims) = {} /\ Keyed(roomAnswers) = {}
  <2>1. DOMAIN <<>> = {}
    OBVIOUS
  <2>2. QED
    BY <2>1 DEF Init, Keyed
<1>2. \A k \in Keys, m \in Ids : begun[k][m] = 0
  BY DEF Init
<1>3. AnswersClaimed /\ AnswerOnce
  BY <1>2 DEF AnswersClaimed, AnswerOnce
<1>4. ClaimsAnswered /\ SightsHeeded
  BY <1>1 DEF ClaimsAnswered, SightsHeeded
<1>5. EchoesTracked
  BY DEF Init, EchoesTracked
<1>6. QED
  BY <1>3, <1>4, <1>5, InitTypes DEF PipeInv

\* One answer per message and owner: whatever mix of pushes and polls, siblings,
\* hand-offs, stops and refusals, no owner begins a second reply to a message
\* whose claim on the room was not given up.
THEOREM OneAnswer == Spec => []AnswerOnce
<1>1. PipeInv => AnswerOnce
  BY DEF PipeInv
<1>2. QED
  BY <1>1, PipeInit, PipeStep, PTL DEF Spec

\* The claims never silence a bot that has an answer: what it has read and has a
\* rule for, its owner has begun to answer, or its bytes were tracked as a reply.
THEOREM NoTriggerIsLost == Spec => []TriggersAreAnswered
<1>1. PipeInv => TriggersAreAnswered
  <2> SUFFICES ASSUME PipeInv, NEW i \in DOMAIN seenIncoming
               PROVE  LET b == seenIncoming[i].key[1]
                          m == seenIncoming[i].key[2]
                      IN  Matched(b, m) # None /\ ~ Ignored(b, m) /\ ~ room[m].auto
                          /\ Signature(b, room[m].text) \notin tracked
                              => begun[Key(b)][m] > 0
    BY DEF TriggersAreAnswered
  <2>1. seenIncoming[i] \in ClaimType(Bots \X Ids)
    BY LenProperties, ElementOfSeq DEF PipeInv, PipeTypes, Maps
  <2>2. seenIncoming[i].key \in Bots \X Ids /\ seenIncoming[i].key \in Keyed(seenIncoming)
    BY <2>1 DEF ClaimType, Keyed
  <2>3. PICK b \in Bots, m \in Ids : seenIncoming[i].key = <<b, m>>
    BY <2>2
  <2>4. Heeded(b, m)
    BY <2>2, <2>3 DEF PipeInv, SightsHeeded
  <2>5. QED
    BY <2>3, <2>4 DEF Heeded
<1>2. QED
  BY <1>1, PipeInit, PipeStep, PTL DEF Spec
-----------------------------------------------------------------------------
(* Bots do not answer each other.  An echo is known by its bytes alone, so *)
(* the invariant follows each signature from the reply that tracks it to   *)
(* the message that carries it: as long as it went out once and nobody     *)
(* else uses its bytes, it is awaited or the message is known.             *)

\* No bot is stopped, no answer is lost and no echo outlives ECHO_TTL_MS: each
\* of them makes bots answer each other.
Undisturbed == Events \cap {"stop", "lost", "forgotten"} = {}

Sent(s) == Signature(s.bot, s.text)

Mark(m) == Signature(room[m].author, room[m].text)

Awaited(signature) == \E p \in pendingReplies : p.signature = signature

\* Somebody who is none of the owner's bots has used the bytes.
Spoiled(key, text) == \E n \in DOMAIN room : Foreign(n, key) /\ room[n].text = text

Recognised(m) == \E e \in seenMessageIds : e.scope = Key(room[m].author) /\ e.id = m

AnswersReal ==
    /\ Len(room) <= MaxMessages
    /\ \A k \in Keys, m \in Ids : begun[k][m] > 0 => m \in DOMAIN room

AllTracked ==
    /\ \A s \in sends : ~ s.posted /\ Sent(s) \in tracked
    /\ \A m \in DOMAIN room : room[m].auto => room[m].author \in Bots /\ Mark(m) \in tracked

\* A signature tracked once is that of one request or one message.
SentOnce ==
    /\ \A s, t \in sends : Sent(s) = Sent(t) => s = t \/ Sent(s) \in repeated
    /\ \A s \in sends, m \in DOMAIN room :
          room[m].auto /\ Mark(m) = Sent(s) => Sent(s) \in repeated
    /\ \A m, n \in DOMAIN room :
          room[m].auto /\ room[n].auto /\ Mark(m) = Mark(n) => m = n \/ Mark(m) \in repeated

\* A request that fails cancels its own echo.
OwnTokens == \A s \in sends, p \in pendingReplies : p.token = s.token => p.signature = Sent(s)

SendsAwaited ==
    \A s \in sends : Sent(s) \in repeated \/ Spoiled(Key(s.bot), s.text) \/ Awaited(Sent(s))

RepliesKnown ==
    \A m \in DOMAIN room : room[m].auto /\ ~ Ambiguous(m) => Awaited(Mark(m)) \/ Recognised(m)

EchoInv ==
    /\ PipeTypes /\ AnswersReal /\ AllTracked /\ SentOnce /\ OwnTokens
    /\ SendsAwaited /\ RepliesKnown /\ NoSelfAnswer

LEMMA EchoInit == Init => EchoInv
<1> SUFFICES ASSUME Init PROVE EchoInv
  OBVIOUS
<1>1. DOMAIN room = {} /\ sends = {} /\ pendingReplies = {}
  BY DEF Init
<1>2. AnswersReal
  <2>1. Len(<<>>) = 0
    BY EmptySeq
  <2>2. QED
    BY <2>1, PipelineAssumption DEF Init, AnswersReal
<1>3. PipeTypes
  BY InitTypes
<1>4. QED
  BY <1>1, <1>2, <1>3 DEF EchoInv, AllTracked, SentOnce, OwnTokens, SendsAwaited, RepliesKnown,
                          NoSelfAnswer

LEMMA RoomIds == PipeTypes /\ AnswersReal => \A m \in DOMAIN room : m \in Ids
<1> SUFFICES ASSUME PipeTypes, AnswersReal, NEW m \in DOMAIN room PROVE m \in Ids
  OBVIOUS
<1>1. DOMAIN room = 1..Len(room) /\ Len(room) \in Nat
  BY LenProperties DEF PipeTypes
<1>2. QED
  BY <1>1, PipelineAssumption DEF AnswersReal, Ids

\* The scope of a signature and its text are those it was made of.
LEMMA SignatureFacts ==
    \A b, c, t, u : Signature(b, t) = Signature(c, u) <=> Key(b) = Key(c) /\ t = u
BY DEF Signature, EchoScope

\* A reply from an account of the owner, in the room or still on its way, is no
\* stranger's: bytes it shares went out twice.
LEMMA SharedBytes ==
    ASSUME EchoInv, NEW n \in DOMAIN room, NEW key, ~ Foreign(n, key)
    PROVE  /\ room[n].auto /\ Mark(n) = [scope |-> key, text |-> room[n].text]
           /\ \A s \in sends : Key(s.bot) = key /\ room[n].text = s.text => Sent(s) \in repeated
           /\ \A m \in DOMAIN room :
                 /\ room[m].auto /\ Key(room[m].author) = key /\ room[n].text = room[m].text
                 => m = n \/ Ambiguous(m)
<1>1. room[n].auto /\ Key(room[n].author) = key
  BY DEF Foreign
<1>2. Mark(n) = [scope |-> key, text |-> room[n].text]
  BY <1>1 DEF Mark, Signature, EchoScope
<1>3. ASSUME NEW s \in sends, Key(s.bot) = key, room[n].text = s.text
      PROVE  Sent(s) \in repeated
  <2>1. Mark(n) = Sent(s)
    BY <1>1, <1>3, SignatureFacts DEF Mark, Sent
  <2>2. QED
    BY <1>1, <2>1 DEF EchoInv, SentOnce
<1>4. ASSUME NEW m \in DOMAIN room, room[m].auto, Key(room[m].author) = key,
             room[n].text = room[m].text, m # n
      PROVE  Ambiguous(m)
  <2>1. Mark(n) = Mark(m)
    BY <1>1, <1>4, SignatureFacts DEF Mark
  <2>2. Mark(m) \in repeated
    BY <1>1, <1>4, <2>1 DEF EchoInv, SentOnce
  <2>3. QED
    BY <2>2 DEF Ambiguous, Mark
<1>5. QED
  BY <1>1, <1>2, <1>3, <1>4

\* Steps that leave replies, requests and echoes alone.
LEMMA EchoesUntouched ==
    ASSUME EchoInv, PipeTypes',
           UNCHANGED <<room, pendingReplies, seenMessageIds, sends, begun, tracked, repeated>>
    PROVE  EchoInv'
BY DEF EchoInv, AnswersReal, AllTracked, SentOnce, OwnTokens, SendsAwaited, RepliesKnown,
       NoSelfAnswer, Sent, Mark, Awaited, Spoiled, Recognised, Ambiguous, Foreign, Signature,
       EchoScope

\* An echo takes what was awaited for itself, unless its bytes are a stranger's.
LEMMA EchoKeeps ==
    ASSUME EchoInv, PipeTypes', NEW b \in Bots, NEW m \in Ids, Echo(b, m)
    PROVE  EchoInv'
<1>1. /\ UNCHANGED <<room, sends, begun, tracked, repeated>>
      /\ m \in DOMAIN room
  BY DEF Echo, FirstSight, Told, history
<1>2. CASE UNCHANGED echoes
  BY <1>1, <1>2, EchoesUntouched DEF echoes
<1>3. ASSUME NEW p \in pendingReplies,
             p.signature = Signature(b, room[m].text),
             pendingReplies' = pendingReplies \ {p},
             seenMessageIds' =
                seenMessageIds \cup {[scope |-> EchoScope(b), id |-> m, bot |-> p.bot]}
      PROVE  EchoInv'
  <2>1. AnswersReal' /\ AllTracked' /\ SentOnce' /\ OwnTokens' /\ NoSelfAnswer'
    BY <1>1, <1>3 DEF EchoInv, AnswersReal, AllTracked, SentOnce, OwnTokens, NoSelfAnswer,
                      Sent, Mark, Ambiguous, Foreign, Signature, EchoScope
  <2>2. ASSUME NEW sig, Awaited(sig), sig # Signature(b, room[m].text)
        PROVE  Awaited(sig)'
    BY <1>3, <2>2 DEF Awaited
  <2>3. ASSUME NEW s \in sends
        PROVE  Sent(s) \in repeated \/ Spoiled(Key(s.bot), s.text) \/ Awaited(Sent(s))'
    <3>1. CASE Sent(s) # Signature(b, room[m].text)
      BY <2>2, <3>1 DEF EchoInv, SendsAwaited
    <3>2. CASE Sent(s) = Signature(b, room[m].text)
      <4>1. Key(s.bot) = Key(b) /\ s.text = room[m].text
        BY <3>2, SignatureFacts DEF Sent
      <4>2. CASE Foreign(m, Key(b))
        BY <1>1, <4>1, <4>2 DEF Spoiled
      <4>3. CASE ~ Foreign(m, Key(b))
        BY <1>1, <4>1, <4>3, SharedBytes
      <4>4. QED
        BY <4>2, <4>3
    <3>3. QED
      BY <3>1, <3>2
  <2>4. ASSUME NEW n \in DOMAIN room, room[n].auto, ~ Ambiguous(n)
        PROVE  Awaited(Mark(n))' \/ Recognised(n)'
    <3>1. Mark(n)' = Mark(n)
      BY <1>1 DEF Mark, Signature, EchoScope
    <3>2. CASE Recognised(n)
      BY <1>1, <1>3, <3>2 DEF Recognised
    <3>3. CASE Awaited(Mark(n)) /\ Mark(n) # Signature(b, room[m].text)
      BY <2>2, <3>1, <3>3 DEF Awaited
    <3>4. CASE Mark(n) = Signature(b, room[m].text)
      <4>1. Key(room[n].author) = Key(b) /\ room[n].text = room[m].text
        BY <3>4, SignatureFacts DEF Mark
      <4>2. m = n
        <5>1. CASE Foreign(m, Key(b))
          BY <1>1, <2>4, <4>1, <5>1 DEF Ambiguous
        <5>2. CASE ~ Foreign(m, Key(b))
          BY <1>1, <2>4, <4>1, <5>2, SharedBytes
        <5>3. QED
          BY <5>1, <5>2
      <4>3. [scope |-> EchoScope(b), id |-> m, bot |-> p.bot] \in seenMessageIds'
        BY <1>3
      <4>4. \E e \in seenMessageIds' : e.scope = Key(b) /\ e.id = m
        BY <4>3 DEF EchoScope
      <4>5. QED
        BY <1>1, <4>1, <4>2, <4>4 DEF Recognised
    <3>5. QED
      BY <2>4, <3>2, <3>3, <3>4 DEF EchoInv, RepliesKnown
  <2>5. SendsAwaited'
    BY <1>1, <2>3 DEF SendsAwaited, Sent, Spoiled, Foreign, Awaited, Signature, EchoScope
  <2>6. \A n \in DOMAIN room : Ambiguous(n)' <=> Ambiguous(n)
    BY <1>1 DEF Ambiguous, Foreign, Signature, EchoScope
  <2>7. RepliesKnown'
    BY <1>1, <2>4, <2>6 DEF RepliesKnown
  <2>8. QED
    BY <2>1, <2>5, <2>7 DEF EchoInv
<1>4. QED
  BY <1>2, <1>3 DEF Echo

\* A bot begins a reply to what neither looks like an echo nor is known as one.
LEMMA AnswerKeeps ==
    ASSUME EchoInv, PipeTypes', NEW b \in Bots, NEW m \in Ids, Answer(b, m)
    PROVE  EchoInv'
<1>1. /\ UNCHANGED <<room, seenMessageIds>>
      /\ m \in DOMAIN room
      /\ ~ KnownEcho(b, m) /\ ~ LooksLikeEcho(b, m)
  BY DEF Answer, Strange, FirstSight, Told
<1>2. Key(b) \in Keys
  BY KeyIsKey
<1>3. \A k \in Keys, n \in Ids : ~ (k = Key(b) /\ n = m) => begun'[k][n] = begun[k][n]
  BY <1>2 DEF Answer, EchoInv, PipeTypes
<1> DEFINE s == Sender(b)
           text == [base |-> Matched(b, m), variant |-> NextVariant(s, Matched(b, m))]
           sig == Signature(s, text)
           pending == [signature |-> sig, bot |-> s, token |-> FreeToken]
           request == [token |-> FreeToken, bot |-> s, text |-> text, posted |-> FALSE]
           rest == {p \in pendingReplies : p.signature # sig}
<1>4. /\ tracked' = tracked \cup {sig}
      /\ repeated' = repeated \cup ({sig} \cap tracked)
      /\ \/ pendingReplies' = rest \cup {pending} /\ sends' = sends \cup {request}
         \/ pendingReplies' = rest /\ UNCHANGED sends
  BY Zenon DEF Answer
<1>5. /\ pending.signature = sig /\ pending.token = FreeToken
      /\ request.token = FreeToken /\ ~ request.posted
      /\ request.bot = s /\ request.text = text
      /\ Sent(request) = sig
  BY DEF Sent
<1> HIDE DEF s, text, pending, request
<1>6. sig = Signature(s, text)
  OBVIOUS
<1> HIDE DEF sig
<1>7. /\ \A r \in sends : r.token # FreeToken
      /\ \A p \in pendingReplies : p.token # FreeToken
  BY FreeTokenIsFree DEF EchoInv, PipeTypes
<1>8. AnswersReal'
  BY <1>1, <1>3 DEF EchoInv, AnswersReal
<1>9. AllTracked'
  BY <1>1, <1>4, <1>5 DEF EchoInv, AllTracked, Mark, Sent, Signature, EchoScope
<1>10. \A r \in sends' : r = request \/ r \in sends
  BY <1>4
<1>11. \A r : Sent(r)' = Sent(r)
  BY DEF Sent, Signature, EchoScope
<1>12. \A n \in DOMAIN room : Mark(n)' = Mark(n)
  BY <1>1 DEF Mark, Signature, EchoScope
<1>13. \A r \in sends : Sent(r) = sig => sig \in repeated'
  BY <1>4 DEF EchoInv, AllTracked
<1>14. \A n \in DOMAIN room : room[n].auto /\ Mark(n) = sig => sig \in repeated'
  BY <1>4 DEF EchoInv, AllTracked
<1>15. repeated \subseteq repeated'
  BY <1>4
<1>16. SentOnce'
  <2>1. ASSUME NEW r \in sends', NEW t \in sends', Sent(r) = Sent(t)
        PROVE  r = t \/ Sent(r) \in repeated'
    <3>1. CASE r \in sends /\ t \in sends
      BY <2>1, <3>1, <1>15 DEF EchoInv, SentOnce
    <3>2. CASE r = request \/ t = request
      BY <2>1, <3>2, <1>5, <1>10, <1>13
    <3>3. QED
      BY <3>1, <3>2, <1>10
  <2>2. ASSUME NEW r \in sends', NEW n \in DOMAIN room, room[n].auto, Mark(n) = Sent(r)
        PROVE  Sent(r) \in repeated'
    <3>1. CASE r \in sends
      BY <2>2, <3>1, <1>15 DEF EchoInv, SentOnce
    <3>2. CASE r = request
      BY <2>2, <3>2, <1>5, <1>14
    <3>3. QED
      BY <3>1, <3>2, <1>10
  <2>3. ASSUME NEW n \in DOMAIN room, NEW o \in DOMAIN room,
               room[n].auto, room[o].auto, Mark(n) = Mark(o)
        PROVE  n = o \/ Mark(n) \in repeated'
    BY <2>3, <1>15 DEF EchoInv, SentOnce
  <2>4. QED
    BY <1>1, <1>11, <1>12, <2>1, <2>2, <2>3 DEF SentOnce
<1>17. \A p \in pendingReplies' : p \in pendingReplies \/ (p = pending /\ sends' = sends \cup {request})
  BY <1>4
<1>18. OwnTokens'
  <2> SUFFICES ASSUME NEW r \in sends', NEW p \in pendingReplies', p.token = r.token
               PROVE  p.signature = Sent(r)
    BY <1>11 DEF OwnTokens
  <2>1. CASE p \in pendingReplies /\ r \in sends
    BY <2>1 DEF EchoInv, OwnTokens
  <2>2. CASE p = pending /\ r = request
    BY <2>2, <1>5
  <2>3. CASE p = pending /\ r \in sends
    BY <2>3, <1>5, <1>7
  <2>4. CASE p \in pendingReplies /\ r = request
    BY <2>4, <1>5, <1>7
  <2>5. QED
    BY <1>10, <1>17, <2>1, <2>2, <2>3, <2>4
<1>19. \A g : Awaited(g) /\ g # sig => Awaited(g)'
  BY <1>4 DEF Awaited
<1>20. SendsAwaited'
  <2> SUFFICES ASSUME NEW r \in sends'
               PROVE  Sent(r) \in repeated' \/ Spoiled(Key(r.bot), r.text) \/ Awaited(Sent(r))'
    BY <1>1, <1>11 DEF SendsAwaited, Spoiled, Foreign, Awaited
  <2>1. CASE r \in sends /\ Sent(r) = sig
    BY <2>1, <1>13
  <2>2. CASE r \in sends /\ Sent(r) # sig
    BY <2>2, <1>15, <1>19 DEF EchoInv, SendsAwaited
  <2>3. CASE r \notin sends
    <3>1. r = request /\ pending \in pendingReplies'
      BY <2>3, <1>4
    <3>2. QED
      BY <3>1, <1>5 DEF Awaited
  <2>4. QED
    BY <2>1, <2>2, <2>3
<1>21. \A n \in DOMAIN room : Ambiguous(n) => Ambiguous(n)'
  BY <1>1, <1>15 DEF Ambiguous, Foreign, Signature, EchoScope
<1>22. \A n \in DOMAIN room : Mark(n) \in repeated' => Ambiguous(n)'
  BY <1>1 DEF Ambiguous, Mark, Signature, EchoScope
<1>23. RepliesKnown'
  <2> SUFFICES ASSUME NEW n \in DOMAIN room, room[n].auto, ~ Ambiguous(n)'
               PROVE  Awaited(Mark(n))' \/ Recognised(n)'
    BY <1>1 DEF RepliesKnown
  <2>1. Mark(n) # sig
    BY <1>14, <1>22
  <2>2. Awaited(Mark(n)) \/ Recognised(n)
    BY <1>21 DEF EchoInv, RepliesKnown
  <2>3. CASE Awaited(Mark(n))
    BY <2>1, <2>3, <1>12, <1>19 DEF Awaited
  <2>4. CASE Recognised(n)
    BY <2>4, <1>1 DEF Recognised
  <2>5. QED
    BY <2>2, <2>3, <2>4
<1>24. NoSelfAnswer'
  <2> SUFFICES ASSUME NEW n \in DOMAIN room, room[n].auto, ~ Ambiguous(n)'
               PROVE  begun'[Key(room[n].author)][n] = 0
    BY <1>1 DEF NoSelfAnswer
  <2>1. ~ Ambiguous(n)
    BY <1>21
  <2>2. begun[Key(room[n].author)][n] = 0
    BY <2>1 DEF EchoInv, NoSelfAnswer
  <2>3. Awaited(Mark(n)) \/ Recognised(n)
    BY <2>1 DEF EchoInv, RepliesKnown
  <2>4. ~ (Key(room[n].author) = Key(b) /\ n = m)
    <3> SUFFICES ASSUME Key(room[n].author) = Key(b), n = m PROVE FALSE
      OBVIOUS
    <3>1. Mark(n) = Signature(b, room[m].text)
      BY SignatureFacts DEF Mark
    <3>2. ~ Awaited(Mark(n))
      BY <1>1, <3>1 DEF Awaited, LooksLikeEcho
    <3>3. ~ Recognised(n)
      BY <1>1 DEF Recognised, KnownEcho, EchoScope
    <3>4. QED
      BY <2>3, <3>2, <3>3
  <2>5. Key(room[n].author) \in Keys /\ n \in Ids
    <3>1. room[n].author \in Bots
      BY DEF EchoInv, AllTracked
    <3>2. n \in Ids
      BY RoomIds DEF EchoInv
    <3>3. QED
      BY <3>1, <3>2, KeyIsKey
  <2>6. QED
    BY <1>3, <2>2, <2>4, <2>5
<1>25. QED
  BY <1>8, <1>9, <1>16, <1>18, <1>20, <1>23, <1>24 DEF EchoInv
\* A message more in the room, with what was there unchanged.
LEMMA RoomGrows ==
    ASSUME PipeTypes, AnswersReal, NEW x \in Message,
           Len(room) < MaxMessages, room' = Append(room, x)
    PROVE  \E n \in Ids :
              /\ n \notin DOMAIN room
              /\ DOMAIN room' = DOMAIN room \cup {n}
              /\ room'[n] = x
              /\ \A m \in DOMAIN room : room'[m] = room[m]
              /\ Len(room') <= MaxMessages
<1>1. DOMAIN room = 1..Len(room) /\ Len(room) \in Nat
  BY LenProperties DEF PipeTypes
<1>2. /\ room' \in Seq(Message) /\ Len(room') = Len(room) + 1
      /\ room'[Len(room) + 1] = x
      /\ \A n \in 1..Len(room) : room'[n] = room[n]
  BY AppendProperties DEF PipeTypes
<1>3. DOMAIN room' = 1..(Len(room) + 1)
  BY <1>2, LenProperties
<1>4. /\ Len(room) + 1 \in Ids
      /\ Len(room) + 1 \notin DOMAIN room
      /\ DOMAIN room' = DOMAIN room \cup {Len(room) + 1}
      /\ Len(room') <= MaxMessages
  BY <1>1, <1>2, <1>3, PipelineAssumption DEF Ids
<1>5. QED
  BY <1>1, <1>2, <1>4

\* What a message more leaves as it was, and what it adds to.
LEMMA PostFacts ==
    ASSUME UNCHANGED <<begun, repeated>>, NEW n, n \notin DOMAIN room,
           DOMAIN room' = DOMAIN room \cup {n},
           \A m \in DOMAIN room : room'[m] = room[m]
    PROVE  /\ \A m \in DOMAIN room : Mark(m)' = Mark(m)
           /\ \A key, text : Spoiled(key, text) => Spoiled(key, text)'
           /\ \A m \in DOMAIN room : Ambiguous(m) => Ambiguous(m)'
           /\ \A m \in DOMAIN room : Foreign(m, Key(room[m].author))' <=> Foreign(m, Key(room[m].author))
<1>1. \A m \in DOMAIN room : \A key : Foreign(m, key)' <=> Foreign(m, key)
  BY DEF Foreign
<1>2. \A m \in DOMAIN room : Mark(m)' = Mark(m)
  BY DEF Mark, Signature, EchoScope
<1>3. \A key, text : Spoiled(key, text) => Spoiled(key, text)'
  BY <1>1 DEF Spoiled
<1>4. \A m \in DOMAIN room : Ambiguous(m) => Ambiguous(m)'
  BY <1>1, <1>2 DEF Ambiguous, Mark
<1>5. QED
  BY <1>1, <1>2, <1>3, <1>4

\* Nobody has answered what has only just been posted.
LEMMA PostUnanswered ==
    ASSUME EchoInv, begun' = begun, NEW n \in Ids, n \notin DOMAIN room,
           DOMAIN room' = DOMAIN room \cup {n},
           \A m \in DOMAIN room : room'[m] = room[m],
           room'[n].auto => room'[n].author \in Bots,
           \A m \in DOMAIN room : Ambiguous(m) => Ambiguous(m)'
    PROVE  NoSelfAnswer'
<1> SUFFICES ASSUME NEW m \in DOMAIN room', room'[m].auto, ~ Ambiguous(m)'
             PROVE  begun[Key(room'[m].author)][m] = 0
  BY DEF NoSelfAnswer
<1>1. CASE m \in DOMAIN room
  BY <1>1 DEF EchoInv, NoSelfAnswer
<1>2. CASE m = n
  <2>1. Key(room'[n].author) \in Keys
    BY <1>2, KeyIsKey
  <2>2. begun[Key(room'[n].author)][n] \in Nat
    BY <2>1 DEF EchoInv, PipeTypes
  <2>3. ~ (begun[Key(room'[n].author)][n] > 0)
    BY <2>1 DEF EchoInv, AnswersReal
  <2>4. QED
    BY <1>2, <2>2, <2>3
<1>3. QED
  BY <1>1, <1>2

LEMMA HumanKeeps ==
    ASSUME EchoInv, PipeTypes', HumanPosts
    PROVE  EchoInv'
<1>1. PICK t \in HumanTexts, a \in Posters : Post(a, [base |-> t, variant |-> 0], FALSE)
  BY DEF HumanPosts
<1>2. /\ UNCHANGED <<sends, pendingReplies, seenMessageIds, begun, tracked, repeated>>
  BY DEF HumanPosts, echoes, history
<1>3. a \in Bots \cup {Human} /\ [base |-> t, variant |-> 0] \in TextType
  BY VariantRange, PipelineAssumption DEF Human, TextType
<1>4. PICK x \in Message : x = [author |-> a, text |-> [base |-> t, variant |-> 0], auto |-> FALSE]
                           /\ ~ x.auto
  BY <1>3, MessageRecord
<1>5. PICK n \in Ids : /\ n \notin DOMAIN room
                       /\ DOMAIN room' = DOMAIN room \cup {n}
                       /\ room'[n] = x
                       /\ \A m \in DOMAIN room : room'[m] = room[m]
                       /\ Len(room') <= MaxMessages
  BY <1>1, <1>4, RoomGrows DEF Post, EchoInv
<1>6. /\ \A m \in DOMAIN room : Mark(m)' = Mark(m)
      /\ \A key, text : Spoiled(key, text) => Spoiled(key, text)'
      /\ \A m \in DOMAIN room : Ambiguous(m) => Ambiguous(m)'
  BY <1>2, <1>5, PostFacts
<1>7. \A m \in DOMAIN room' : room'[m].auto => m \in DOMAIN room
  BY <1>4, <1>5
<1>8. \A s : Sent(s)' = Sent(s)
  BY DEF Sent, Signature, EchoScope
<1>9. AnswersReal' /\ OwnTokens'
  BY <1>2, <1>5, <1>8 DEF EchoInv, AnswersReal, OwnTokens
<1>10. AllTracked' /\ SentOnce'
  BY <1>2, <1>5, <1>6, <1>7, <1>8 DEF EchoInv, AllTracked, SentOnce
<1>11. SendsAwaited'
  BY <1>2, <1>6, <1>8 DEF EchoInv, SendsAwaited, Awaited
<1>12. RepliesKnown'
  BY <1>2, <1>5, <1>6, <1>7 DEF EchoInv, RepliesKnown, Awaited, Recognised
<1>13. NoSelfAnswer'
  BY <1>2, <1>4, <1>5, <1>6, PostUnanswered
<1>14. QED
  BY <1>9, <1>10, <1>11, <1>12, <1>13 DEF EchoInv

\* The request becomes the message; its echo is still awaited.
LEMMA PostedKeeps ==
    ASSUME EchoInv, PipeTypes', Undisturbed, NEW s \in sends, ReplyPosted(s)
    PROVE  EchoInv'
<1>1. /\ Post(s.bot, s.text, TRUE)
      /\ sends' = sends \ {s}
      /\ UNCHANGED <<pendingReplies, seenMessageIds, begun, tracked, repeated>>
  BY DEF ReplyPosted, Undisturbed, echoes, history
<1>2. s.bot \in Bots /\ s.text \in TextType
  BY DEF EchoInv, PipeTypes, Requests, SendType
<1>3. PICK x \in Message : /\ x = [author |-> s.bot, text |-> s.text, auto |-> TRUE]
                           /\ x.auto /\ x.author = s.bot /\ x.text = s.text
  <2>1. [author |-> s.bot, text |-> s.text, auto |-> TRUE] \in Message
    BY <1>2, MessageRecord
  <2>2. QED
    BY <2>1
<1>4. PICK n \in Ids : /\ n \notin DOMAIN room
                       /\ DOMAIN room' = DOMAIN room \cup {n}
                       /\ room'[n] = x
                       /\ \A m \in DOMAIN room : room'[m] = room[m]
                       /\ Len(room') <= MaxMessages
  BY <1>1, <1>3, RoomGrows DEF Post, EchoInv
<1>5. /\ \A m \in DOMAIN room : Mark(m)' = Mark(m)
      /\ \A key, text : Spoiled(key, text) => Spoiled(key, text)'
      /\ \A m \in DOMAIN room : Ambiguous(m) => Ambiguous(m)'
  BY <1>1, <1>4, PostFacts
<1>6. \A r : Sent(r)' = Sent(r)
  BY DEF Sent, Signature, EchoScope
<1>7. Mark(n)' = Sent(s)
  BY <1>3, <1>4 DEF Mark, Sent, Signature, EchoScope
<1>8. AnswersReal' /\ OwnTokens'
  BY <1>1, <1>4, <1>6 DEF EchoInv, AnswersReal, OwnTokens
<1>9. AllTracked'
  BY <1>1, <1>2, <1>3, <1>4, <1>5, <1>6, <1>7 DEF EchoInv, AllTracked
<1>10. SentOnce'
  <2>1. ASSUME NEW r \in sends', NEW m \in DOMAIN room', room'[m].auto, Mark(m)' = Sent(r)
        PROVE  Sent(r) \in repeated
    <3>1. CASE m \in DOMAIN room
      BY <2>1, <3>1, <1>1, <1>4, <1>5 DEF EchoInv, SentOnce
    <3>2. CASE m = n
      <4>1. r # s /\ r \in sends /\ Sent(r) = Sent(s)
        BY <2>1, <3>2, <1>1, <1>7
      <4>2. QED
        BY <4>1 DEF EchoInv, SentOnce
    <3>3. QED
      BY <3>1, <3>2, <1>4
  <2>2. ASSUME NEW l \in DOMAIN room', NEW m \in DOMAIN room', room'[l].auto, room'[m].auto,
               Mark(l)' = Mark(m)', l # m
        PROVE  Mark(l)' \in repeated
    <3>1. CASE l \in DOMAIN room /\ m \in DOMAIN room
      BY <2>2, <3>1, <1>4, <1>5 DEF EchoInv, SentOnce
    <3>2. CASE l = n
      BY <2>2, <3>2, <1>4, <1>5, <1>7 DEF EchoInv, SentOnce
    <3>3. CASE m = n
      BY <2>2, <3>3, <1>4, <1>5, <1>7 DEF EchoInv, SentOnce
    <3>4. QED
      BY <3>1, <3>2, <3>3, <1>4
  <2>3. QED
    BY <1>1, <1>6, <2>1, <2>2 DEF EchoInv, SentOnce
<1>11. SendsAwaited'
  BY <1>1, <1>5, <1>6 DEF EchoInv, SendsAwaited, Awaited
<1>12. RepliesKnown'
  <2> SUFFICES ASSUME NEW m \in DOMAIN room', room'[m].auto, ~ Ambiguous(m)'
               PROVE  Awaited(Mark(m))' \/ Recognised(m)'
    BY DEF RepliesKnown
  <2>1. CASE m \in DOMAIN room
    BY <2>1, <1>1, <1>4, <1>5 DEF EchoInv, RepliesKnown, Awaited, Recognised
  <2>2. CASE m = n
    <3>1. Sent(s) \notin repeated
      BY <2>2, <1>1, <1>7 DEF Ambiguous, Mark
    <3>2. ~ Spoiled(Key(s.bot), s.text)
      BY <2>2, <1>3, <1>4 DEF Ambiguous, Spoiled, Foreign
    <3>3. Awaited(Sent(s))
      BY <3>1, <3>2 DEF EchoInv, SendsAwaited
    <3>4. QED
      BY <2>2, <3>3, <1>1, <1>7 DEF Awaited
  <2>3. QED
    BY <2>1, <2>2, <1>4
<1>13. NoSelfAnswer'
  BY <1>1, <1>2, <1>3, <1>4, <1>5, PostUnanswered
<1>14. QED
  BY <1>8, <1>9, <1>10, <1>11, <1>12, <1>13 DEF EchoInv

\* A request that failed: its echo goes with it, and nobody else's.
LEMMA FailedKeeps ==
    ASSUME EchoInv, PipeTypes', NEW s \in sends, ReplyFails(s)
    PROVE  EchoInv'
<1>1. /\ sends' = sends \ {s}
      /\ pendingReplies' = {p \in pendingReplies : p.token # s.token}
      /\ UNCHANGED <<room, seenMessageIds, begun, tracked, repeated>>
  BY DEF ReplyFails, Cancelled, history
<1>2. \A g : Awaited(g) /\ g # Sent(s) => Awaited(g)'
  BY <1>1 DEF EchoInv, OwnTokens, Awaited
<1>3. \A r : Sent(r)' = Sent(r)
  BY DEF Sent, Signature, EchoScope
<1>4. /\ \A m \in DOMAIN room : Mark(m)' = Mark(m)
      /\ \A m \in DOMAIN room : Ambiguous(m)' <=> Ambiguous(m)
      /\ \A key, text : Spoiled(key, text)' <=> Spoiled(key, text)
  BY <1>1 DEF Mark, Ambiguous, Spoiled, Foreign, Signature, EchoScope
<1>5. AnswersReal' /\ AllTracked' /\ SentOnce' /\ OwnTokens' /\ NoSelfAnswer'
  BY <1>1, <1>3, <1>4 DEF EchoInv, AnswersReal, AllTracked, SentOnce, OwnTokens, NoSelfAnswer
<1>6. \A r \in sends' : Sent(r) = Sent(s) => Sent(r) \in repeated
  BY <1>1 DEF EchoInv, SentOnce
<1>7. SendsAwaited'
  BY <1>1, <1>2, <1>3, <1>4, <1>6 DEF EchoInv, SendsAwaited, Awaited
<1>8. \A m \in DOMAIN room : room[m].auto /\ Mark(m) = Sent(s) => Ambiguous(m)
  BY DEF EchoInv, SentOnce, Ambiguous, Mark
<1>9. RepliesKnown'
  BY <1>1, <1>2, <1>4, <1>8 DEF EchoInv, RepliesKnown, Awaited, Recognised
<1>10. QED
  BY <1>5, <1>7, <1>9 DEF EchoInv

LEMMA EchoStep == EchoInv /\ Undisturbed /\ [Next]_vars => EchoInv'
<1> SUFFICES ASSUME EchoInv, Undisturbed, [Next]_vars PROVE EchoInv'
  OBVIOUS
<1>0. PipeTypes'
  BY StepTypes DEF EchoInv
<1>1. ASSUME NEW b \in Bots, NEW m \in Ids, Deliver(b, m) PROVE EchoInv'
  <2>1. CASE Echo(b, m)
    BY <2>1, <1>0, EchoKeeps
  <2>2. CASE Answer(b, m)
    BY <2>2, <1>0, AnswerKeeps
  <2>3. CASE Duplicate(b, m) \/ OwnMessage(b, m) \/ Unanswered(b, m) \/ Outrun(b, m)
    BY <2>3, <1>0, EchoesUntouched DEF Duplicate, OwnMessage, Unanswered, Outrun, Strange,
                                       FirstSight, Told, echoes, history
  <2>4. QED
    BY <1>1, <2>1, <2>2, <2>3 DEF Deliver
<1>2. ASSUME NEW s \in sends, ReplyPosted(s) PROVE EchoInv'
  BY <1>0, <1>2, PostedKeeps
<1>3. ASSUME NEW s \in sends, ReplyFails(s) PROVE EchoInv'
  BY <1>0, <1>3, FailedKeeps
<1>4. CASE HumanPosts
  BY <1>0, <1>4, HumanKeeps
<1>5. CASE ClaimExpires
  BY <1>0, <1>5, EchoesUntouched DEF ClaimExpires, echoes
<1>6. CASE EchoExpires
  BY <1>6 DEF EchoExpires, Upset, Undisturbed
<1>7. ASSUME NEW b \in Bots, Stop(b) PROVE EchoInv'
  BY <1>7 DEF Stop, Upset, Undisturbed
<1>8. ASSUME NEW b \in Bots,
             ListenerLost(b) \/ Online(b) \/ SelfMidResolved(b) \/ SetPrimaryBot(b)
      PROVE  EchoInv'
  BY <1>0, <1>8, EchoesUntouched DEF ListenerLost, Online, SelfMidResolved, SetPrimaryBot,
                                     echoes, history
<1>9. CASE UNCHANGED vars
  BY <1>0, <1>9, EchoesUntouched DEF vars, echoes, history
<1>10. QED
  BY <1>1, <1>2, <1>3, <1>4, <1>5, <1>6, <1>7, <1>8, <1>9 DEF Next

\* Bots of one owner never answer each other's replies, however deliveries, owner
\* testing, hand-offs, refusals, failures, reconnects and expired claims
\* interleave, unless the bytes went out twice or are also somebody else's.
THEOREM NobodyAnswersTheirOwn == ASSUME Undisturbed PROVE Spec => []NoSelfAnswer
<1>1. EchoInv => NoSelfAnswer
  BY DEF EchoInv
<1>2. EchoInv /\ [Next]_vars => EchoInv'
  BY EchoStep
<1>3. QED
  BY <1>1, <1>2, EchoInit, PTL DEF Spec
===============================================================================
