--------------------------- MODULE WriteBehind_proofs ---------------------------
(***************************************************************************)
(* The write-behind storage for every number of bots, keys, values and     *)
(* operations.  All of it rests on one lemma about what a sequence of      *)
(* operations makes of a row (AfterConcat): first one part of it, then the *)
(* rest, is the same as the whole.                                         *)
(***************************************************************************)
EXTENDS WriteBehind, SequenceTheorems, WellFoundedInduction, TLAPS

-----------------------------------------------------------------------------
\* A non-empty set of positions has a last one.
LEMMA LastPosition ==
    ASSUME NEW n \in Nat, NEW I \in SUBSET (1..n), I # {}
    PROVE  \E i \in I : \A j \in I : j <= i
<1> DEFINE below == {p \in Nat \X Nat : p[1] < p[2]}
           T == {n - i : i \in I}
<1>1. IsWellFoundedOn(below, Nat)
  <2>1. below = OpToRel(<, Nat)
    BY DEF OpToRel
  <2>2. QED
    BY <2>1, NatLessThanWellFounded
<1>2. T \subseteq Nat /\ T # {}
  <2>1. \A i \in I : i \in 1..n /\ n - i \in Nat
    OBVIOUS
  <2>2. T \subseteq Nat
    BY <2>1
  <2>3. T # {}
    BY ZenonT(20)
  <2>4. QED
    BY <2>2, <2>3
<1>3. PICK x \in T : \A y \in T : <<y, x>> \notin below
  <2> HIDE DEF below, T
  <2>1. QED
    BY <1>1, <1>2, WFMin
<1>4. PICK i \in I : x = n - i
  OBVIOUS
<1>5. ASSUME NEW j \in I PROVE j <= i
  <2>1. n - j \in T /\ n - j \in Nat /\ x \in Nat
    OBVIOUS
  <2>2. ~ (n - j < x)
    BY <1>3, <2>1
  <2>3. QED
    BY <1>4, <2>2
<1>6. QED
  BY <1>5

\* The two cases of After.
LEMMA AfterUntouched ==
    ASSUME NEW ops, NEW b, NEW k, NEW old, Touching(ops, b, k) = {}
    PROVE  After(ops, b, k, old) = old
BY DEF After

LEMMA AfterTouched ==
    ASSUME NEW ops \in Seq(Operations), NEW b, NEW k, NEW old,
           NEW i \in Touching(ops, b, k), \A j \in Touching(ops, b, k) : j <= i
    PROVE  After(ops, b, k, old) = ops[i].value
<1> DEFINE I == Touching(ops, b, k)
<1>1. \A j \in I : j \in Nat
  BY DEF Touching
<1>2. \A h \in I : (\A j \in I : j <= h) => h = i
  BY <1>1
<1>3. (CHOOSE h \in I : \A j \in I : j <= h) = i
  BY <1>2
<1>4. QED
  BY <1>3 DEF After

LEMMA LastTouch ==
    ASSUME NEW ops \in Seq(Operations), NEW b, NEW k, Touching(ops, b, k) # {}
    PROVE  \E i \in Touching(ops, b, k) : \A j \in Touching(ops, b, k) : j <= i
<1>1. Len(ops) \in Nat /\ Touching(ops, b, k) \in SUBSET (1..Len(ops))
  BY LenProperties DEF Touching
<1>2. QED
  BY <1>1, LastPosition

\* What a row is made of is again a row's value.
LEMMA AfterType ==
    ASSUME NEW ops \in Seq(Operations), NEW b, NEW k, NEW old \in Values \cup {Absent}
    PROVE  After(ops, b, k, old) \in Values \cup {Absent}
<1>1. CASE Touching(ops, b, k) = {}
  BY <1>1, AfterUntouched
<1>2. CASE Touching(ops, b, k) # {}
  <2>1. PICK i \in Touching(ops, b, k) : \A j \in Touching(ops, b, k) : j <= i
    BY <1>2, LastTouch
  <2>2. ops[i] \in Operations
    BY ElementOfSeq, LenProperties DEF Touching
  <2>3. After(ops, b, k, old) = ops[i].value
    BY <2>1, AfterTouched
  <2>4. ops[i].value \in Values \cup {Absent}
    BY <2>2 DEF Operations
  <2>5. QED
    BY <2>3, <2>4
<1>3. QED
  BY <1>1, <1>2

\* Operations done one part after the other.
LEMMA AfterConcat ==
    ASSUME NEW s \in Seq(Operations), NEW t \in Seq(Operations), NEW b, NEW k, NEW old
    PROVE  After(s \o t, b, k, old) = After(t, b, k, After(s, b, k, old))
<1> DEFINE st == s \o t
<1>1. /\ st \in Seq(Operations) /\ Len(st) = Len(s) + Len(t)
      /\ \A i \in 1..Len(s) + Len(t) : st[i] = IF i <= Len(s) THEN s[i] ELSE t[i - Len(s)]
      /\ Len(s) \in Nat /\ Len(t) \in Nat
      /\ DOMAIN s = 1..Len(s) /\ DOMAIN t = 1..Len(t) /\ DOMAIN st = 1..Len(st)
  BY ConcatProperties, LenProperties
<1> HIDE DEF st
<1>2. \A i \in 1..Len(s) : i \in Touching(st, b, k) <=> i \in Touching(s, b, k)
  BY <1>1 DEF Touching
<1>3. \A i \in 1..Len(t) :
         Len(s) + i \in 1..Len(st) /\ st[Len(s) + i] = t[i]
  BY <1>1
<1>4. \A i \in 1..Len(t) : Len(s) + i \in Touching(st, b, k) <=> i \in Touching(t, b, k)
  BY <1>1, <1>3 DEF Touching
<1>5. \A j \in Touching(st, b, k) : j \in 1..Len(s) \/ (j - Len(s) \in 1..Len(t) /\ j = Len(s) + (j - Len(s)))
  BY <1>1 DEF Touching
<1>6. CASE Touching(t, b, k) # {}
  <2>1. PICK i \in Touching(t, b, k) : \A j \in Touching(t, b, k) : j <= i
    BY <1>6, LastTouch
  <2>2. i \in 1..Len(t) /\ Touching(t, b, k) \subseteq 1..Len(t)
    BY <1>1 DEF Touching
  <2>3. Len(s) + i \in Touching(st, b, k)
    BY <1>4, <2>2
  <2>4. ASSUME NEW j \in Touching(st, b, k) PROVE j <= Len(s) + i
    <3>1. CASE j \in 1..Len(s)
      BY <3>1, <1>1, <2>2
    <3>2. CASE j - Len(s) \in 1..Len(t) /\ j = Len(s) + (j - Len(s))
      <4>1. j - Len(s) \in Touching(t, b, k)
        BY <3>2, <1>4
      <4>2. j - Len(s) <= i
        BY <4>1, <2>1
      <4>3. QED
        BY <4>2, <3>2, <2>2, <1>1
    <3>3. QED
      BY <3>1, <3>2, <1>5
  <2>5. After(st, b, k, old) = st[Len(s) + i].value
    BY <1>1, <2>3, <2>4, AfterTouched
  <2>6. After(t, b, k, After(s, b, k, old)) = t[i].value
    BY <2>1, AfterTouched
  <2>7. QED
    BY <1>3, <2>2, <2>5, <2>6 DEF st
<1>7. CASE Touching(t, b, k) = {}
  <2>1. After(t, b, k, After(s, b, k, old)) = After(s, b, k, old)
    BY <1>7, AfterUntouched
  <2>2. Touching(st, b, k) = Touching(s, b, k)
    <3>1. Touching(s, b, k) \subseteq 1..Len(s)
      BY <1>1 DEF Touching
    <3>2. Touching(st, b, k) \subseteq 1..Len(s)
      BY <1>4, <1>5, <1>7
    <3>3. QED
      BY <1>2, <3>1, <3>2
  <2>3. CASE Touching(s, b, k) = {}
    BY <2>1, <2>2, <2>3, AfterUntouched DEF st
  <2>4. CASE Touching(s, b, k) # {}
    <3>1. PICK i \in Touching(s, b, k) : \A j \in Touching(s, b, k) : j <= i
      BY <2>4, LastTouch
    <3>2. i \in 1..Len(s) /\ st[i] = s[i]
      BY <1>1 DEF Touching
    <3>3. After(s, b, k, old) = s[i].value
      BY <3>1, AfterTouched
    <3>4. After(st, b, k, old) = st[i].value
      <4>1. i \in Touching(st, b, k) /\ \A j \in Touching(st, b, k) : j <= i
        BY <2>2, <3>1
      <4>2. st \in Seq(Operations)
        BY <1>1
      <4>3. QED
        BY <4>1, <4>2, AfterTouched
    <3>5. QED
      BY <2>1, <3>2, <3>3, <3>4 DEF st
  <2>5. QED
    BY <2>3, <2>4
<1>8. QED
  BY <1>6, <1>7

\* One more operation.
LEMMA AfterAppend ==
    ASSUME NEW s \in Seq(Operations), NEW op \in Operations, NEW b, NEW k, NEW old
    PROVE  After(Append(s, op), b, k, old) =
              IF op.bot = b /\ k \in op.keys THEN op.value ELSE After(s, b, k, old)
<1> DEFINE t == <<op>>
<1>1. t \in Seq(Operations) /\ Append(s, op) = s \o t
  BY AppendIsConcat
<1>2. DOMAIN t = {1} /\ t[1] = op
  OBVIOUS
<1> HIDE DEF t
<1>3. After(Append(s, op), b, k, old) = After(t, b, k, After(s, b, k, old))
  <2>1. After(s \o t, b, k, old) = After(t, b, k, After(s, b, k, old))
    BY <1>1, AfterConcat
  <2>2. QED
    BY <1>1, <2>1
<1>4. CASE op.bot = b /\ k \in op.keys
  <2>1. Touching(t, b, k) = {1}
    BY <1>2, <1>4 DEF Touching
  <2>2. 1 \in Touching(t, b, k) /\ \A j \in Touching(t, b, k) : j <= 1
    BY <2>1
  <2>3. After(t, b, k, After(s, b, k, old)) = t[1].value
    BY <1>1, <2>2, AfterTouched
  <2>4. QED
    BY <1>2, <1>3, <1>4, <2>3
<1>5. CASE ~ (op.bot = b /\ k \in op.keys)
  <2>1. Touching(t, b, k) = {}
    BY <1>2, <1>5 DEF Touching
  <2>2. QED
    BY <1>3, <1>5, <2>1, AfterUntouched
<1>6. QED
  BY <1>4, <1>5

-----------------------------------------------------------------------------
LEMMA PostType ==
    ASSUME TypeOK, NEW op \in Operations, Post(op)
    PROVE  channel' \in Seq(Operations) /\ issued' \in Seq(Operations)
BY AppendProperties DEF Post, TypeOK

LEMMA RowsType ==
    ASSUME NEW ops \in Seq(Operations), NEW rows \in [Bots -> Rows]
    PROVE  AllAfter(ops, rows) \in [Bots -> Rows]
<1>1. ASSUME NEW b \in Bots PROVE [k \in Keys |-> After(ops, b, k, rows[b][k])] \in Rows
  <2>1. rows[b] \in [Keys -> Values \cup {Absent}]
    BY DEF Rows
  <2>2. \A k \in Keys : After(ops, b, k, rows[b][k]) \in Values \cup {Absent}
    BY <2>1, AfterType
  <2>3. QED
    BY <2>2 DEF Rows
<1>2. QED
  BY <1>1 DEF AllAfter

\* The types, and that a batch never waits for a flush nobody has scheduled.
THEOREM TypeCorrect == Spec => []TypeOK
<1>1. Init => TypeOK
  BY EmptySeq DEF Init, TypeOK, Rows, NoRows
<1>2. TypeOK /\ [Next]_vars => TypeOK'
  <2> SUFFICES ASSUME TypeOK, [Next]_vars PROVE TypeOK'
    OBVIOUS
  <2>1. ASSUME NEW b \in Bots, Open(b) PROVE TypeOK'
    BY <2>1 DEF Open, TypeOK
  <2>2. ASSUME NEW b \in Bots, NEW keys \in SUBSET Keys,
               NEW value \in Values \cup {Absent}, Write(b, keys, value)
        PROVE  TypeOK'
    <3>1. [bot |-> b, keys |-> keys, value |-> value] \in Operations
      BY DEF Operations
    <3>2. channel' \in Seq(Operations) /\ issued' \in Seq(Operations)
      BY <2>2, <3>1, PostType DEF Write
    <3>3. cache[b] \in Rows
      BY <2>2 DEF Write, TypeOK
    <3>4. [k \in Keys |-> IF k \in keys THEN value ELSE cache[b][k]] \in Rows
      BY <3>3 DEF Rows
    <3>5. cache' \in [Bots -> Rows \cup {Closed}]
      BY <2>2, <3>4 DEF Write, TypeOK
    <3>6. QED
      BY <2>2, <3>2, <3>5 DEF Write, TypeOK
  <2>3. ASSUME NEW b \in Bots, Set(b) PROVE TypeOK'
    BY <2>2, <2>3 DEF Set
  <2>4. ASSUME NEW b \in Bots, Delete(b) PROVE TypeOK'
    BY <2>2, <2>4 DEF Delete
  <2>5. ASSUME NEW b \in Bots, DeleteBot(b) PROVE TypeOK'
    <3>1. [bot |-> b, keys |-> Keys, value |-> Absent] \in Operations
      BY DEF Operations
    <3>2. channel' \in Seq(Operations) /\ issued' \in Seq(Operations)
      BY <2>5, <3>1, PostType DEF DeleteBot
    <3>3. NoRows \in Rows
      BY DEF NoRows, Rows
    <3>4. disk' \in [Bots -> Rows] /\ cache' \in [Bots -> Rows \cup {Closed}]
      BY <2>5, <3>3 DEF DeleteBot, TypeOK
    <3>5. QED
      BY <2>5, <3>2, <3>4 DEF DeleteBot, TypeOK
  <2>6. CASE StartWriter
    BY <2>6 DEF StartWriter, TypeOK
  <2>7. CASE Deliver
    <3>1. /\ Append(pending, Head(channel)) \in Seq(Operations)
          /\ Tail(channel) \in Seq(Operations)
      BY <2>7, HeadTailProperties, AppendProperties DEF Deliver, TypeOK
    <3>2. QED
      BY <2>7, <3>1 DEF Deliver, TypeOK
  <2>8. CASE Commit
    <3>1. /\ disk' \in [Bots -> Rows] /\ durable' \in Seq(Operations)
          /\ pending' \in Seq(Operations) /\ pending' = <<>>
      BY <2>8, RowsType, ConcatProperties, EmptySeq DEF Commit, TypeOK
    <3>2. QED
      BY <2>8, <3>1 DEF Commit, Flushing, TypeOK
  <2>9. CASE FlushDeaf
    BY <2>9 DEF FlushDeaf, Flushing, TypeOK
  <2>10. CASE FlushRefused
    BY <2>10 DEF FlushRefused, Flushing, TypeOK
  <2>11. CASE FlushThrows
    BY <2>11, EmptySeq DEF FlushThrows, Flushing, Drop, TypeOK
  <2>12. CASE CrashAndBoot
    BY <2>12, EmptySeq DEF CrashAndBoot, Drop, TypeOK
  <2>13. CASE UNCHANGED vars
    BY <2>13 DEF vars, TypeOK
  <2>14. QED
    BY <2>1, <2>3, <2>4, <2>5, <2>6, <2>7, <2>8, <2>9, <2>10, <2>11, <2>12, <2>13 DEF Next
<1>3. QED
  BY <1>1, <1>2, PTL DEF Spec

-----------------------------------------------------------------------------
\* Sequences.
LEMMA AppendConcat ==
    ASSUME NEW S, NEW s \in Seq(S), NEW t \in Seq(S), NEW e \in S
    PROVE  s \o Append(t, e) = Append(s \o t, e)
<1>1. <<e>> \in Seq(S) /\ s \o t \in Seq(S)
  BY ConcatProperties
<1>2. s \o (t \o <<e>>) = (s \o t) \o <<e>>
  BY <1>1, ConcatAssociative
<1>3. QED
  BY <1>1, <1>2, AppendIsConcat

LEMMA MoveHead ==
    ASSUME NEW S, NEW s \in Seq(S), NEW t \in Seq(S), t # <<>>
    PROVE  Append(s, Head(t)) \o Tail(t) = s \o t
<1>1. Head(t) \in S /\ Tail(t) \in Seq(S) /\ <<Head(t)>> \in Seq(S)
  BY HeadTailProperties
<1>2. t = <<Head(t)>> \o Tail(t)
  BY <1>1, SeqEqual, HeadTailProperties, ConcatProperties
<1>3. (s \o <<Head(t)>>) \o Tail(t) = s \o (<<Head(t)>> \o Tail(t))
  BY <1>1, ConcatAssociative
<1>4. QED
  BY <1>1, <1>2, <1>3, AppendIsConcat

LEMMA MoveHeadBehind ==
    \A r, s, t \in Seq(Operations) :
        t # <<>> => (r \o Append(s, Head(t))) \o Tail(t) = (r \o s) \o t
<1> DEFINE S == Operations
<1> HIDE DEF S
<1> SUFFICES ASSUME NEW r \in Seq(S), NEW s \in Seq(S), NEW t \in Seq(S), t # <<>>
             PROVE  (r \o Append(s, Head(t))) \o Tail(t) = (r \o s) \o t
  BY Zenon DEF S
<1>1. ASSUME NEW x \in Seq(S), NEW y \in Seq(S), NEW z \in Seq(S)
      PROVE  (x \o y) \o z = x \o (y \o z)
  BY ConcatAssociative, SMTT(20)
<1>2. PICK a \in Seq(S) : a = Append(s, Head(t))
  BY HeadTailProperties, AppendProperties
<1>3. PICK u \in Seq(S) : u = Tail(t)
  BY HeadTailProperties
<1>4. a \o u = s \o t
  BY <1>2, <1>3, MoveHead
<1>5. (r \o a) \o u = r \o (a \o u)
  BY <1>1, Zenon
<1>6. (r \o s) \o t = r \o (s \o t)
  BY <1>1, Zenon
<1>7. QED
  BY <1>2, <1>3, <1>4, <1>5, <1>6

LEMMA PrefixOfConcat ==
    ASSUME NEW S, NEW s \in Seq(S), NEW t \in Seq(S)
    PROVE  SubSeq(s \o t, 1, Len(s)) = s
<1>1. CASE s = <<>>
  BY <1>1, SubSeqEmpty, LenProperties, EmptySeq
<1>2. CASE s # <<>>
  <2>1. Len(s) \in 1..Len(s) /\ 1 \in 1..Len(s)
    BY <1>2, EmptySeq, LenProperties
  <2>2. SubSeq(s \o t, 1, Len(s)) = SubSeq(s, 1, Len(s))
    BY <2>1, SubSeqOfConcat1
  <2>3. QED
    BY <2>2, SubSeqFull
<1>3. QED
  BY <1>1, <1>2

-----------------------------------------------------------------------------
\* Unless a statement cannot be prepared, no step loses, repeats or reorders an
\* operation: what was issued is what is on disk, pending and on its way.
LEMMA NothingLostStep ==
    ASSUME TypeOK, NothingLost, [Next]_vars
    PROVE  NothingLost'
<1> USE DEF NothingLost
<1>t. /\ durable \in Seq(Operations) /\ pending \in Seq(Operations)
      /\ channel \in Seq(Operations) /\ durable \o pending \in Seq(Operations)
  BY ConcatProperties DEF TypeOK
<1>1. ASSUME NEW op \in Operations, Post(op), UNCHANGED <<pending, durable, threw>> PROVE NothingLost'
  <2>1. (durable \o pending) \o Append(channel, op) = Append((durable \o pending) \o channel, op)
    BY <1>t, AppendConcat
  <2>2. QED
    BY <1>1, <2>1 DEF Post
<1>2. ASSUME UNCHANGED <<issued, durable, pending, channel, threw>> PROVE NothingLost'
  BY <1>2
<1>3. ASSUME NEW b \in Bots, Open(b) PROVE NothingLost'
  BY <1>2, <1>3 DEF Open
<1>4. ASSUME NEW b \in Bots, NEW keys \in SUBSET Keys,
             NEW value \in Values \cup {Absent}, Write(b, keys, value)
      PROVE  NothingLost'
  <2>1. [bot |-> b, keys |-> keys, value |-> value] \in Operations
    BY DEF Operations
  <2>2. QED
    BY <1>1, <1>4, <2>1 DEF Write
<1>5. ASSUME NEW b \in Bots, Set(b) \/ Delete(b) PROVE NothingLost'
  <2>1. CASE Set(b)
    BY <2>1, <1>4 DEF Set
  <2>2. CASE Delete(b)
    BY <2>2, <1>4 DEF Delete
  <2>3. QED
    BY <1>5, <2>1, <2>2
<1>6. ASSUME NEW b \in Bots, DeleteBot(b) PROVE NothingLost'
  <2>1. [bot |-> b, keys |-> Keys, value |-> Absent] \in Operations
    BY DEF Operations
  <2>2. QED
    BY <1>1, <1>6, <2>1 DEF DeleteBot
<1>7. CASE StartWriter
  BY <1>2, <1>7 DEF StartWriter
<1>8. CASE Deliver
  <2>1. (durable \o Append(pending, Head(channel))) \o Tail(channel)
           = (durable \o pending) \o channel
    <3>1. channel # <<>>
      BY <1>8 DEF Deliver
    <3>2. QED
      BY <3>1, <1>t, MoveHeadBehind, Zenon
  <2>2. QED
    BY <1>8, <2>1 DEF Deliver
<1>9. CASE Commit
  <2>1. durable' = durable \o pending /\ pending' = <<>> /\ UNCHANGED <<channel, issued, threw>>
    BY <1>9 DEF Commit, Flushing
  <2>2. QED
    BY <2>1, <1>t, ConcatEmptySeq
<1>10. CASE FlushDeaf \/ FlushRefused
  BY <1>2, <1>10 DEF FlushDeaf, FlushRefused, Flushing
<1>11. CASE FlushThrows
  BY <1>11 DEF FlushThrows, Flushing
<1>12. CASE CrashAndBoot
  BY <1>12, <1>t, ConcatEmptySeq DEF CrashAndBoot
<1>13. CASE UNCHANGED vars
  BY <1>2, <1>13 DEF vars
<1>14. QED
  BY <1>3, <1>5, <1>6, <1>7, <1>8, <1>9, <1>10, <1>11, <1>12, <1>13 DEF Next

\* A failed flush never drops what is pending and never reorders it, provided
\* that it fails inside the try block.
THEOREM LosesNothing == Spec => []NothingLost
<1>1. Init => NothingLost
  BY ConcatEmptySeq, EmptySeq DEF Init, NothingLost
<1>2. TypeOK /\ NothingLost /\ [Next]_vars => NothingLost'
  BY NothingLostStep
<1>3. QED
  BY <1>1, <1>2, TypeCorrect, PTL DEF Spec

LEMMA SuffixOfConcat ==
    ASSUME NEW S, NEW s \in Seq(S), NEW t \in Seq(S)
    PROVE  SubSeq(s \o t, Len(s) + 1, Len(s \o t)) = t
<1>0. Len(s) \in Nat /\ Len(t) \in Nat /\ Len(s \o t) = Len(s) + Len(t) /\ s \o t \in Seq(S)
  BY LenProperties, ConcatProperties
<1>1. CASE t = <<>>
  <2>1. Len(t) = 0
    BY <1>1, EmptySeq
  <2>2. SubSeq(s \o t, Len(s) + 1, Len(s)) = <<>>
    BY <1>0, SubSeqEmpty
  <2>3. QED
    BY <1>0, <1>1, <2>1, <2>2
<1>2. CASE t # <<>>
  <2>1. Len(t) \in 1..Len(t)
    BY <1>0, <1>2, EmptySeq
  <2>2. SubSeq(s \o t, Len(s) + 1, Len(s) + Len(t)) = SubSeq(t, 1, Len(t))
    BY <1>0, <2>1, SubSeqOfConcat2
  <2>3. QED
    BY <1>0, <2>2, SubSeqFull
<1>3. QED
  BY <1>1, <1>2

\* The storage implements the durable log, and so keeps a prefix of what was
\* written to it whenever it crashes.
THEOREM ImplementsLog == Spec => LogSpec
<1>1. Init => Log!Init
  BY EmptySeq, ConcatEmptySeq DEF Init, Log!Init, kept
<1>2. TypeOK /\ [Next]_vars => [Log!Next]_<<kept, Len(durable)>>
  <2> SUFFICES ASSUME TypeOK, [Next]_vars
               PROVE  Log!Next \/ UNCHANGED <<kept, Len(durable)>>
    OBVIOUS
  <2>t. /\ durable \in Seq(Operations) /\ pending \in Seq(Operations)
        /\ channel \in Seq(Operations) /\ durable \o pending \in Seq(Operations)
        /\ kept \in Seq(Operations)
    BY ConcatProperties DEF TypeOK, kept
  <2>1. ASSUME NEW op \in Operations, Post(op), UNCHANGED <<pending, durable>> PROVE Log!Next
    <3>1. kept' = Append(kept, op)
      BY <2>1, <2>t, AppendConcat DEF Post, kept
    <3>2. QED
      BY <2>1, <3>1 DEF Log!Next, Log!Issue
  <2>2. ASSUME UNCHANGED <<durable, pending, channel>> PROVE UNCHANGED <<kept, Len(durable)>>
    BY <2>2 DEF kept
  <2>3. ASSUME NEW b \in Bots, NEW keys \in SUBSET Keys,
               NEW value \in Values \cup {Absent}, Write(b, keys, value)
        PROVE  Log!Next
    <3>1. [bot |-> b, keys |-> keys, value |-> value] \in Operations
      BY DEF Operations
    <3>2. QED
      BY <2>1, <2>3, <3>1 DEF Write
  <2>4. ASSUME NEW b \in Bots, Set(b) \/ Delete(b) PROVE Log!Next
    <3>1. CASE Set(b)
      BY <3>1, <2>3 DEF Set
    <3>2. CASE Delete(b)
      BY <3>2, <2>3 DEF Delete
    <3>3. QED
      BY <2>4, <3>1, <3>2
  <2>5. ASSUME NEW b \in Bots, DeleteBot(b) PROVE Log!Next
    <3>1. [bot |-> b, keys |-> Keys, value |-> Absent] \in Operations
      BY DEF Operations
    <3>2. QED
      BY <2>1, <2>5, <3>1 DEF DeleteBot
  <2>6. CASE Deliver
    <3>1. channel # <<>> /\ UNCHANGED durable
      BY <2>6 DEF Deliver
    <3>2. (durable \o Append(pending, Head(channel))) \o Tail(channel)
             = (durable \o pending) \o channel
      BY <3>1, <2>t, MoveHeadBehind, Zenon
    <3>3. kept' = kept
      BY <2>6, <3>1, <3>2 DEF Deliver, kept
    <3>4. QED
      BY <3>1, <3>3
  <2>7. CASE Commit
    <3>1. durable' = durable \o pending /\ pending' = <<>> /\ UNCHANGED channel
      BY <2>7 DEF Commit, Flushing
    <3>2. kept' = kept
      BY <2>t, <3>1, ConcatEmptySeq DEF kept
    <3>3. CASE pending = <<>>
      BY <3>1, <3>2, <3>3, <2>t, ConcatEmptySeq
    <3>4. CASE pending # <<>>
      <4>1. Len(pending) \in Nat /\ Len(pending) > 0 /\ Len(durable) \in Nat /\ Len(channel) \in Nat
        BY <3>4, <2>t, EmptySeq, LenProperties
      <4>2. /\ Len(durable') = Len(durable) + Len(pending)
            /\ Len(kept) = Len(durable) + Len(pending) + Len(channel)
        BY <3>1, <2>t, ConcatProperties DEF kept
      <4>3. Len(durable') \in Len(durable) + 1..Len(kept)
        BY <4>1, <4>2
      <4>4. QED
        BY <3>2, <4>3 DEF Log!Next, Log!Save
    <3>5. QED
      BY <3>3, <3>4
  <2>8. ASSUME NEW ops \in Seq(Operations), UNCHANGED durable,
               \/ ops = pending /\ kept' = durable \o channel
               \/ ops = pending \o channel /\ kept' = durable
        PROVE  Log!Next
    <3>1. SubSeq(kept, 1, Len(durable)) = durable
      <4>1. kept = durable \o (pending \o channel) /\ pending \o channel \in Seq(Operations)
        BY <2>t, ConcatAssociative, ConcatProperties DEF kept
      <4>2. QED
        BY <2>t, <4>1, PrefixOfConcat
    <3>2. Len(durable) \in Nat /\ Len(durable \o pending) \in Len(durable)..Len(kept)
      BY <2>t, LenProperties, ConcatProperties DEF kept
    <3>3. CASE ops = pending /\ kept' = durable \o channel
      <4>1. SubSeq(kept, Len(durable \o pending) + 1, Len(kept)) = channel
        BY <2>t, SuffixOfConcat DEF kept
      <4>2. QED
        BY <2>8, <3>1, <3>2, <3>3, <4>1 DEF Log!Next, Log!Drop
    <3>4. CASE ops = pending \o channel /\ kept' = durable
      <4>1. Len(kept) \in Len(durable)..Len(kept) /\ Len(kept) \in Nat
        BY <2>t, LenProperties, ConcatProperties DEF kept
      <4>2. SubSeq(kept, Len(kept) + 1, Len(kept)) = <<>>
        BY <2>t, <4>1, SubSeqEmpty
      <4>3. durable = durable \o <<>>
        BY <2>t, ConcatEmptySeq
      <4>4. QED
        BY <2>8, <3>1, <3>4, <4>1, <4>2, <4>3 DEF Log!Next, Log!Drop
    <3>5. QED
      BY <2>8, <3>3, <3>4
  <2>9. CASE FlushThrows
    <3>1. UNCHANGED <<durable, channel>> /\ pending' = <<>>
      BY <2>9 DEF FlushThrows, Flushing
    <3>2. kept' = durable \o channel
      BY <2>t, <3>1, ConcatEmptySeq DEF kept
    <3>3. QED
      BY <2>8, <2>t, <3>1, <3>2
  <2>10. CASE CrashAndBoot
    <3>1. UNCHANGED durable /\ channel' = <<>> /\ pending' = <<>>
      BY <2>10 DEF CrashAndBoot
    <3>2. kept' = durable
      BY <2>t, <3>1, ConcatEmptySeq DEF kept
    <3>3. pending \o channel \in Seq(Operations)
      BY <2>t, ConcatProperties
    <3>4. QED
      BY <2>8, <3>1, <3>2, <3>3
  <2>11. CASE \/ \E b \in Bots : Open(b)
              \/ StartWriter \/ FlushDeaf \/ FlushRefused
              \/ UNCHANGED vars
    BY <2>2, <2>11 DEF Open, StartWriter, FlushDeaf, FlushRefused, Flushing, vars
  <2>12. QED
    BY <2>4, <2>5, <2>6, <2>7, <2>9, <2>10, <2>11 DEF Next
<1>3. QED
  BY <1>1, <1>2, TypeCorrect, PTL DEF Spec, LogSpec, Log!Spec

-----------------------------------------------------------------------------
\* A refused batch leaves nothing behind and a committed one is all there, so the
\* table is what the committed operations make of it.
LEMMA DiskStep ==
    ASSUME TypeOK, DiskIsReplay, [Next]_vars
    PROVE  DiskIsReplay'
<1> USE DEF DiskIsReplay
<1>1. ASSUME UNCHANGED <<deleted, disk, durable>> PROVE DiskIsReplay'
  BY <1>1
<1>2. ASSUME NEW b \in Bots, Open(b) \/ Set(b) \/ Delete(b) PROVE DiskIsReplay'
  BY <1>1, <1>2 DEF Open, Set, Delete, Write
<1>3. ASSUME NEW c \in Bots, DeleteBot(c) PROVE DiskIsReplay'
  <2>1. \A b \in Bots \ deleted' : b \in Bots \ deleted /\ disk'[b] = disk[b]
    BY <1>3 DEF DeleteBot, TypeOK
  <2>2. QED
    BY <1>3, <2>1 DEF DeleteBot
<1>4. CASE Commit
  <2>1. /\ durable' = durable \o pending /\ deleted' = deleted
        /\ disk' = AllAfter(pending, disk)
        /\ durable \in Seq(Operations) /\ pending \in Seq(Operations)
    BY <1>4 DEF Commit, Flushing, TypeOK
  <2>2. ASSUME NEW b \in Bots \ deleted
        PROVE  disk'[b] = [k \in Keys |-> After(durable', b, k, Absent)]
    <3>1. ASSUME NEW k \in Keys
          PROVE  After(pending, b, k, disk[b][k]) = After(durable', b, k, Absent)
      <4>1. disk[b][k] = After(durable, b, k, Absent)
        OBVIOUS
      <4>2. After(durable \o pending, b, k, Absent)
               = After(pending, b, k, After(durable, b, k, Absent))
        BY <2>1, AfterConcat
      <4>3. QED
        BY <2>1, <4>1, <4>2
    <3>2. disk'[b] = [k \in Keys |-> After(pending, b, k, disk[b][k])]
      BY <2>1 DEF AllAfter
    <3>3. QED
      BY <3>1, <3>2
  <2>3. QED
    BY <2>1, <2>2
<1>5. CASE StartWriter \/ Deliver \/ FlushDeaf \/ FlushRefused \/ FlushThrows \/ CrashAndBoot
  BY <1>1, <1>5 DEF StartWriter, Deliver, FlushDeaf, FlushRefused, FlushThrows, CrashAndBoot, Flushing
<1>6. CASE UNCHANGED vars
  BY <1>1, <1>6 DEF vars
<1>7. QED
  BY <1>2, <1>3, <1>4, <1>5, <1>6 DEF Next

THEOREM DiskReplays == Spec => []DiskIsReplay
<1>1. Init => DiskIsReplay
  <2> SUFFICES ASSUME Init, NEW b \in Bots
               PROVE  disk[b] = [k \in Keys |-> After(durable, b, k, Absent)]
    BY DEF DiskIsReplay
  <2>1. \A k \in Keys : Touching(durable, b, k) = {}
    BY DEF Init, Touching
  <2>2. \A k \in Keys : After(durable, b, k, Absent) = Absent
    BY <2>1, AfterUntouched
  <2>3. disk[b] = [k \in Keys |-> Absent]
    BY DEF Init, NoRows
  <2>4. QED
    BY <2>2, <2>3
<1>2. TypeOK /\ DiskIsReplay /\ [Next]_vars => DiskIsReplay'
  BY DiskStep
<1>3. QED
  BY <1>1, <1>2, TypeCorrect, PTL DEF Spec

-----------------------------------------------------------------------------
\* The mirror never lies.  The step that matters is Open: it reads the table, so
\* nothing written to the bot before may still be on its way.  That is what
\* ClosedIsQuiet adds.
Foreign(ops, b) == \A i \in DOMAIN ops : ops[i].bot # b

ClosedIsQuiet ==
    \A b \in Bots \ deleted :
        cache[b] = Closed =>
            /\ Foreign(pending, b) /\ Foreign(channel, b)
            /\ disk[b] = [k \in Keys |-> After(issued, b, k, Absent)]

CacheInv == CachesAreCurrent /\ ClosedIsQuiet

LEMMA ForeignAppend ==
    ASSUME NEW ops \in Seq(Operations), NEW op \in Operations, NEW b, op.bot # b, Foreign(ops, b)
    PROVE  Foreign(Append(ops, op), b)
BY AppendProperties DEF Foreign

LEMMA ForeignHeadTail ==
    ASSUME NEW ops \in Seq(Operations), ops # <<>>, NEW b, Foreign(ops, b)
    PROVE  Head(ops).bot # b /\ Foreign(Tail(ops), b)
<1>1. \A i \in 1..Len(Tail(ops)) : i + 1 \in DOMAIN ops /\ Tail(ops)[i] = ops[i + 1]
  BY HeadTailProperties, LenProperties
<1>2. DOMAIN Tail(ops) = 1..Len(Tail(ops))
  BY HeadTailProperties, LenProperties
<1>3. 1 \in DOMAIN ops /\ Head(ops) = ops[1]
  BY EmptySeq
<1>4. QED
  BY <1>1, <1>2, <1>3 DEF Foreign

\* What an operation on one bot makes of the rows of the bots.
LEMMA PostedRows ==
    ASSUME TypeOK, NEW op \in Operations, Post(op), NEW b, NEW k
    PROVE  After(issued', b, k, Absent) =
              IF op.bot = b /\ k \in op.keys THEN op.value ELSE After(issued, b, k, Absent)
BY AfterAppend DEF Post, TypeOK

LEMMA CacheStep ==
    ASSUME TypeOK, DiskIsReplay, CacheInv, [Next]_vars
    PROVE  CacheInv'
<1> USE DEF CacheInv
<1>1. ASSUME UNCHANGED <<cache, deleted, channel, pending, disk, issued>> PROVE CacheInv'
  BY <1>1 DEF CachesAreCurrent, ClosedIsQuiet
<1>2. ASSUME NEW c \in Bots, Open(c) PROVE CacheInv'
  <2>1. ASSUME NEW b \in Bots \ deleted, cache'[b] # Closed
        PROVE  cache'[b] = [k \in Keys |-> After(issued, b, k, Absent)]
    <3>1. CASE b = c
      BY <1>2, <3>1 DEF Open, TypeOK, ClosedIsQuiet
    <3>2. CASE b # c
      BY <1>2, <2>1, <3>2 DEF Open, TypeOK, CachesAreCurrent
    <3>3. QED
      BY <3>1, <3>2
  <2>2. \A b \in Bots \ deleted : cache'[b] = Closed => cache[b] = Closed
    BY <1>2 DEF Open, TypeOK
  <2>3. QED
    BY <1>2, <2>1, <2>2 DEF Open, CachesAreCurrent, ClosedIsQuiet
<1>3. ASSUME NEW c \in Bots, NEW keys \in SUBSET Keys,
             NEW value \in Values \cup {Absent}, Write(c, keys, value)
      PROVE  CacheInv'
  <2>1. PICK op \in Operations : op = [bot |-> c, keys |-> keys, value |-> value]
    BY DEF Operations
  <2>2. /\ Post(op) /\ cache[c] # Closed /\ channel' = Append(channel, op)
        /\ UNCHANGED <<deleted, pending, disk>>
        /\ cache' = [cache EXCEPT ![c] =
                        [k \in Keys |-> IF k \in keys THEN value ELSE cache[c][k]]]
    BY <1>3, <2>1 DEF Write, Post
  <2>3. \A b, k : After(issued', b, k, Absent) =
                     IF op.bot = b /\ k \in op.keys THEN op.value ELSE After(issued, b, k, Absent)
    BY <2>2, PostedRows
  <2>4. op.bot = c /\ op.keys = keys /\ op.value = value
    BY <2>1
  <2>5. ASSUME NEW b \in Bots \ deleted, cache'[b] # Closed
        PROVE  cache'[b] = [k \in Keys |-> After(issued', b, k, Absent)]
    <3>1. CASE b = c
      <4>1. cache[c] = [k \in Keys |-> After(issued, c, k, Absent)]
        BY <2>2, <3>1 DEF CachesAreCurrent
      <4>2. cache'[c] = [k \in Keys |-> IF k \in keys THEN value ELSE cache[c][k]]
        BY <2>2 DEF TypeOK
      <4>3. \A k \in Keys : After(issued', c, k, Absent) =
                               IF k \in keys THEN value ELSE cache[c][k]
        BY <2>3, <2>4, <4>1
      <4>4. QED
        BY <3>1, <4>2, <4>3
    <3>2. CASE b # c
      <4>1. cache'[b] = cache[b]
        BY <2>2, <3>2 DEF TypeOK
      <4>2. \A k \in Keys : After(issued', b, k, Absent) = After(issued, b, k, Absent)
        BY <2>3, <2>4, <3>2
      <4>3. QED
        BY <2>5, <4>1, <4>2 DEF CachesAreCurrent
    <3>3. QED
      BY <3>1, <3>2
  <2>6. ASSUME NEW b \in Bots \ deleted, cache'[b] = Closed
        PROVE  /\ Foreign(pending, b) /\ Foreign(channel', b)
               /\ disk[b] = [k \in Keys |-> After(issued', b, k, Absent)]
    <3>1. b # c
      <4>1. [k \in Keys |-> IF k \in keys THEN value ELSE cache[c][k]] \in Rows
        BY <2>2 DEF TypeOK, Rows
      <4>2. QED
        BY <2>2, <2>6, <4>1, StorageAssumption DEF TypeOK, Rows
    <3>2. cache[b] = Closed
      BY <2>2, <2>6, <3>1 DEF TypeOK
    <3>3. /\ Foreign(pending, b) /\ Foreign(channel, b)
          /\ disk[b] = [k \in Keys |-> After(issued, b, k, Absent)]
      BY <3>2 DEF ClosedIsQuiet
    <3>4. Foreign(channel', b)
      BY <2>2, <2>4, <3>1, <3>3, ForeignAppend DEF TypeOK
    <3>5. \A k \in Keys : After(issued', b, k, Absent) = After(issued, b, k, Absent)
      BY <2>3, <2>4, <3>1
    <3>6. QED
      BY <3>3, <3>4, <3>5
  <2>7. QED
    BY <2>2, <2>5, <2>6 DEF CachesAreCurrent, ClosedIsQuiet
<1>4. ASSUME NEW b \in Bots, Set(b) \/ Delete(b) PROVE CacheInv'
  <2>1. CASE Set(b)
    BY <2>1, <1>3 DEF Set
  <2>2. CASE Delete(b)
    BY <2>2, <1>3 DEF Delete
  <2>3. QED
    BY <1>4, <2>1, <2>2
<1>5. ASSUME NEW c \in Bots, DeleteBot(c) PROVE CacheInv'
  <2>1. PICK op \in Operations : op = [bot |-> c, keys |-> Keys, value |-> Absent]
    BY DEF Operations
  <2>2. Post(op) /\ channel' = Append(channel, op) /\ op.bot = c /\ UNCHANGED pending
    BY <1>5, <2>1 DEF DeleteBot, Post
  <2>3. \A b, k : b # c => After(issued', b, k, Absent) = After(issued, b, k, Absent)
    BY <2>2, PostedRows
  <2>4. \A b \in Bots \ deleted' :
           b \in Bots \ deleted /\ b # c /\ cache'[b] = cache[b] /\ disk'[b] = disk[b]
    BY <1>5 DEF DeleteBot, TypeOK
  <2>5. \A b \in Bots \ deleted' : Foreign(channel, b) => Foreign(channel', b)
    BY <2>2, <2>4, ForeignAppend DEF TypeOK
  <2>6. QED
    BY <2>2, <2>3, <2>4, <2>5 DEF CachesAreCurrent, ClosedIsQuiet
<1>6. CASE Deliver
  <2>1. ASSUME NEW b, Foreign(pending, b), Foreign(channel, b)
        PROVE  Foreign(pending', b) /\ Foreign(channel', b)
    <3>1. channel # <<>> /\ channel \in Seq(Operations) /\ pending \in Seq(Operations)
      BY <1>6 DEF Deliver, TypeOK
    <3>2. Head(channel) \in Operations
      BY <3>1, HeadTailProperties
    <3>3. Head(channel).bot # b /\ Foreign(Tail(channel), b)
      BY <2>1, <3>1, ForeignHeadTail
    <3>4. Foreign(Append(pending, Head(channel)), b)
      BY <2>1, <3>1, <3>2, <3>3, ForeignAppend
    <3>5. QED
      BY <1>6, <3>3, <3>4 DEF Deliver
  <2>2. QED
    BY <1>6, <2>1 DEF Deliver, CachesAreCurrent, ClosedIsQuiet
<1>7. CASE Commit
  <2>1. /\ disk' = AllAfter(pending, disk) /\ pending' = <<>>
        /\ UNCHANGED <<cache, deleted, channel, issued>>
    BY <1>7 DEF Commit, Flushing
  <2>2. ASSUME NEW b \in Bots \ deleted, cache[b] = Closed
        PROVE  disk'[b] = disk[b] /\ Foreign(pending', b)
    <3>1. \A k : Touching(pending, b, k) = {}
      BY <2>2 DEF ClosedIsQuiet, Foreign, Touching
    <3>2. \A k \in Keys : After(pending, b, k, disk[b][k]) = disk[b][k]
      BY <3>1, AfterUntouched
    <3>3. disk'[b] = [k \in Keys |-> disk[b][k]]
      BY <2>1, <3>2 DEF AllAfter
    <3>4. disk[b] = [k \in Keys |-> disk[b][k]]
      BY DEF TypeOK, Rows
    <3>5. QED
      BY <2>1, <3>3, <3>4 DEF Foreign
  <2>3. QED
    BY <2>1, <2>2 DEF CachesAreCurrent, ClosedIsQuiet
<1>8. CASE FlushThrows
  BY <1>8 DEF FlushThrows, Flushing, CachesAreCurrent, ClosedIsQuiet, Foreign
<1>9. CASE StartWriter \/ FlushDeaf \/ FlushRefused
  BY <1>1, <1>9 DEF StartWriter, FlushDeaf, FlushRefused, Flushing
<1>10. CASE CrashAndBoot
  BY <1>10 DEF CrashAndBoot, DiskIsReplay, CachesAreCurrent, ClosedIsQuiet, Foreign
<1>11. CASE UNCHANGED vars
  BY <1>1, <1>11 DEF vars
<1>12. QED
  BY <1>2, <1>4, <1>5, <1>6, <1>7, <1>8, <1>9, <1>10, <1>11 DEF Next

\* A bot reads back what was last written to it, whatever the worker has made of
\* it so far and whatever went wrong.
THEOREM CachesCurrent == Spec => []CachesAreCurrent
<1>1. Init => CacheInv
  <2> SUFFICES ASSUME Init, NEW b \in Bots
               PROVE  /\ Foreign(pending, b) /\ Foreign(channel, b) /\ cache[b] = Closed
                      /\ disk[b] = [k \in Keys |-> After(issued, b, k, Absent)]
    BY DEF CacheInv, CachesAreCurrent, ClosedIsQuiet
  <2>1. \A k \in Keys : Touching(issued, b, k) = {}
    BY DEF Init, Touching
  <2>2. \A k \in Keys : After(issued, b, k, Absent) = Absent
    BY <2>1, AfterUntouched
  <2>3. disk[b] = [k \in Keys |-> Absent]
    BY DEF Init, NoRows
  <2>4. QED
    BY <2>2, <2>3 DEF Init, Foreign
<1>2. TypeOK /\ DiskIsReplay /\ CacheInv /\ [Next]_vars => CacheInv'
  BY CacheStep
<1>3. CacheInv => CachesAreCurrent
  BY DEF CacheInv
<1>4. QED
  BY <1>1, <1>2, <1>3, TypeCorrect, DiskReplays, PTL DEF Spec

-----------------------------------------------------------------------------
\* The clear of a deletion is behind every older write of the bot, so whatever
\* is still under way ends with it.
EndsWithoutRows ==
    \A b \in deleted \ disturbed, k \in Keys : After(pending \o channel, b, k, disk[b][k]) = Absent

LEMMA EndsWithoutRowsStep ==
    ASSUME TypeOK, EndsWithoutRows, [Next]_vars
    PROVE  EndsWithoutRows'
<1> USE DEF EndsWithoutRows
<1>t. /\ pending \in Seq(Operations) /\ channel \in Seq(Operations)
      /\ pending \o channel \in Seq(Operations)
  BY ConcatProperties DEF TypeOK
<1>1. ASSUME UNCHANGED <<deleted, channel, pending, disk, disturbed>> PROVE EndsWithoutRows'
  BY <1>1
<1>2. ASSUME NEW b \in Bots, Open(b) PROVE EndsWithoutRows'
  BY <1>1, <1>2 DEF Open
<1>3. ASSUME NEW op \in Operations, Post(op), UNCHANGED pending
      PROVE  \A b, k, old : After(pending' \o channel', b, k, old) =
                IF op.bot = b /\ k \in op.keys THEN op.value
                ELSE After(pending \o channel, b, k, old)
  <2>1. pending \o Append(channel, op) = Append(pending \o channel, op)
    BY <1>t, AppendConcat
  <2>2. pending' \o channel' = Append(pending \o channel, op)
    BY <1>3, <2>1 DEF Post
  <2>3. PICK ops \in Seq(Operations) : ops = pending \o channel
    BY <1>t
  <2>4. ASSUME NEW b, NEW k, NEW old
        PROVE  After(Append(ops, op), b, k, old) =
                  IF op.bot = b /\ k \in op.keys THEN op.value ELSE After(ops, b, k, old)
    BY AfterAppend
  <2>5. QED
    BY <2>2, <2>3, <2>4
<1>4. ASSUME NEW c \in Bots, NEW keys \in SUBSET Keys,
             NEW value \in Values \cup {Absent}, Write(c, keys, value)
      PROVE  EndsWithoutRows'
  <2>1. PICK op \in Operations : op = [bot |-> c, keys |-> keys, value |-> value]
    BY DEF Operations
  <2>2. /\ Post(op) /\ UNCHANGED <<deleted, pending, disk>> /\ op.bot = c
        /\ disturbed' = disturbed \cup ({c} \cap deleted)
    BY <1>4, <2>1 DEF Write
  <2>3. QED
    BY <1>3, <2>2
<1>5. ASSUME NEW b \in Bots, Set(b) \/ Delete(b) PROVE EndsWithoutRows'
  <2>1. CASE Set(b)
    BY <2>1, <1>4 DEF Set
  <2>2. CASE Delete(b)
    BY <2>2, <1>4 DEF Delete
  <2>3. QED
    BY <1>5, <2>1, <2>2
<1>6. ASSUME NEW c \in Bots, DeleteBot(c) PROVE EndsWithoutRows'
  <2>1. PICK op \in Operations : op = [bot |-> c, keys |-> Keys, value |-> Absent]
    BY DEF Operations
  <2>2. /\ Post(op) /\ UNCHANGED pending
        /\ op.bot = c /\ op.keys = Keys /\ op.value = Absent
        /\ deleted' = deleted \cup {c} /\ disturbed' = disturbed
    BY <1>6, <2>1 DEF DeleteBot
  <2>3. \A b \in deleted : b # c => disk'[b] = disk[b]
    BY <1>6 DEF DeleteBot, TypeOK
  <2>4. \A b, k, old : After(pending' \o channel', b, k, old) =
           IF b = c /\ k \in Keys THEN Absent ELSE After(pending \o channel, b, k, old)
    BY <1>3, <2>2
  <2>5. QED
    BY <2>2, <2>3, <2>4
<1>7. CASE Deliver
  <2>1. Append(pending, Head(channel)) \o Tail(channel) = pending \o channel
    BY <1>7, <1>t, MoveHead DEF Deliver
  <2>2. QED
    BY <1>7, <2>1 DEF Deliver
<1>8. CASE Commit
  <2>1. /\ disk' = AllAfter(pending, disk) /\ pending' = <<>>
        /\ UNCHANGED <<deleted, channel, disturbed>>
    BY <1>8 DEF Commit, Flushing
  <2>2. pending' \o channel' = channel
    BY <2>1, <1>t, ConcatEmptySeq
  <2>3. ASSUME NEW b \in deleted \ disturbed, NEW k \in Keys
        PROVE  After(channel, b, k, disk'[b][k]) = Absent
    <3>1. disk'[b][k] = After(pending, b, k, disk[b][k])
      BY <2>1 DEF AllAfter, TypeOK
    <3>2. After(pending \o channel, b, k, disk[b][k])
             = After(channel, b, k, After(pending, b, k, disk[b][k]))
      BY <1>t, AfterConcat
    <3>3. QED
      BY <3>1, <3>2
  <2>4. QED
    BY <2>1, <2>2, <2>3
<1>9. CASE StartWriter \/ FlushDeaf \/ FlushRefused
  BY <1>1, <1>9 DEF StartWriter, FlushDeaf, FlushRefused, Flushing
<1>10. CASE FlushThrows \/ CrashAndBoot
  <2>1. Drop /\ UNCHANGED <<deleted, disk>> /\ pending' = <<>>
    BY <1>10 DEF FlushThrows, Flushing, CrashAndBoot
  <2>2. CASE pending = <<>> /\ channel = <<>>
    <3>1. UNCHANGED <<channel, pending, disturbed>>
      BY <1>10, <2>1, <2>2 DEF FlushThrows, Flushing, CrashAndBoot, Drop
    <3>2. QED
      BY <1>1, <2>1, <3>1
  <2>3. CASE ~(pending = <<>> /\ channel = <<>>)
    BY <2>1, <2>3 DEF Drop
  <2>4. QED
    BY <2>2, <2>3
<1>11. CASE UNCHANGED vars
  BY <1>1, <1>11 DEF vars
<1>12. QED
  BY <1>2, <1>5, <1>6, <1>7, <1>8, <1>9, <1>10, <1>11 DEF Next

\* A deletion is final unless something still under way for the bot writes after
\* it, or what was on its way to the table is dropped.
THEOREM DeletionIsFinal == Spec => []DeletedStaysDeleted
<1>1. Init => EndsWithoutRows
  BY DEF Init, EndsWithoutRows
<1>2. TypeOK /\ EndsWithoutRows /\ [Next]_vars => EndsWithoutRows'
  BY EndsWithoutRowsStep
<1>3. TypeOK /\ EndsWithoutRows => DeletedStaysDeleted
  <2> SUFFICES ASSUME TypeOK, EndsWithoutRows, channel = <<>>, pending = <<>>,
                      NEW b \in deleted \ disturbed
               PROVE  disk[b] = NoRows
    BY DEF DeletedStaysDeleted
  <2>1. pending \o channel = <<>>
    BY EmptySeq, ConcatEmptySeq
  <2>2. \A k \in Keys : Touching(pending \o channel, b, k) = {}
    BY <2>1 DEF Touching
  <2>3. \A k \in Keys : disk[b][k] = Absent
    BY <2>2, AfterUntouched DEF EndsWithoutRows
  <2>4. disk[b] = [k \in Keys |-> disk[b][k]]
    BY DEF TypeOK, Rows
  <2>5. QED
    BY <2>3, <2>4 DEF NoRows
<1>4. QED
  BY <1>1, <1>2, <1>3, TypeCorrect, PTL DEF Spec

=============================================================================
