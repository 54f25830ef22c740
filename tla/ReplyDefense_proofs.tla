--------------------------- MODULE ReplyDefense_proofs ---------------------------
(***************************************************************************)
(* Proofs about ReplyDefense: its types, the budget of resends, and that   *)
(* no two messages handed to the network in a row have the same bytes.     *)
(***************************************************************************)
EXTENDS ReplyDefense, SequenceTheorems, TLAPS

SendType == [text : TextType, attempt : 0..MAX_RESENDS, chain : Nat, id : Nat, current : BOOLEAN]

TrackType == [id : Nat, base : Texts, attempt : 0..MAX_RESENDS, chain : Nat]

HandedType ==
    [before : TextType \cup {None}, latest : TextType \cup {None}, dropped : BOOLEAN]

Typed ==
    /\ online \in BOOLEAN
    /\ room \in Seq([text : TextType, deleted : BOOLEAN])
    /\ sends \subseteq SendType
    /\ tracked \subseteq TrackType
    /\ waiting \subseteq {e \in TrackType : e.attempt < MAX_RESENDS}
    /\ tracked \cap waiting = {}
    /\ lastReply \in TextType \cup {None}
    /\ chains \in Seq(0..MAX_RESENDS)
    /\ handed \in HandedType
    /\ dropped \in BOOLEAN
    /\ upsets \in Nat

\* The messages a resend may still come of.
Held == tracked \cup waiting

\* A reply to a person is carried on by one request or one message that is held,
\* which counts the resends so far; whoever consumes it may make one more.
OneToken ==
    /\ \A s \in sends : s.chain \in DOMAIN chains /\ s.attempt = chains[s.chain]
    /\ \A e \in Held : e.chain \in DOMAIN chains /\ e.attempt = chains[e.chain]
    /\ \A s, z \in sends : s.chain = z.chain => s = z
    /\ \A e, f \in Held : e.chain = f.chain => e = f
    /\ \A s \in sends, e \in Held : s.chain # e.chain

\* Ids are those of messages in the room, each used once.
Placed ==
    /\ \A s \in sends : s.id \in 0..Len(room) /\ (s.id # 0 => room[s.id].text = s.text)
    /\ \A e \in Held : e.id \in DOMAIN room /\ e.base = room[e.id].text.base
    /\ \A s, z \in sends : s.id # 0 /\ s.id = z.id => s = z
    /\ \A e, f \in Held : e.id = f.id => e = f
    /\ \A s \in sends, e \in Held : s.id # e.id

\* What the bot remembers as its last reply is what it handed over last.
Remembered ==
    upsets = 0 /\ ~ dropped => lastReply = handed.latest

IInv == Typed /\ OneToken /\ Placed /\ Remembered /\ NeverTheSameTwice

-----------------------------------------------------------------------------
\* The next variant is a variant, and never the one before.
LEMMA Ranges ==
    /\ Variants \in Nat /\ Variants >= 2 /\ MAX_RESENDS \in Nat
    /\ None \notin TextType
    /\ \A v \in 0..(Variants - 1) : (v + 1) % Variants \in 0..(Variants - 1)
    /\ \A v \in 0..(Variants - 1) : (v + 1) % Variants # v
<1>1. Variants \in Nat /\ Variants >= 2 /\ MAX_RESENDS \in Nat
  BY DefenseAssumption
<1>2. ASSUME NEW v \in 0..(Variants - 1), v + 1 < Variants PROVE (v + 1) % Variants = v + 1
  BY <1>1, <1>2
<1>3. Variants % Variants = 0
  BY <1>1
<1>4. ASSUME NEW v \in 0..(Variants - 1)
      PROVE  (v + 1) % Variants \in 0..(Variants - 1) /\ (v + 1) % Variants # v
  <2>1. CASE v + 1 < Variants
    BY <1>1, <1>2, <2>1
  <2>2. CASE v + 1 = Variants
    BY <1>1, <1>3, <2>2
  <2>3. QED
    BY <1>1, <2>1, <2>2
<1>5. None \notin TextType
  BY DefenseAssumption DEF TextType
<1>6. QED
  BY <1>1, <1>4, <1>5

LEMMA NextVariantRange ==
    ASSUME Typed, NEW t \in Texts
    PROVE  NextVariant(t) \in 0..(Variants - 1)
BY Ranges DEF Typed, NextVariant, TextType

\* What a text that is handed over looks like, and that it is not the last one.
LEMMA NewText ==
    ASSUME Typed, NEW t \in Texts, NEW text, text = [base |-> t, variant |-> NextVariant(t)]
    PROVE  text \in TextType /\ text # lastReply
<1>1. text \in TextType
  BY NextVariantRange DEF TextType
<1>2. CASE lastReply = None
  BY <1>1, <1>2, Ranges
<1>3. CASE lastReply \in TextType /\ lastReply.base = t
  <2>1. text.variant = (lastReply.variant + 1) % Variants
    BY <1>3, Ranges DEF NextVariant
  <2>2. QED
    BY <1>3, <2>1, Ranges DEF TextType
<1>4. CASE lastReply \in TextType /\ lastReply.base # t
  <2>1. text.base = t
    OBVIOUS
  <2>2. QED
    BY <1>1, <1>4, <2>1
<1>5. QED
  BY <1>1, <1>2, <1>3, <1>4 DEF Typed

-----------------------------------------------------------------------------
\* Handing a text to the network: one more request, remembered as the last reply,
\* and different from the text handed over before it.
LEMMA SendStep ==
    Typed /\ Remembered /\ UNCHANGED upsets =>
    \A t \in Texts, n \in 0..MAX_RESENDS, c \in Nat :
        Send(t, n, c) =>
           /\ lastReply' \in TextType
           /\ handed' \in HandedType
           /\ dropped' = FALSE
           /\ Remembered' /\ NeverTheSameTwice'
           /\ \E z \in SendType :
                 sends' = sends \cup {z} /\ z.attempt = n /\ z.chain = c /\ z.id = 0
<1> SUFFICES ASSUME Typed, Remembered, UNCHANGED upsets,
                    NEW t \in Texts, NEW n \in 0..MAX_RESENDS, NEW c \in Nat, Send(t, n, c)
             PROVE  /\ lastReply' \in TextType
                    /\ handed' \in HandedType
                    /\ dropped' = FALSE
                    /\ Remembered' /\ NeverTheSameTwice'
                    /\ \E z \in SendType :
                          sends' = sends \cup {z} /\ z.attempt = n /\ z.chain = c /\ z.id = 0
  OBVIOUS
<1> DEFINE text == [base |-> t, variant |-> NextVariant(t)]
           z == [text |-> text, attempt |-> n, chain |-> c, id |-> 0, current |-> TRUE]
<1>1. text \in TextType /\ text # lastReply
  BY NewText
<1>2. /\ lastReply' = text
      /\ handed' = [before |-> handed.latest, latest |-> text, dropped |-> dropped]
      /\ dropped' = FALSE
      /\ sends' = sends \cup {z}
  BY DEF Send
<1> HIDE DEF text
<1>3. handed' \in HandedType /\ z \in SendType
  BY <1>1, <1>2 DEF Typed, HandedType, SendType
<1>4. Remembered' /\ NeverTheSameTwice'
  BY <1>1, <1>2 DEF Remembered, NeverTheSameTwice, Typed
<1>5. z.attempt = n /\ z.chain = c /\ z.id = 0
  OBVIOUS
<1>6. QED
  <2> HIDE DEF z
  <2>1. QED
    BY <1>1, <1>2, <1>3, <1>4, <1>5

-----------------------------------------------------------------------------
\* A new request stands for its reply when nothing else does.
LEMMA NewToken ==
    ASSUME Typed, OneToken, Placed,
           NEW z \in SendType, sends' = sends \cup {z}, z.id = 0, UNCHANGED room,
           Held' \subseteq Held,
           chains' \in Seq(0..MAX_RESENDS),
           \A c \in DOMAIN chains : c # z.chain => c \in DOMAIN chains' /\ chains'[c] = chains[c],
           z.chain \in DOMAIN chains', z.attempt = chains'[z.chain],
           \A s \in sends : s.chain # z.chain,
           \A e \in Held' : e.chain # z.chain
    PROVE  OneToken' /\ Placed'
<1>1. OneToken'
  <2>1. \A s \in sends' : s.chain \in DOMAIN chains' /\ s.attempt = chains'[s.chain]
    BY DEF OneToken
  <2>2. \A e \in Held' : e.chain \in DOMAIN chains' /\ e.attempt = chains'[e.chain]
    BY DEF OneToken
  <2>3. \A s, y \in sends' : s.chain = y.chain => s = y
    BY DEF OneToken
  <2>4. \A e, f \in Held' : e.chain = f.chain => e = f
    BY DEF OneToken
  <2>5. \A s \in sends', e \in Held' : s.chain # e.chain
    BY DEF OneToken
  <2>6. QED
    BY <2>1, <2>2, <2>3, <2>4, <2>5 DEF OneToken
<1>2. Placed'
  <2>1. \A s \in sends' : s.id \in 0..Len(room') /\ (s.id # 0 => room'[s.id].text = s.text)
    BY DEF Placed, Typed
  <2>2. \A e \in Held' : e.id \in DOMAIN room' /\ e.id # 0 /\ e.base = room'[e.id].text.base
    BY DEF Placed, Typed
  <2>3. \A s, y \in sends' : s.id # 0 /\ s.id = y.id => s = y
    BY DEF Placed
  <2>4. \A e, f \in Held' : e.id = f.id => e = f
    BY DEF Placed
  <2>5. \A s \in sends', e \in Held' : s.id # e.id
    BY <2>2 DEF Placed
  <2>6. QED
    BY <2>1, <2>2, <2>3, <2>4, <2>5 DEF Placed
<1>3. QED
  BY <1>1, <1>2

LEMMA ReplyStep == IInv /\ Reply => IInv'
<1> SUFFICES ASSUME IInv, Reply PROVE IInv'
  OBVIOUS
<1>1. PICK t \in Texts :
         \/ Send(t, 0, Len(chains'))
         \/ /\ lastReply' = [base |-> t, variant |-> NextVariant(t)]
            /\ dropped' = TRUE
            /\ UNCHANGED <<sends, handed>>
  BY DEF Reply
<1>2. UNCHANGED <<online, room, tracked, waiting, Held, upsets>> /\ chains' = Append(chains, 0)
  BY DEF Reply, Held
<1>3. /\ chains' \in Seq(0..MAX_RESENDS) /\ Len(chains') = Len(chains) + 1
      /\ Len(chains) \in Nat /\ Len(chains') \in DOMAIN chains' /\ chains'[Len(chains')] = 0
      /\ \A c \in DOMAIN chains : c \in DOMAIN chains' /\ chains'[c] = chains[c] /\ c # Len(chains')
  BY <1>2, Ranges DEF IInv, Typed
<1>4. CASE Send(t, 0, Len(chains'))
  <2>1. /\ lastReply' \in TextType /\ handed' \in HandedType /\ dropped' = FALSE
        /\ Remembered' /\ NeverTheSameTwice'
        /\ \E z \in SendType :
              sends' = sends \cup {z} /\ z.attempt = 0 /\ z.chain = Len(chains') /\ z.id = 0
    <3>1. 0 \in 0..MAX_RESENDS /\ Len(chains') \in Nat
      BY <1>3, Ranges
    <3>2. Typed /\ Remembered /\ UNCHANGED upsets
      BY <1>2 DEF IInv
    <3>3. QED
      BY <1>4, <3>1, <3>2, SendStep
  <2>2. PICK z \in SendType :
           sends' = sends \cup {z} /\ z.attempt = 0 /\ z.chain = Len(chains') /\ z.id = 0
    BY <2>1
  <2>3. Typed'
    BY <1>2, <1>3, <2>1, <2>2 DEF IInv, Typed
  <2>4. OneToken' /\ Placed'
    <3>1. \A s \in sends : s.chain # z.chain
      BY <1>3, <2>2 DEF IInv, OneToken
    <3>2. \A e \in Held' : e.chain # z.chain
      BY <1>2, <1>3, <2>2 DEF IInv, OneToken
    <3>3. QED
      BY <1>2, <1>3, <2>2, <3>1, <3>2, NewToken DEF IInv
  <2>5. QED
    BY <2>1, <2>3, <2>4 DEF IInv
<1>5. CASE /\ lastReply' = [base |-> t, variant |-> NextVariant(t)]
           /\ dropped' = TRUE
           /\ UNCHANGED <<sends, handed>>
  <2>1. lastReply' \in TextType
    BY <1>5, NextVariantRange DEF IInv, TextType
  <2>2. Typed'
    BY <1>2, <1>3, <1>5, <2>1 DEF IInv, Typed
  <2>3. OneToken'
    BY <1>2, <1>3, <1>5 DEF IInv, OneToken
  <2>4. Placed'
    BY <1>2, <1>5 DEF IInv, Placed
  <2>5. Remembered' /\ NeverTheSameTwice'
    BY <1>2, <1>5 DEF IInv, Remembered, NeverTheSameTwice
  <2>6. QED
    BY <2>2, <2>3, <2>4, <2>5 DEF IInv
<1>6. QED
  BY <1>1, <1>4, <1>5

LEMMA PostedStep == ASSUME IInv, NEW s \in sends, Posted(s) PROVE IInv'
<1> DEFINE y == [s EXCEPT !.id = Len(room')]
<1>1. /\ s.id = 0 /\ s \in SendType
      /\ room' = Append(room, [text |-> s.text, deleted |-> FALSE])
      /\ sends' = (sends \ {s}) \cup {y}
      /\ UNCHANGED <<online, tracked, waiting, Held, lastReply, chains, handed, dropped, upsets>>
  BY DEF Posted, IInv, Typed, Held
<1>2. /\ room' \in Seq([text : TextType, deleted : BOOLEAN])
      /\ Len(room) \in Nat /\ Len(room') = Len(room) + 1
      /\ room'[Len(room')].text = s.text
      /\ \A i \in 1..Len(room) : room'[i] = room[i]
  <2>1. [text |-> s.text, deleted |-> FALSE] \in [text : TextType, deleted : BOOLEAN]
    BY <1>1 DEF SendType
  <2>2. QED
    BY <1>1, <2>1 DEF IInv, Typed
<1>3. /\ y \in SendType /\ y.id = Len(room') /\ y.text = s.text
      /\ y.chain = s.chain /\ y.attempt = s.attempt
  BY <1>1, <1>2 DEF SendType
<1> HIDE DEF y
<1>4. Typed'
  BY <1>1, <1>2, <1>3 DEF IInv, Typed
<1>5. OneToken'
  BY <1>1, <1>3 DEF IInv, OneToken
<1>6. Placed'
  <2>1. \A z \in sends' : z.id \in 0..Len(room') /\ (z.id # 0 => room'[z.id].text = z.text)
    BY <1>1, <1>2, <1>3 DEF IInv, Placed
  <2>2. \A e \in Held' :
           e.id \in DOMAIN room' /\ e.id # Len(room') /\ e.base = room'[e.id].text.base
    BY <1>1, <1>2 DEF IInv, Placed, Typed
  <2>3. \A x, z \in sends' : x.id # 0 /\ x.id = z.id => x = z
    BY <1>1, <1>2, <1>3 DEF IInv, Placed
  <2>4. \A x \in sends', e \in Held' : x.id # e.id
    BY <1>1, <1>3, <2>2 DEF IInv, Placed
  <2>5. QED
    BY <1>1, <2>1, <2>2, <2>3, <2>4 DEF IInv, Placed
<1>7. QED
  BY <1>1, <1>4, <1>5, <1>6 DEF IInv, Remembered, NeverTheSameTwice

LEMMA AnsweredStep == ASSUME IInv, NEW s \in sends, Answered(s) PROVE IInv'
<1>1. /\ s.id # 0 /\ s \in SendType /\ sends' = sends \ {s}
      /\ tracked' = tracked \/ tracked' = tracked \cup {Tracks(s)}
      /\ Held' = Held \/ Held' = Held \cup {Tracks(s)}
      /\ UNCHANGED <<online, room, waiting, lastReply, chains, handed, dropped, upsets>>
  BY DEF Answered, IInv, Typed, Held
<1>2. PICK e : e = Tracks(s)
  OBVIOUS
<1>3. /\ e \in TrackType /\ e.id = s.id /\ e.base = s.text.base
      /\ e.chain = s.chain /\ e.attempt = s.attempt
  BY <1>1, <1>2 DEF Tracks, SendType, TrackType, TextType
<1>4. Typed'
  <2>1. e \notin waiting
    BY <1>3 DEF IInv, OneToken, Held
  <2>2. QED
    BY <1>1, <1>2, <1>3, <2>1 DEF IInv, Typed
<1>5. OneToken'
  BY <1>1, <1>2, <1>3 DEF IInv, OneToken
<1>6. Placed'
  <2>1. s.id \in DOMAIN room /\ room[s.id].text = s.text
    BY <1>1 DEF IInv, Placed, Typed
  <2>2. \A f \in Held' : f.id \in DOMAIN room' /\ f.base = room'[f.id].text.base
    BY <1>1, <1>2, <1>3, <2>1 DEF IInv, Placed
  <2>3. \A f, g \in Held' : f.id = g.id => f = g
    BY <1>1, <1>2, <1>3 DEF IInv, Placed
  <2>4. \A z \in sends', f \in Held' : z.id # f.id
    BY <1>1, <1>2, <1>3 DEF IInv, Placed
  <2>5. QED
    BY <1>1, <2>2, <2>3, <2>4 DEF IInv, Placed
<1>7. QED
  BY <1>1, <1>4, <1>5, <1>6 DEF IInv, Remembered, NeverTheSameTwice

LEMMA DeletedStep == ASSUME IInv, NEW i \in DOMAIN room, Deleted(i) PROVE IInv'
<1>1. /\ room' = [room EXCEPT ![i].deleted = TRUE]
      /\ UNCHANGED <<online, sends, tracked, waiting, Held, lastReply, chains, handed, dropped, upsets>>
  BY DEF Deleted, Held
<1>2. /\ room' \in Seq([text : TextType, deleted : BOOLEAN])
      /\ Len(room') = Len(room) /\ DOMAIN room' = DOMAIN room
      /\ \A j \in DOMAIN room : room'[j].text = room[j].text
  <2>1. room \in Seq([text : TextType, deleted : BOOLEAN]) /\ i \in 1..Len(room)
    BY DEF IInv, Typed
  <2>2. room[i] \in [text : TextType, deleted : BOOLEAN]
    BY <2>1, ElementOfSeq, Zenon
  <2>3. \A m \in [text : TextType, deleted : BOOLEAN] :
           /\ [m EXCEPT !.deleted = TRUE] \in [text : TextType, deleted : BOOLEAN]
           /\ [m EXCEPT !.deleted = TRUE].text = m.text
    OBVIOUS
  <2>4. PICK r \in [text : TextType, deleted : BOOLEAN] :
           r = [room[i] EXCEPT !.deleted = TRUE] /\ r.text = room[i].text
    BY <2>2, <2>3, Zenon
  <2>5. room' = [room EXCEPT ![i] = r]
    BY <1>1, <2>4
  <2>6. QED
    BY <2>4, <2>5 DEF IInv, Typed
<1>3. Typed'
  BY <1>1, <1>2 DEF IInv, Typed
<1>4. OneToken'
  BY <1>1 DEF IInv, OneToken
<1>5. Placed'
  BY <1>1, <1>2 DEF IInv, Placed, Typed
<1>6. QED
  BY <1>1, <1>3, <1>4, <1>5 DEF IInv, Remembered, NeverTheSameTwice

\* The only step that adds to a reply's resends: it has the only token of that
\* reply in its hands, and the token says that there is a resend left.
LEMMA ResendStep ==
    ASSUME IInv, NEW e \in Held, e.attempt < MAX_RESENDS, Resend(e),
           tracked' \subseteq tracked, waiting' \subseteq waiting, e \notin Held',
           UNCHANGED <<online, room, upsets>>
    PROVE  IInv'
<1>1. /\ e \in TrackType /\ e.chain \in DOMAIN chains /\ e.attempt = chains[e.chain]
      /\ Held' \subseteq Held
  BY DEF IInv, Typed, OneToken, Held
<1>2. CASE UNCHANGED <<sends, Again>>
  <2>1. Typed'
    BY <1>2 DEF IInv, Typed, Again
  <2>2. OneToken'
    BY <1>1, <1>2 DEF IInv, OneToken, Again
  <2>3. Placed'
    BY <1>1, <1>2 DEF IInv, Placed
  <2>4. QED
    BY <1>2, <2>1, <2>2, <2>3 DEF IInv, Remembered, NeverTheSameTwice, Again
<1>3. CASE /\ Send(e.base, e.attempt + 1, e.chain)
           /\ chains' = [chains EXCEPT ![e.chain] = @ + 1]
  <2>1. e.base \in Texts /\ e.chain \in Nat /\ e.attempt + 1 \in 0..MAX_RESENDS
    BY <1>1, Ranges DEF TrackType
  <2>2. /\ lastReply' \in TextType /\ handed' \in HandedType /\ dropped' = FALSE
        /\ Remembered' /\ NeverTheSameTwice'
        /\ \E z \in SendType :
              sends' = sends \cup {z} /\ z.attempt = e.attempt + 1 /\ z.chain = e.chain /\ z.id = 0
    <3>1. Typed /\ Remembered /\ UNCHANGED upsets
      BY DEF IInv
    <3>2. QED
      BY <1>3, <2>1, <3>1, SendStep
  <2>3. PICK z \in SendType :
           sends' = sends \cup {z} /\ z.attempt = e.attempt + 1 /\ z.chain = e.chain /\ z.id = 0
    BY <2>2
  <2>4. /\ chains' \in Seq(0..MAX_RESENDS)
        /\ DOMAIN chains' = DOMAIN chains
        /\ chains'[e.chain] = e.attempt + 1
        /\ \A c \in DOMAIN chains : c # e.chain => chains'[c] = chains[c]
    <3>1. chains' = [chains EXCEPT ![e.chain] = e.attempt + 1]
      BY <1>1, <1>3
    <3>2. QED
      BY <1>1, <2>1, <3>1 DEF IInv, Typed
  <2>5. Typed'
    BY <2>2, <2>3, <2>4 DEF IInv, Typed
  <2>6. OneToken' /\ Placed'
    <3>1. \A s \in sends : s.chain # z.chain
      BY <2>3 DEF IInv, OneToken
    <3>2. \A f \in Held' : f.chain # z.chain
      BY <1>1, <2>3 DEF IInv, OneToken
    <3>3. QED
      BY <1>1, <2>3, <2>4, <3>1, <3>2, NewToken DEF IInv
  <2>7. QED
    BY <2>2, <2>5, <2>6 DEF IInv
<1>4. QED
  BY <1>2, <1>3 DEF Resend

LEMMA NoticedStep == ASSUME IInv, NEW e \in tracked, Noticed(e) PROVE IInv'
<1>1. /\ tracked' = tracked \ {e}
      /\ UNCHANGED <<online, room, upsets>>
      /\ e \in TrackType /\ e \in Held /\ e \notin waiting
  BY DEF Noticed, Unclaimed, IInv, Typed, Held
<1>2. CASE e.attempt < MAX_RESENDS /\ Resend(e) /\ UNCHANGED waiting
  <2>1. tracked' \subseteq tracked /\ waiting' \subseteq waiting /\ e \notin Held'
    BY <1>1, <1>2 DEF Held
  <2>2. QED
    BY <1>1, <1>2, <2>1, ResendStep
<1>3. CASE /\ waiting' = waiting \/ (e.attempt < MAX_RESENDS /\ waiting' = waiting \cup {e})
           /\ UNCHANGED <<sends, Again>>
  <2>1. Held' \subseteq Held
    BY <1>1, <1>3 DEF Held
  <2>2. Typed'
    BY <1>1, <1>3 DEF IInv, Typed, Again
  <2>3. OneToken'
    BY <1>3, <2>1 DEF IInv, OneToken, Again
  <2>4. Placed'
    BY <1>1, <1>3, <2>1 DEF IInv, Placed
  <2>5. QED
    BY <1>1, <1>3, <2>2, <2>3, <2>4 DEF IInv, Remembered, NeverTheSameTwice, Again
<1>4. QED
  BY <1>2, <1>3 DEF Noticed

\* What waits had a resend left when it was claimed, and nobody else has its token.
LEMMA JitterStep == ASSUME IInv, NEW e \in waiting, JitterEnds(e) PROVE IInv'
<1>1. /\ waiting' = waiting \ {e} /\ Resend(e)
      /\ UNCHANGED <<online, room, tracked, upsets>>
      /\ e \in Held /\ e \notin tracked /\ e.attempt < MAX_RESENDS
  BY DEF JitterEnds, IInv, Typed, Held
<1>2. tracked' \subseteq tracked /\ waiting' \subseteq waiting /\ e \notin Held'
  BY <1>1 DEF Held
<1>3. QED
  BY <1>1, <1>2, ResendStep

\* Requests lose their client: ids, texts and chains stay.
LEMMA Orphaned ==
    ASSUME IInv, sends' = {[s EXCEPT !.current = FALSE] : s \in sends},
           Held' \subseteq Held, UNCHANGED <<room, chains>>
    PROVE  sends' \subseteq SendType /\ OneToken' /\ Placed'
<1>1. \A z \in sends' : \E s \in sends :
         /\ z = [s EXCEPT !.current = FALSE] /\ z \in SendType
         /\ z.id = s.id /\ z.text = s.text /\ z.chain = s.chain /\ z.attempt = s.attempt
  BY DEF IInv, Typed, SendType
<1>2. OneToken'
  <2>1. \A z \in sends' : z.chain \in DOMAIN chains /\ z.attempt = chains[z.chain]
    BY <1>1 DEF IInv, OneToken
  <2>2. ASSUME NEW y \in sends', NEW z \in sends', y.chain = z.chain PROVE y = z
    <3>1. PICK s \in sends : y = [s EXCEPT !.current = FALSE] /\ y.id = s.id /\ y.chain = s.chain
      BY <1>1
    <3>2. PICK x \in sends : z = [x EXCEPT !.current = FALSE] /\ z.id = x.id /\ z.chain = x.chain
      BY <1>1
    <3>3. s = x
      BY <2>2, <3>1, <3>2 DEF IInv, OneToken
    <3>4. QED
      BY <3>1, <3>2, <3>3
  <2>3. \A z \in sends', e \in Held' : z.chain # e.chain
    BY <1>1 DEF IInv, OneToken
  <2>4. QED
    BY <2>1, <2>2, <2>3 DEF IInv, OneToken
<1>3. Placed'
  <2>1. \A z \in sends' : z.id \in 0..Len(room) /\ (z.id # 0 => room[z.id].text = z.text)
    BY <1>1 DEF IInv, Placed
  <2>2. ASSUME NEW y \in sends', NEW z \in sends', y.id # 0, y.id = z.id PROVE y = z
    <3>1. PICK s \in sends : y = [s EXCEPT !.current = FALSE] /\ y.id = s.id /\ y.chain = s.chain
      BY <1>1
    <3>2. PICK x \in sends : z = [x EXCEPT !.current = FALSE] /\ z.id = x.id /\ z.chain = x.chain
      BY <1>1
    <3>3. s = x
      BY <2>2, <3>1, <3>2 DEF IInv, Placed
    <3>4. QED
      BY <3>1, <3>2, <3>3
  <2>3. \A z \in sends', e \in Held' : z.id # e.id
    BY <1>1 DEF IInv, Placed
  <2>4. QED
    BY <2>1, <2>2, <2>3 DEF IInv, Placed
<1>4. QED
  BY <1>1, <1>2, <1>3

LEMMA UpsetStep ==
    ASSUME IInv, Stop \/ Rebuilt \/ Start \/ Expires \/ (\E s \in sends : Fails(s))
    PROVE  IInv'
<1>1. CASE Stop
  <2>1. /\ sends' = {[s EXCEPT !.current = FALSE] : s \in sends}
        /\ online' \in BOOLEAN /\ tracked' = {} /\ waiting' = {} /\ Held' \subseteq Held
        /\ lastReply' = None
        /\ upsets' = upsets + 1
        /\ UNCHANGED <<room, chains, handed, dropped>>
    BY <1>1 DEF Stop, Upset, Held
  <2>2. sends' \subseteq SendType /\ OneToken' /\ Placed'
    BY <2>1, Orphaned
  <2>3. Typed'
    BY <2>1, <2>2 DEF IInv, Typed
  <2>4. QED
    BY <2>1, <2>2, <2>3 DEF IInv, Typed, Remembered, NeverTheSameTwice
<1>2. CASE Rebuilt
  <2>1. /\ sends' = {[s EXCEPT !.current = FALSE] : s \in sends}
        /\ upsets' = upsets + 1 /\ waiting' = {} /\ Held' \subseteq Held
        /\ UNCHANGED <<online, room, tracked, lastReply, chains, handed, dropped>>
    BY <1>2 DEF Rebuilt, Upset, Held
  <2>2. sends' \subseteq SendType /\ OneToken' /\ Placed'
    BY <2>1, Orphaned
  <2>3. Typed'
    BY <2>1, <2>2 DEF IInv, Typed
  <2>4. QED
    BY <2>1, <2>2, <2>3 DEF IInv, Typed, Remembered, NeverTheSameTwice
<1>3. CASE Start
  <2>1. online' \in BOOLEAN
    BY <1>3 DEF Start
  <2>2. UNCHANGED <<room, sends, tracked, waiting, Held, lastReply, chains, handed, dropped, upsets>>
    BY <1>3 DEF Start, Held
  <2>3. QED
    BY <2>1, <2>2 DEF IInv, Typed, OneToken, Placed, Remembered, NeverTheSameTwice
<1>4. CASE Expires
  <2>1. /\ tracked' \subseteq tracked /\ Held' \subseteq Held /\ lastReply' \in {lastReply, None}
        /\ upsets' = upsets + 1
        /\ UNCHANGED <<online, room, sends, waiting, chains, handed, dropped>>
    BY <1>4 DEF Expires, Upset, Held
  <2>2. Typed'
    BY <2>1 DEF IInv, Typed
  <2>3. OneToken'
    BY <2>1 DEF IInv, OneToken
  <2>4. Placed'
    BY <2>1 DEF IInv, Placed
  <2>5. QED
    BY <2>1, <2>2, <2>3, <2>4 DEF IInv, Typed, Remembered, NeverTheSameTwice
<1>5. CASE \E s \in sends : Fails(s)
  <2>1. /\ sends' \subseteq sends
        /\ UNCHANGED <<online, room, tracked, waiting, Held, lastReply, chains, handed, dropped, upsets>>
    BY <1>5 DEF Fails, Held
  <2>2. Typed'
    BY <2>1 DEF IInv, Typed
  <2>3. OneToken'
    BY <2>1 DEF IInv, OneToken
  <2>4. Placed'
    BY <2>1 DEF IInv, Placed
  <2>5. QED
    BY <2>1, <2>2, <2>3, <2>4 DEF IInv, Remembered, NeverTheSameTwice
<1>6. QED
  BY <1>1, <1>2, <1>3, <1>4, <1>5

-----------------------------------------------------------------------------
LEMMA Invariance == Spec => []IInv
<1>1. Init => IInv
  <2> SUFFICES ASSUME Init PROVE IInv
    OBVIOUS
  <2>1. Typed
    <3>1. room = <<>> /\ chains = <<>> /\ sends = {} /\ tracked = {} /\ waiting = {}
      BY DEF Init
    <3>2. room \in Seq([text : TextType, deleted : BOOLEAN]) /\ chains \in Seq(0..MAX_RESENDS)
      BY <3>1, EmptySeq
    <3>3. handed \in HandedType
      BY DEF Init, HandedType
    <3>4. QED
      BY <3>1, <3>2, <3>3 DEF Init, Typed
  <2>2. OneToken /\ Placed /\ Remembered /\ NeverTheSameTwice
    BY DEF Init, OneToken, Placed, Remembered, NeverTheSameTwice, Held
  <2>3. QED
    BY <2>1, <2>2 DEF IInv
<1>2. IInv /\ [Next]_vars => IInv'
  <2> SUFFICES ASSUME IInv, [Next]_vars PROVE IInv'
    OBVIOUS
  <2>1. CASE Reply
    BY <2>1, ReplyStep
  <2>2. CASE Stop \/ Rebuilt \/ Start \/ Expires \/ (\E s \in sends : Fails(s))
    BY <2>2, UpsetStep
  <2>3. CASE \E s \in sends : Posted(s)
    BY <2>3, PostedStep
  <2>4. CASE \E s \in sends : Answered(s)
    BY <2>4, AnsweredStep
  <2>5. CASE \E i \in DOMAIN room : Deleted(i)
    BY <2>5, DeletedStep
  <2>6. CASE \E e \in tracked : Noticed(e)
    BY <2>6, NoticedStep
  <2>7. CASE \E e \in waiting : JitterEnds(e)
    BY <2>7, JitterStep
  <2>8. CASE UNCHANGED vars
    BY <2>8 DEF vars, IInv, Typed, OneToken, Placed, Remembered, NeverTheSameTwice, Held
  <2>9. QED
    BY <2>1, <2>2, <2>3, <2>4, <2>5, <2>6, <2>7, <2>8 DEF Next
<1>3. QED
  BY <1>1, <1>2, PTL DEF Spec

\* The types, and that each message is tracked once with the resends of its reply.
THEOREM TypeCorrect == Spec => []TypeOK
<1>1. IInv => TypeOK
  BY DEF IInv, Typed, OneToken, Placed, TypeOK, SendType, TrackType, Held
<1>2. QED
  BY <1>1, Invariance, PTL

\* A reply is resent MAX_RESENDS times at most, whatever the limit, however many
\* streams report its deletion and whatever happens to the bot in between.
THEOREM BudgetKept == Spec => []BudgetHolds
<1>1. IInv => BudgetHolds
  BY Ranges DEF IInv, Typed, BudgetHolds
<1>2. QED
  BY <1>1, Invariance, PTL

\* No two texts handed over in a row are the same bytes, for any number of marks
\* from two on, as long as nothing was refused or forgotten between them.
THEOREM NeverRepeats == Spec => []NeverTheSameTwice
<1>1. IInv => NeverTheSameTwice
  BY DEF IInv
<1>2. QED
  BY <1>1, Invariance, PTL

=============================================================================
