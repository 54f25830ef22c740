----------------------------- MODULE ReplyPipeline -----------------------------
(***************************************************************************)
(* How the bots of one process answer the messages of one room:            *)
(* handleIncoming of bot/session-manager.ts with the claims of             *)
(* bot/reply-guard.ts, the hand-off of bot/primary-bot.ts, the variants of *)
(* bot/reply-defense.ts and the echo tracking of                           *)
(* bot/automatic-reply-echo.ts.                                            *)
(*                                                                         *)
(* Several bots of one owner sit in the room on purpose.  Each is told of  *)
(* every message, by push and by its poller, in any order and any number   *)
(* of times, its own and its siblings' replies included.  From the delivery to *)
(* the request handed to the network there is no await, so handleIncoming  *)
(* is one action; LINE posts the reply and answers the request later.      *)
(***************************************************************************)
EXTENDS Naturals, Sequences, FiniteSets

CONSTANTS
    Bots,           \* the bots in the room, with the chat enabled
    OwnerOf,        \* the owner of each bot, or None
    Age,            \* the order the bots were created in
    Rule,           \* per bot, what it replies to each text, or None
    Texts,
    HumanTexts,     \* what is posted by hand
    Posters,        \* and by whom: None for people, or the account of a bot
    None,
    Square,         \* the room is an OpenChat, the only kind with a hand-off
    OwnerTesting,   \* bots that answer their own account's messages
    Events,         \* what may happen besides messages, of AllEvents
    Variants,       \* length of VARIANT_MARKS
    MaxClaims,      \* MAX_CLAIMS
    MaxMessages,    \* bound on the messages of the room
    MaxUpsets       \* bound on stops, lost listeners and expiries

AllEvents == {"stop", "listener", "handpick", "lost", "refused", "expired", "forgotten"}

ASSUME PipelineAssumption ==
    /\ OwnerOf \in [Bots -> {OwnerOf[b] : b \in Bots}]
    /\ Age \in [Bots -> Nat]
    /\ Rule \in [Bots -> [Texts -> Texts \cup {None}]]
    /\ HumanTexts \subseteq Texts /\ Posters \subseteq {None} \cup Bots
    /\ OwnerTesting \subseteq Bots /\ Events \subseteq AllEvents
    /\ Square \in BOOLEAN
    /\ MaxMessages \in Nat /\ MaxUpsets \in Nat
    /\ Variants \in Nat \ {0} /\ MaxClaims \in Nat \ {0}

VARIABLES
    session,        \* per bot: no runtime, a client that listens, or a reconnect under way
    selfKnown,      \* bots whose own member mid in the room is resolved
    primary,        \* the bot chosen by hand to answer in the room, or None
    room,           \* the messages LINE has posted
    seenIncoming, claims, roomAnswers,  \* the maps of reply-guard.ts, oldest entry first
    last,           \* lastReplyByChat
    pendingReplies, seenMessageIds,     \* the maps of automatic-reply-echo.ts
    sends,          \* requests LINE has not answered yet
    begun,          \* history: how many replies an owner began to each message
    released,       \* history: <<owner, message>> whose room claim was given up
    tracked,        \* history: signatures some reply was tracked under
    repeated,       \* history: signatures tracked a second time
    upsets          \* stops, lost listeners and expiries so far

guards == <<seenIncoming, claims, roomAnswers>>
echoes == <<pendingReplies, seenMessageIds>>
history == <<begun, released, tracked, repeated>>
vars == <<session, selfKnown, primary, room, guards, last, echoes, sends, history, upsets>>

Ids == 1..MaxMessages

\* replyOwnerKey.
Key(b) == IF OwnerOf[b] = None THEN b ELSE OwnerOf[b]

Keys == {Key(b) : b \in Bots}

Human == None

Init ==
    /\ session = [b \in Bots |-> "on"]
    /\ selfKnown = {}
    /\ primary = None
    /\ room = <<>>
    /\ seenIncoming = <<>> /\ claims = <<>> /\ roomAnswers = <<>>
    /\ last = [b \in Bots |-> None]
    /\ pendingReplies = {} /\ seenMessageIds = {}
    /\ sends = {}
    /\ begun = [k \in Keys |-> [m \in Ids |-> 0]]
    /\ released = {} /\ tracked = {} /\ repeated = {}
    /\ upsets = 0

-----------------------------------------------------------------------------
\* reply-guard.ts.  A claim is a key and the bot that took it; the maps are
\* ordered by insertion and give up their oldest entry when they are full.
Claimed(map, k) == \E i \in DOMAIN map : map[i].key = k

\* Mutant: nothing is given up at the cap.
ClaimUncapped(map, k, b) == Append(map, [key |-> k, bot |-> b])

Claim(map, k, b) ==
    Append(IF Len(map) < MaxClaims THEN map ELSE Tail(map), [key |-> k, bot |-> b])

\* What is left of a map when a bot's claims go, in the order it had.
Nth(I, n) == CHOOSE i \in I : Cardinality({j \in I : j <= i}) = n

Without(map, b) ==
    LET kept == {i \in DOMAIN map : map[i].bot # b}
    IN  [n \in 1..Cardinality(kept) |-> map[Nth(kept, n)]]

Keyed(map) == {map[i].key : i \in DOMAIN map}

\* Room claims there were and are no more.
Released(kept) == released \cup (Keyed(roomAnswers) \ Keyed(kept))

\* Mutant: siblings do not share the room claim.
RoomKeyPerBot(b, m) == <<b, m>>

RoomKey(b, m) == <<Key(b), m>>

-----------------------------------------------------------------------------
\* primaryBotIdFor, with the fallback of handleIncoming: the chosen answerer if
\* it is online, else the owner's oldest bot that is, else the detecting bot.
Siblings(b) == IF OwnerOf[b] = None THEN {} ELSE {s \in Bots : OwnerOf[s] = OwnerOf[b]}

Sender(b) ==
    LET online == {s \in Siblings(b) : session[s] = "on"} IN
    IF ~ Square \/ Cardinality(Siblings(b)) <= 1 \/ online = {} THEN b
    ELSE IF primary \in online THEN primary
    ELSE CHOOSE s \in online : \A o \in online : Age[s] <= Age[o]

\* uniquifyReply: a repeat of the bot's last reply gets the next invisible mark.
NextVariant(s, reply) ==
    IF last[s] # None /\ last[s].base = reply THEN (last[s].variant + 1) % Variants ELSE 0

-----------------------------------------------------------------------------
\* Mutant: a reply is tracked for the bot that sends it, not for its owner.
EchoScopePerBot(b) == b

EchoScope(b) == Key(b)

Signature(b, text) == [scope |-> EchoScope(b), text |-> text]

\* isAutomaticReplyEcho, for a message not seen before: by its bytes alone.
LooksLikeEcho(b, m) == \E p \in pendingReplies : p.signature = Signature(b, room[m].text)

KnownEcho(b, m) == \E e \in seenMessageIds : e.scope = EchoScope(b) /\ e.id = m

\* The function trackAutomaticReply returns.
Cancelled(pending, t) == {p \in pending : p.token # t}

FreeToken ==
    CHOOSE t \in 0..(Cardinality(sends) + Cardinality(pendingReplies)) :
        (\A s \in sends : s.token # t) /\ (\A p \in pendingReplies : p.token # t)

\* isOwnMessage; an unresolved member mid counts as somebody else's.
Own(b, m) == room[m].author = b /\ (b \in selfKnown \/ ~ Square)

-----------------------------------------------------------------------------
\* handleIncoming, one disjunct per way out of it.
Told(b, m) ==
    /\ session[b] = "on"
    /\ m \in DOMAIN room
    /\ UNCHANGED <<session, selfKnown, primary, room, upsets>>

Duplicate(b, m) ==
    /\ Told(b, m)
    /\ Claimed(seenIncoming, <<b, m>>)
    /\ UNCHANGED <<guards, last, echoes, sends, history>>

FirstSight(b, m) ==
    /\ Told(b, m)
    /\ ~ Claimed(seenIncoming, <<b, m>>)
    /\ seenIncoming' = Claim(seenIncoming, <<b, m>>, b)

Ignored(b, m) == Own(b, m) /\ b \notin OwnerTesting

OwnMessage(b, m) ==
    /\ FirstSight(b, m)
    /\ Ignored(b, m)
    /\ UNCHANGED <<claims, roomAnswers, last, echoes, sends, history>>

Echo(b, m) ==
    /\ FirstSight(b, m)
    /\ ~ Ignored(b, m)
    /\ \/ KnownEcho(b, m) /\ UNCHANGED echoes
       \/ /\ ~ KnownEcho(b, m)
          /\ \E p \in pendingReplies :
                /\ p.signature = Signature(b, room[m].text)
                /\ pendingReplies' = pendingReplies \ {p}
                /\ seenMessageIds' =
                      seenMessageIds \cup {[scope |-> EchoScope(b), id |-> m, bot |-> p.bot]}
    /\ UNCHANGED <<claims, roomAnswers, last, sends, history>>

Strange(b, m) ==
    FirstSight(b, m) /\ ~ Ignored(b, m) /\ ~ KnownEcho(b, m) /\ ~ LooksLikeEcho(b, m)

Matched(b, m) == Rule[b][room[m].text.base]

\* Mutant: the room is claimed before the rules are looked at.
UnansweredClaimsRoom(b, m) ==
    /\ Strange(b, m)
    /\ Matched(b, m) = None \/ Claimed(claims, <<b, m>>)
    /\ roomAnswers' = IF Claimed(roomAnswers, RoomKey(b, m)) THEN roomAnswers
                      ELSE Claim(roomAnswers, RoomKey(b, m), b)
    /\ UNCHANGED <<claims, last, echoes, sends, history>>

Unanswered(b, m) ==
    /\ Strange(b, m)
    /\ Matched(b, m) = None \/ Claimed(claims, <<b, m>>)
    /\ UNCHANGED <<claims, roomAnswers, last, echoes, sends, history>>

\* A sibling got there first.
Outrun(b, m) ==
    /\ Strange(b, m)
    /\ Matched(b, m) # None /\ ~ Claimed(claims, <<b, m>>)
    /\ claims' = Claim(claims, <<b, m>>, b)
    /\ Claimed(roomAnswers, RoomKey(b, m))
    /\ UNCHANGED <<roomAnswers, last, echoes, sends, history>>

\* The reply: handed to the answerer, varied, tracked, and then sent or, when
\* the limiter refuses, dropped and no longer tracked.
Answer(b, m) ==
    LET s == Sender(b)
        reply == Matched(b, m)
        text == [base |-> reply, variant |-> NextVariant(s, reply)]
        signature == Signature(s, text)
        pending == {p \in pendingReplies : p.signature # signature}
    IN
    /\ Strange(b, m)
    /\ reply # None /\ ~ Claimed(claims, <<b, m>>)
    /\ ~ Claimed(roomAnswers, RoomKey(b, m))
    /\ claims' = Claim(claims, <<b, m>>, b)
    /\ roomAnswers' = Claim(roomAnswers, RoomKey(b, m), b)
    /\ last' = [last EXCEPT ![s] = text]
    /\ begun' = [begun EXCEPT ![Key(b)][m] = @ + 1]
    /\ released' = Released(roomAnswers')
    /\ tracked' = tracked \cup {signature}
    /\ repeated' = repeated \cup ({signature} \cap tracked)
    /\ \/ /\ pendingReplies' =
                pending \cup {[signature |-> signature, bot |-> s, token |-> FreeToken]}
          /\ sends' = sends \cup {[token |-> FreeToken, bot |-> s, text |-> text, posted |-> FALSE]}
       \/ /\ "refused" \in Events
          /\ pendingReplies' = pending
          /\ UNCHANGED sends
    /\ UNCHANGED seenMessageIds

Deliver(b, m) ==
    \/ Duplicate(b, m) \/ OwnMessage(b, m) \/ Echo(b, m)
    \/ Unanswered(b, m) \/ Outrun(b, m) \/ Answer(b, m)

-----------------------------------------------------------------------------
\* LINE.
Post(author, text, auto) ==
    /\ Len(room) < MaxMessages
    /\ room' = Append(room, [author |-> author, text |-> text, auto |-> auto])

HumanPosts ==
    /\ \E t \in HumanTexts, a \in Posters :
          Post(a, [base |-> t, variant |-> 0], FALSE)
    /\ UNCHANGED <<session, selfKnown, primary, guards, last, echoes, sends, history, upsets>>

\* The reply is in the room; the answer that says so arrives, or is lost.
ReplyPosted(s) ==
    /\ ~ s.posted
    /\ Post(s.bot, s.text, TRUE)
    /\ \/ sends' = sends \ {s}
       \/ "lost" \in Events /\ sends' = (sends \ {s}) \cup {[s EXCEPT !.posted = TRUE]}
    /\ UNCHANGED <<session, selfKnown, primary, guards, last, echoes, history, upsets>>

\* sendTimed caught an error: the request failed, or its answer was lost.
ReplyFails(s) ==
    /\ sends' = sends \ {s}
    /\ pendingReplies' = Cancelled(pendingReplies, s.token)
    /\ UNCHANGED <<session, selfKnown, primary, room, guards, last, seenMessageIds, history, upsets>>

-----------------------------------------------------------------------------
Upset(event) ==
    /\ event \in Events
    /\ upsets < MaxUpsets
    /\ upsets' = upsets + 1

\* Sessions, as far as the room can tell.  stopBot forgets all the bot claimed
\* and tracked; a new session reads the room's history again.
Stop(b) ==
    /\ Upset("stop")
    /\ session[b] # "off"
    /\ session' = [session EXCEPT ![b] = "off"]
    /\ seenIncoming' = Without(seenIncoming, b)
    /\ claims' = Without(claims, b)
    /\ roomAnswers' = Without(roomAnswers, b)
    /\ released' = Released(roomAnswers')
    /\ pendingReplies' = {p \in pendingReplies : p.bot # b}
    /\ seenMessageIds' = {e \in seenMessageIds : e.bot # b}
    /\ last' = [last EXCEPT ![b] = None]
    /\ UNCHANGED <<selfKnown, primary, room, sends, begun, tracked, repeated>>

ListenerLost(b) ==
    /\ Upset("listener")
    /\ session[b] = "on"
    /\ session' = [session EXCEPT ![b] = "reconnecting"]
    /\ UNCHANGED <<selfKnown, primary, room, guards, last, echoes, sends, history>>

Online(b) ==
    /\ session[b] # "on"
    /\ session' = [session EXCEPT ![b] = "on"]
    /\ UNCHANGED <<selfKnown, primary, room, guards, last, echoes, sends, history, upsets>>

SelfMidResolved(b) ==
    /\ session[b] = "on" /\ b \notin selfKnown /\ \E i \in DOMAIN seenIncoming : seenIncoming[i].bot = b
    /\ selfKnown' = selfKnown \cup {b}
    /\ UNCHANGED <<session, primary, room, guards, last, echoes, sends, history, upsets>>

SetPrimaryBot(b) ==
    /\ "handpick" \in Events
    /\ OwnerOf[b] # None
    /\ primary' = b
    /\ UNCHANGED <<session, selfKnown, room, guards, last, echoes, sends, history, upsets>>

\* CLAIM_TTL_MS passed for the oldest entry of one map.
ClaimExpires ==
    /\ Upset("expired")
    /\ \/ seenIncoming # <<>> /\ seenIncoming' = Tail(seenIncoming) /\ UNCHANGED <<claims, roomAnswers>>
       \/ claims # <<>> /\ claims' = Tail(claims) /\ UNCHANGED <<seenIncoming, roomAnswers>>
       \/ roomAnswers # <<>> /\ roomAnswers' = Tail(roomAnswers) /\ UNCHANGED <<seenIncoming, claims>>
    /\ released' = Released(roomAnswers')
    /\ UNCHANGED <<session, selfKnown, primary, room, last, echoes, sends,
                   begun, tracked, repeated>>

\* ECHO_TTL_MS passed for an entry of either map: evictExpired.
EchoExpires ==
    /\ Upset("forgotten")
    /\ \/ \E p \in pendingReplies :
             pendingReplies' = pendingReplies \ {p} /\ UNCHANGED seenMessageIds
       \/ \E e \in seenMessageIds :
             seenMessageIds' = seenMessageIds \ {e} /\ UNCHANGED pendingReplies
    /\ UNCHANGED <<session, selfKnown, primary, room, guards, last, sends, history>>

Next ==
    \/ \E b \in Bots, m \in Ids : Deliver(b, m)
    \/ \E s \in sends : ReplyPosted(s) \/ ReplyFails(s)
    \/ HumanPosts \/ ClaimExpires \/ EchoExpires
    \/ \E b \in Bots :
          Stop(b) \/ ListenerLost(b) \/ Online(b) \/ SelfMidResolved(b) \/ SetPrimaryBot(b)

Spec == Init /\ [][Next]_vars

-----------------------------------------------------------------------------
TextType == [base : Texts, variant : 0..(Variants - 1)]

ClaimType(keys) == [key : keys, bot : Bots]

TypeOK ==
    /\ session \in [Bots -> {"off", "on", "reconnecting"}]
    /\ selfKnown \subseteq Bots
    /\ primary \in Bots \cup {None}
    /\ room \in Seq([author : Bots \cup {Human}, text : TextType, auto : BOOLEAN])
    /\ seenIncoming \in Seq(ClaimType(Bots \X Ids)) /\ Len(seenIncoming) <= MaxClaims
    /\ claims \in Seq(ClaimType(Bots \X Ids)) /\ Len(claims) <= MaxClaims
    /\ roomAnswers \in Seq(ClaimType(Keys \X Ids)) /\ Len(roomAnswers) <= MaxClaims
    /\ last \in [Bots -> TextType \cup {None}]
    /\ \A p, q \in pendingReplies : p.signature = q.signature \/ p.token = q.token => p = q
    /\ begun \in [Keys -> [Ids -> Nat]]

\* "One answer per message per owner": pushes and polls, siblings and hand-offs
\* begin no second reply to a message unless the claim on it was given up (the
\* bot that took it was stopped, its time was up, or the map was full).
AnswerOnce ==
    \A k \in Keys, m \in Ids : begun[k][m] > 1 => <<k, m>> \in released

\* No bot and no other owner silences a bot that has an answer: a message read
\* by a bot with a rule for it makes its owner begin a reply, unless its bytes
\* are those of a reply of that owner.
TriggersAreAnswered ==
    \A i \in DOMAIN seenIncoming :
        LET b == seenIncoming[i].key[1]
            m == seenIncoming[i].key[2]
        IN  Matched(b, m) # None /\ ~ Ignored(b, m) /\ ~ room[m].auto
            /\ Signature(b, room[m].text) \notin tracked
                => begun[Key(b)][m] > 0

\* Whoever posted m is not one of the bots of an owner.
Foreign(m, key) == ~ room[m].auto \/ Key(room[m].author) # key

\* The same bytes were also somebody else's, a person's or another owner's bot's,
\* or went out twice, so an echo cannot be told by them.
Ambiguous(m) ==
    \/ Signature(room[m].author, room[m].text) \in repeated
    \/ \E n \in DOMAIN room :
          n # m /\ Foreign(n, Key(room[m].author)) /\ room[n].text = room[m].text

\* Bots never answer each other: whichever sibling sent a reply and whichever of
\* them is told of it, with its own member mid still unresolved or not, nobody
\* takes it for a stranger's, as long as its bytes are not also somebody else's.
NoSelfAnswer ==
    \A m \in DOMAIN room :
        room[m].auto /\ ~ Ambiguous(m) => begun[Key(room[m].author)][m] = 0

=============================================================================
