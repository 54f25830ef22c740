------------------------------ MODULE ReplyDefense ------------------------------
(***************************************************************************)
(* How a bot answers the deletion of its replies in one OpenChat room:     *)
(* bot/reply-defense.ts with resendDestroyedReply and noteSquareSendResult *)
(* of bot/session-manager.ts.                                              *)
(*                                                                         *)
(* A reply is tracked under its message id once LINE has answered the      *)
(* request.  A moderator may delete the message before that or after it,   *)
(* the room's events say so to every stream that listens, and the bot's    *)
(* own visibility check may come to the same conclusion on its own.        *)
(***************************************************************************)
EXTENDS Naturals, Sequences, FiniteSets

CONSTANTS
    Texts,          \* what the bot's rules reply with
    Variants,       \* length of VARIANT_MARKS
    MAX_RESENDS,
    None,
    Events,         \* what may happen besides replies and deletions, of AllEvents
    MaxReplies,     \* bound on the replies to people
    MaxUpsets       \* bound on stops and expiries

AllEvents == {"stop", "rebuilt", "expired", "refused", "fails", "jitter"}

ASSUME DefenseAssumption ==
    /\ Variants \in Nat \ {0, 1} /\ MAX_RESENDS \in Nat
    /\ MaxReplies \in Nat /\ MaxUpsets \in Nat
    /\ None \notin [base : Texts, variant : 0..(Variants - 1)]
    /\ Events \subseteq AllEvents

VARIABLES
    online,         \* the bot has a client
    room,           \* the bot's messages LINE has posted, by id
    sends,          \* requests under way
    tracked,        \* the replies a deletion of which would be answered, by id
    waiting,        \* the deleted replies whose resend waits for its jitter
    lastReply,      \* lastReplyByChat: the text and the variant, or None
    chains,         \* history: the resends of each reply to a person
    handed,         \* history: the last two texts handed to the network, or None, and
                    \* whether a reply was refused between them
    dropped,        \* history: a reply was refused since the last of them
    upsets          \* stops and expiries so far

vars == <<online, room, sends, tracked, waiting, lastReply, chains, handed, dropped,
          upsets>>

Init ==
    /\ online = TRUE
    /\ room = <<>>
    /\ sends = {} /\ tracked = {} /\ waiting = {}
    /\ lastReply = None
    /\ chains = <<>>
    /\ handed = [before |-> None, latest |-> None, dropped |-> FALSE]
    /\ dropped = FALSE
    /\ upsets = 0

-----------------------------------------------------------------------------
\* Mutant: a resend starts from the bare text again.
NextVariantFresh(t) == 0

\* nextVariant: only the last reply is remembered.
NextVariant(t) ==
    IF lastReply # None /\ lastReply.base = t THEN (lastReply.variant + 1) % Variants ELSE 0

\* uniquifyReply and resendText, and the request handed to the network.
Send(t, attempt, chain) ==
    LET text == [base |-> t, variant |-> NextVariant(t)] IN
    /\ lastReply' = text
    /\ handed' = [before |-> handed.latest, latest |-> text, dropped |-> dropped]
    /\ dropped' = FALSE
    /\ sends' = sends \cup {[text |-> text, attempt |-> attempt, chain |-> chain,
                             id |-> 0, current |-> TRUE]}

\* handleIncoming answers a person.  A reply the limiter refuses was already
\* counted as the last one.
Reply ==
    /\ online
    /\ Len(chains) < MaxReplies
    /\ chains' = Append(chains, 0)
    /\ \E t \in Texts :
          \/ Send(t, 0, Len(chains'))
          \/ /\ "refused" \in Events
             /\ lastReply' = [base |-> t, variant |-> NextVariant(t)]
             /\ dropped' = TRUE
             /\ UNCHANGED <<sends, handed>>
    /\ UNCHANGED <<online, room, tracked, waiting, upsets>>

\* LINE posts the message; its answer is still on its way.
Posted(s) ==
    /\ s.id = 0
    /\ room' = Append(room, [text |-> s.text, deleted |-> FALSE])
    /\ sends' = (sends \ {s}) \cup {[s EXCEPT !.id = Len(room')]}
    /\ UNCHANGED <<online, tracked, waiting, lastReply, chains, handed, dropped, upsets>>

\* trackSentReply: only the rule's text is kept, not the variant.
Tracks(s) == [id |-> s.id, base |-> s.text.base, attempt |-> s.attempt, chain |-> s.chain]

\* noteSquareSendResult.  A resend whose client is gone is not tracked; a reply
\* is tracked all the same.
Answered(s) ==
    /\ s.id # 0
    /\ sends' = sends \ {s}
    /\ tracked' = IF s.attempt > 0 /\ ~ s.current THEN tracked ELSE tracked \cup {Tracks(s)}
    /\ UNCHANGED <<online, room, waiting, lastReply, chains, handed, dropped, upsets>>

\* The request throws, or LINE's answer to it is lost.
Fails(s) ==
    /\ "fails" \in Events
    /\ sends' = sends \ {s}
    /\ UNCHANGED <<online, room, tracked, waiting, lastReply, chains, handed, dropped, upsets>>

Deleted(i) ==
    /\ ~ room[i].deleted
    /\ room' = [room EXCEPT ![i].deleted = TRUE]
    /\ UNCHANGED <<online, sends, tracked, waiting, lastReply, chains, handed, dropped, upsets>>

-----------------------------------------------------------------------------
\* Mutant: a deletion may be answered by every stream that reports it.
UnclaimedKept(e) == tracked

Unclaimed(e) == tracked \ {e}

Again == <<lastReply, chains, handed, dropped>>

\* resendDestroyedReply, once its jitter is over; the limiter may refuse it.
Resend(e) ==
    \/ /\ Send(e.base, e.attempt + 1, e.chain)
       /\ chains' = [chains EXCEPT ![e.chain] = @ + 1]
    \/ "refused" \in Events /\ UNCHANGED <<sends, Again>>

\* onSquareEvent, or the visibility check of noteSquareSendResult: claimResend,
\* then resendDestroyedReply unless the resends are spent.  Nothing of it depends
\* on which of the two came, or how often.
Noticed(e) ==
    /\ online
    /\ room[e.id].deleted
    /\ tracked' = Unclaimed(e)
    /\ \/ e.attempt >= MAX_RESENDS /\ UNCHANGED <<sends, waiting, Again>>
       \/ e.attempt < MAX_RESENDS /\ Resend(e) /\ UNCHANGED waiting
       \/ /\ "jitter" \in Events /\ e.attempt < MAX_RESENDS
          /\ waiting' = waiting \cup {e}
          /\ UNCHANGED <<sends, Again>>
    /\ UNCHANGED <<online, room, upsets>>

JitterEnds(e) ==
    /\ waiting' = waiting \ {e}
    /\ Resend(e)
    /\ UNCHANGED <<online, room, tracked, upsets>>

-----------------------------------------------------------------------------
Upset(event) ==
    /\ event \in Events
    /\ upsets < MaxUpsets
    /\ upsets' = upsets + 1

\* stopBot: clearTrackedReplies.  The requests under way are not taken back; a
\* resend that waits finds its client gone.
Stop ==
    /\ Upset("stop")
    /\ online
    /\ online' = FALSE
    /\ tracked' = {} /\ waiting' = {}
    /\ lastReply' = None
    /\ sends' = {[s EXCEPT !.current = FALSE] : s \in sends}
    /\ UNCHANGED <<room, chains, handed, dropped>>

\* The watchdog or a lost listener put a new client in place.
Rebuilt ==
    /\ Upset("rebuilt")
    /\ online
    /\ sends' = {[s EXCEPT !.current = FALSE] : s \in sends}
    /\ waiting' = {}
    /\ UNCHANGED <<online, room, tracked, lastReply, chains, handed, dropped>>

Start ==
    /\ ~ online
    /\ online' = TRUE
    /\ UNCHANGED <<room, sends, tracked, waiting, lastReply, chains, handed, dropped, upsets>>

\* TTL_MS for one reply, REPEAT_WINDOW_MS for the last one.
Expires ==
    /\ Upset("expired")
    /\ \/ \E e \in tracked : tracked' = tracked \ {e} /\ UNCHANGED lastReply
       \/ lastReply # None /\ lastReply' = None /\ UNCHANGED tracked
    /\ UNCHANGED <<online, room, sends, waiting, chains, handed, dropped>>

Next ==
    \/ Reply \/ Stop \/ Rebuilt \/ Start \/ Expires
    \/ \E s \in sends : Posted(s) \/ Answered(s) \/ Fails(s)
    \/ \E i \in DOMAIN room : Deleted(i)
    \/ \E e \in tracked : Noticed(e)
    \/ \E e \in waiting : JitterEnds(e)

Spec == Init /\ [][Next]_vars

-----------------------------------------------------------------------------
TextType == [base : Texts, variant : 0..(Variants - 1)]

\* The types, and that a message is tracked once, with the resends it stands for.
TypeOK ==
    /\ online \in BOOLEAN
    /\ room \in Seq([text : TextType, deleted : BOOLEAN])
    /\ \A s \in sends :
          /\ s.text \in TextType /\ s.attempt \in 0..MAX_RESENDS
          /\ s.chain \in DOMAIN chains /\ s.id \in 0..Len(room)
    /\ \A e \in tracked \cup waiting :
          /\ e.id \in DOMAIN room /\ e.base = room[e.id].text.base
          /\ e.attempt = chains[e.chain]
          /\ \A f \in tracked \cup waiting : e.id = f.id => e = f
    /\ lastReply \in TextType \cup {None}

\* However often a deletion is reported, and however often the resend is deleted
\* in turn, a reply is resent MAX_RESENDS times and no more: the room is not
\* flooded by a bot that fights a moderator.
BudgetHolds == \A c \in DOMAIN chains : chains[c] <= MAX_RESENDS

\* No two messages the bot hands to the network one after the other have the
\* same bytes, whichever of them are resends, unless it forgot the first of them
\* or a reply was refused in between.
NeverTheSameTwice ==
    handed.latest # None /\ upsets = 0 /\ ~ handed.dropped => handed.before # handed.latest

=============================================================================
