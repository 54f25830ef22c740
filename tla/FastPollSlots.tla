----------------------------- MODULE FastPollSlots -----------------------------
(***************************************************************************)
(* Which bot of a process polls which OpenChat, and how fast.  Polling     *)
(* without a pause is a budget of the process: FastSquarePollSlotPool      *)
(* (bot/fast-square-poller.ts) hands it out, syncFastSquarePollers         *)
(* (bot/session-manager.ts) brings one bot's pollers in line with the      *)
(* rooms it may answer in, and every start, stop and edit calls it.        *)
(*                                                                         *)
(* A call runs to its end before anything else does, the calls it makes    *)
(* for other bots included: one action is one such run.  What traffic a    *)
(* room sees is open, and so is the order in which a Map lists the bots.   *)
(***************************************************************************)
EXTENDS Naturals, FiniteSets, SequencesExt

CONSTANTS
    Bots,
    Owner,      \* Owner[b]: replyOwnerKey
    Rooms,      \* OpenChats
    Joined,     \* Joined[b]: those in its chats
    Capacity,   \* FAST_SQUARE_POLL_SLOTS
    Edited,     \* bound: the bots whose rooms and rules an operator changes
    NoRoom

ASSUME SlotAssumption ==
    /\ IsFiniteSet(Bots)
    /\ Edited \subseteq Bots
    /\ Capacity \in Nat \ {0}
    /\ DOMAIN Owner = Bots
    /\ Joined \in [Bots -> SUBSET Rooms]
    /\ NoRoom \notin Rooms

VARIABLES
    session,    \* none: no runtime; login; failed: a runtime without a client; online
    blocked,    \* fastSquarePollBlocked
    enabled,    \* enabled[b]: its enabled OpenChats (chats.enabled)
    rules,      \* botCanAnswerSquare
    room,       \* room[b]: the OpenChat its poller is on, or NoRoom
    pace,       \* the pace of that poller (fastSquarePollIntervalMs): fast, slow, off
    slots,      \* the bots of the pool
    rebalance,  \* fastSlotRebalanceScheduled
    saving,     \* bots with a stored rule edit that still awaits prewarmReplyText
    unsynced,   \* history: online bots whose rules changed with no call to follow
    denied      \* history: rooms that denied a bot since it was last started

worldVars == <<session, blocked, enabled, rules>>
poolVars == <<room, pace, slots, rebalance, unsynced>>
slotVars == <<worldVars, poolVars, saving, denied>>

\* What syncFastSquarePollers reads and what it changes, as values: a handler
\* changes the first and makes any number of calls that change the second.
World == [session |-> session, blocked |-> blocked, enabled |-> enabled, rules |-> rules]

Pool == [room |-> room, pace |-> pace, slots |-> slots, rebalance |-> rebalance,
         unsynced |-> unsynced]

Becomes(w, p) ==
    /\ session' = w.session /\ blocked' = w.blocked
    /\ enabled' = w.enabled /\ rules' = w.rules
    /\ room' = p.room /\ pace' = p.pace /\ slots' = p.slots
    /\ rebalance' = p.rebalance /\ unsynced' = p.unsynced

\* The favourite of each bot: where the traffic points selectFastPollRooms.
Favourites == {f \in [Bots -> Rooms] : \A b \in Bots : f[b] \in Joined[b]}

\* A higher limit may have been in force when the rooms were enabled.
SlotInit ==
    /\ session = [b \in Bots |-> "none"]
    /\ blocked = [b \in Bots |-> {}]
    /\ enabled \in {e \in [Bots -> SUBSET Rooms] : \A b \in Bots : e[b] \subseteq Joined[b]}
    /\ rules \in [Bots -> BOOLEAN]
    /\ \A b \in Bots \ Edited : rules[b] /\ enabled[b] # {}
    /\ room = [b \in Bots |-> NoRoom]
    /\ pace = [b \in Bots |-> "off"]
    /\ slots = {} /\ rebalance = FALSE
    /\ saving = {} /\ unsynced = {}
    /\ denied = [b \in Bots |-> {}]

Online == {b \in Bots : session[b] = "online"}

-----------------------------------------------------------------------------
\* fastPollCandidates, less the rooms LINE denied.
Candidates(w, b) == IF w.rules[b] THEN w.enabled[b] \ w.blocked[b] ELSE {}

\* selectFastPollRooms for one room.
Selected(w, b, favourite) ==
    LET C == Candidates(w, b)
    IN  CASE C = {} -> NoRoom
          [] favourite[b] \in C -> favourite[b]
          [] OTHER -> CHOOSE r \in C : TRUE

\* FastSquarePollSlotPool.acquire.
Acquire(taken, b) ==
    IF b \in taken \/ Cardinality(taken) < Capacity THEN taken \cup {b} ELSE taken

\* Mutant: nobody hears of a slot that a bot without rooms gives back.
FreedQuietly(p, b, want) == FALSE

\* releasedFastSlot.
Freed(p, b, want) == want = NoRoom /\ b \in p.slots

\* syncFastSquarePollers without the calls for the siblings: a change of pace
\* restarts the pollers, so a poller always goes at the pace of its bot.
Align(p, b, w, favourite) ==
    LET want == Selected(w, b, favourite)
        taken == IF want = NoRoom THEN p.slots \ {b} ELSE Acquire(p.slots, b)
    IN  [p EXCEPT !.room[b] = want,
                  !.pace[b] = CASE want = NoRoom -> "off"
                                 [] b \in taken -> "fast"
                                 [] OTHER       -> "slow",
                  !.slots = taken,
                  !.rebalance = @ \/ Freed(p, b, want),
                  !.unsynced = @ \ {b}]

Siblings(b) == {a \in Bots \ {b} : Owner[a] = Owner[b]}

\* The siblings of b in the order of a list, after b itself.
Followed(p, b, list, w, favourite) ==
    LET follows(a) == a \in Siblings(b) /\ w.session[a] = "online"
        q[n \in 0..Len(list)] ==
            IF n = 0 THEN Align(p, b, w, favourite)
            ELSE IF follows(list[n]) THEN Align(q[n - 1], list[n], w, favourite)
            ELSE q[n - 1]
    IN  q

\* syncFastSquarePollers: when the room changed, the siblings follow and no further.
Sync(p, b, list, w, favourite) ==
    LET q == Followed(p, b, list, w, favourite)
    IN  IF w.session[b] # "online" THEN p
        ELSE IF q[0].room[b] = p.room[b] THEN q[0]
        ELSE q[Len(list)]

\* Calls for the bots of a list, one after the other.
Synced(p, list, w, favourite) ==
    LET q[n \in 0..Len(list)] ==
            IF n = 0 THEN p ELSE Sync(q[n - 1], list[n], list, w, favourite)
    IN  q

\* A handler changes what the calls read to w, and calls for the bots of one of
\* the lists.
Handles(w, p, lists) ==
    \E list \in lists, favourite \in Favourites :
        Becomes(w, Synced(p, list, w, favourite)[Len(list)])

SyncOne(w, p, b) ==
    \E list \in SetToSeqs(Siblings(b)), favourite \in Favourites :
        Becomes(w, Sync(p, b, list, w, favourite))

-----------------------------------------------------------------------------
(* Sessions. *)

\* The abort listener of a session stops its pollers.
Silenced(b) == [Pool EXCEPT !.room[b] = NoRoom, !.pace[b] = "off", !.unsynced = @ \ {b}]

\* Mutant: the pollers of a session that is lost go on.
LostQuietly(b) ==
    /\ session[b] = "online"
    /\ Becomes([World EXCEPT !.session[b] = "login"], Pool)
    /\ UNCHANGED <<saving, denied>>

\* The health check, or the loss of the event stream, drops the session and logs
\* in again: the abort listener stops the pollers, the slot stays.
Lost(b) ==
    /\ session[b] = "online"
    /\ Becomes([World EXCEPT !.session[b] = "login"], Silenced(b))
    /\ UNCHANGED <<saving, denied>>

\* startBot: an operator's start gives denied rooms another chance.
Start(b) ==
    /\ session[b] \in {"none", "failed"}
    /\ Becomes([World EXCEPT !.session[b] = "login", !.blocked[b] = {}], Pool)
    /\ denied' = [denied EXCEPT ![b] = {}]
    /\ UNCHANGED saving

\* Mutant: the slots are dealt anew, the newcomer first.
LoginDealsAnew(b) ==
    /\ session[b] = "login"
    /\ Handles([World EXCEPT !.session[b] = "online"], [Pool EXCEPT !.slots = {}],
               {<<b>> \o others : others \in SetToSeqs(Bots \ {b})})
    /\ UNCHANGED <<saving, denied>>

\* wireListeners: its own pollers first, then those of every other bot.
LoginSucceeds(b) ==
    /\ session[b] = "login"
    /\ Handles([World EXCEPT !.session[b] = "online"], Pool,
               {<<b>> \o others : others \in SetToSeqs(Bots \ {b})})
    /\ UNCHANGED <<saving, denied>>

\* The login fails or the identity lock refuses the account: no session, and no
\* call for the pollers either.
LoginFails(b) ==
    /\ session[b] = "login"
    /\ Becomes([World EXCEPT !.session[b] = "failed"], Pool)
    /\ UNCHANGED <<saving, denied>>

\* stopBot: the runtime goes, then every other bot may take what it leaves.
Stop(b) ==
    /\ Handles([World EXCEPT !.session[b] = "none", !.blocked[b] = {}],
               [Silenced(b) EXCEPT !.slots = @ \ {b}],
               SetToSeqs(Bots \ {b}))
    /\ denied' = [denied EXCEPT ![b] = {}]
    /\ UNCHANGED saving

-----------------------------------------------------------------------------
(* Settings. *)

\* PATCH /chats/:mid.  A second OpenChat is refused: the limit is the poll budget.
Enable(b, r) ==
    /\ enabled[b] = {}
    /\ SyncOne([World EXCEPT !.enabled[b] = {r}], Pool, b)
    /\ UNCHANGED <<saving, denied>>

Disable(b, r) ==
    /\ r \in enabled[b]
    /\ SyncOne([World EXCEPT !.enabled[b] = @ \ {r}], Pool, b)
    /\ UNCHANGED <<saving, denied>>

\* POST /rules and PUT /rules/:id store the rule, then await prewarmReplyText,
\* which has nothing to do for a bot without a session.
SaveRule(b, answers) ==
    /\ rules[b] # answers
    /\ Becomes([World EXCEPT !.rules[b] = answers], Pool)
    /\ saving' = IF session[b] = "online" THEN saving \cup {b} ELSE saving
    /\ UNCHANGED denied

RuleSaved(b) ==
    /\ b \in saving
    /\ SyncOne(World, Pool, b)
    /\ saving' = saving \ {b}
    /\ UNCHANGED denied

\* DELETE /rules/:id of the last rule that covers OpenChats.
DeleteRule(b) ==
    /\ rules[b]
    /\ SyncOne([World EXCEPT !.rules[b] = FALSE], Pool, b)
    /\ UNCHANGED <<saving, denied>>

\* POST /chats/:mid/copy-config: copyRoomConfig creates rules, and nothing calls
\* syncFastSquarePollers.
CopyConfig(a, b) ==
    /\ a # b /\ Owner[a] = Owner[b]
    /\ rules[a] /\ ~rules[b]
    /\ Becomes([World EXCEPT !.rules[b] = TRUE], [Pool EXCEPT !.unsynced = @ \cup ({b} \cap Online)])
    /\ UNCHANGED <<saving, denied>>

-----------------------------------------------------------------------------
(* While the pollers run. *)

\* Mutant: the denied room stays a candidate.
DenyForgotten(b) ==
    /\ room[b] # NoRoom
    /\ SyncOne(World, Pool, b)
    /\ denied' = [denied EXCEPT ![b] = @ \cup {room[b]}]
    /\ UNCHANGED saving

\* onError: LINE denies the poller its room.
Deny(b) ==
    /\ room[b] # NoRoom
    /\ SyncOne([World EXCEPT !.blocked[b] = @ \cup {room[b]}], Pool, b)
    /\ denied' = [denied EXCEPT ![b] = @ \cup {room[b]}]
    /\ UNCHANGED saving

\* maybeReselectFastPollRoom, on an incoming OpenChat message.
Reselect(b) ==
    /\ session[b] = "online"
    /\ SyncOne(World, Pool, b)
    /\ UNCHANGED <<saving, denied>>

\* The setImmediate of scheduleFastSlotRebalance.
Rebalance ==
    /\ rebalance
    /\ Handles(World, [Pool EXCEPT !.rebalance = FALSE], SetToSeqs(Bots))
    /\ UNCHANGED <<saving, denied>>

SlotNext ==
    \/ \E b \in Bots :
        \/ Start(b) \/ LoginSucceeds(b) \/ LoginFails(b) \/ Lost(b) \/ Stop(b)
        \/ Deny(b) \/ Reselect(b)
    \/ \E b \in Edited :
        \/ \E r \in Joined[b] : Enable(b, r) \/ Disable(b, r)
        \/ \E answers \in BOOLEAN : SaveRule(b, answers)
        \/ RuleSaved(b) \/ DeleteRule(b)
        \/ \E a \in Bots : CopyConfig(a, b)
    \/ Rebalance

SlotSpec == SlotInit /\ [][SlotNext]_slotVars

-----------------------------------------------------------------------------
(* Properties. *)

Fast(b) == room[b] # NoRoom /\ pace[b] = "fast"

\* A slot that is free while a bot polls slowly for want of one is about to be
\* handed out: nobody waits for an edit or for traffic.
NoIdleSlot ==
    Cardinality(slots) < Capacity /\ ~rebalance =>
        \A b \in Bots : room[b] # NoRoom => pace[b] = "fast"

\* A bot polls one of the rooms it may answer in whenever it has one and is
\* online, and never otherwise; except while the handler of an edit awaits, and
\* after a copy of rules, which calls for no pollers.
Covered ==
    \A b \in Bots :
        IF session[b] # "online" THEN room[b] = NoRoom
        ELSE b \in saving \cup unsynced \/
             IF Candidates(World, b) = {} THEN room[b] = NoRoom
             ELSE room[b] \in Candidates(World, b)

\* A room LINE denied is left alone until an operator starts the bot, whatever
\* reconnects happen in between.
DeniedStaysDenied == \A b \in Bots : room[b] \notin denied[b]

\* A bot that polls fast goes on polling fast as long as it is online and has a
\* room: nobody who comes, goes or changes rooms can slow it down.
StableAdmission ==
    [][\A b \in Bots : Fast(b) /\ session'[b] = "online" /\ room'[b] # NoRoom => Fast(b)']_slotVars
=============================================================================
