-------------------------------- MODULE H2Lanes --------------------------------
(***************************************************************************)
(* The HTTP/2 connections a process keeps to LINE (dispatch/h2-lanes.ts),  *)
(* the warmer that opens and primes them, and the requests they carry with *)
(* their fallback to fetch (dispatch/client.ts).                           *)
(*                                                                         *)
(* A lane is a slot; a session is one connection of it.  Handlers and      *)
(* callbacks know the lane, not the session they were set for, so an event *)
(* of an old session acts on whatever the lane has by then.  The number of *)
(* a session is reused once nothing refers to it.  Addresses, round        *)
(* robin, pins, cooldowns and measured times only choose among lanes: the  *)
(* choice they make is left open.                                          *)
(***************************************************************************)
EXTENDS Integers, FiniteSets

CONSTANTS
    Lanes,      \* the slots of the pool, LANE_COUNT of them
    SendLanes,  \* those below SEND_RESERVED_LANES
    MaxSessions,    \* bound on how many sessions exist at once
    Requests,   \* requests on lanes at once
    None

ASSUME LaneAssumption ==
    /\ IsFiniteSet(Lanes) /\ SendLanes \subseteq Lanes
    /\ MaxSessions \in Nat \ {0}
    /\ None \notin Nat \cup Requests

VARIABLES
    state,      \* lane.state
    session,    \* lane.session
    timer,      \* lane.reconnectTimer is set
    inFlight,   \* lane.inFlight
    measured,   \* lane.sendRttMs is set
    dials,      \* connection attempts under way, one session each
    alive,      \* established sessions that are not destroyed
    closing,    \* sessions whose close event has not been delivered
    streams,    \* requests on sessions, until their close event
    warmup,     \* primeLanes: idle, opening, heads, primed, or stopped for good
    awaited,    \* attempts, or HEADs on sessions, that primeLanes waits for
    redialed,   \* history: a lane was dialled before it was done with an older session
    stale       \* history: lanes whose last sample came from another session

laneVars == <<state, session, timer>>
statVars == <<inFlight, measured, stale>>
warmVars == <<warmup, awaited>>
vars == <<laneVars, statVars, dials, alive, closing, streams, warmVars, redialed>>

Sessions == 1..MaxSessions

Owned == [lane : Lanes, session : Sessions]

\* A stream carries a request, or the HEAD that primes a lane: in the round of
\* primeLanes, or for a connection that replaces another.
Streams == [lane : Lanes, session : Sessions, request : Requests \cup {None},
            kind : {"send", "head", "prime"}, settled : BOOLEAN]

disposed == warmup = "stopped"

-----------------------------------------------------------------------------
\* isUsable.
Usable == {l \in Lanes : state[l] = "ready" /\ [lane |-> l, session |-> session[l]] \in alive}

InUse == {o.session : o \in dials \cup alive \cup closing} \cup {st.session : st \in streams}

\* The ways to give each lane of a set a session of its own that is not in use.
Dialings(L, used) ==
    {d \in SUBSET [lane : L, session : Sessions \ used] :
        /\ \A l \in L : \E o \in d : o.lane = l
        /\ \A o, a \in d : o # a => o.lane # a.lane /\ o.session # a.session}

Dialled(L, used) == CHOOSE d \in Dialings(L, used) : TRUE

ASSUME SessionsSuffice == Dialings(Lanes, {}) # {}

\* The first ensureLanes builds the pool and opens every lane in the same step.
Init ==
    /\ dials = Dialled(Lanes, {})
    /\ awaited = dials
    /\ warmup = "opening"
    /\ state = [l \in Lanes |-> "connecting"]
    /\ session = [l \in Lanes |-> None]
    /\ stale = [l \in Lanes |-> FALSE]
    /\ timer = [l \in Lanes |-> FALSE]
    /\ inFlight = [l \in Lanes |-> 0]
    /\ measured = [l \in Lanes |-> FALSE]
    /\ alive = {} /\ closing = {} /\ streams = {}
    /\ redialed = FALSE

\* A session of the lane that is gone, or a stream of one, has yet to report it.
Unheard(l) ==
    \/ \E o \in closing : o.lane = l
    \/ \E st \in streams : st.lane = l /\ [lane |-> l, session |-> st.session] \notin alive

\* openLane leaves a lane that is connecting or usable as it is.
ToOpen(L) == {l \in L : state[l] # "connecting" /\ l \notin Usable}

\* Mutant: the measurements of a lane survive its connection.
StillMeasuredKept(L, l) == measured[l]

StillMeasured(L, l) == measured[l] /\ l \notin ToOpen(L)

\* openLane of the lanes L as far as its first await.
Open(L) ==
    /\ Dialings(ToOpen(L), InUse) # {}
    /\ dials' = dials \cup Dialled(ToOpen(L), InUse)
    /\ state' = [l \in Lanes |-> IF l \in ToOpen(L) THEN "connecting" ELSE state[l]]
    /\ measured' = [l \in Lanes |-> StillMeasured(L, l)]
    /\ stale' = [l \in Lanes |-> stale[l] \/ l \in ToOpen(L)]
    /\ redialed' = (redialed \/ \E l \in ToOpen(L) : session[l] # None \/ Unheard(l))
    /\ UNCHANGED <<session, inFlight, alive, closing, streams>>

\* Mutant: a lane that dies with a request on it gets no timer.
RetireForgetsTimer(L, lost, heard) ==
    LET dying == {l \in L : state[l] # "dead"}
        gone == {o \in alive : o \in lost \/ (o.lane \in dying /\ o.session = session[o.lane])}
    IN  /\ state' = [l \in Lanes |-> IF l \in dying THEN "dead" ELSE state[l]]
        /\ session' = [l \in Lanes |-> IF l \in dying THEN None ELSE session[l]]
        /\ timer' = [l \in Lanes |-> timer[l] \/ (l \in dying /\ ~ disposed /\ inFlight[l] = 0)]
        /\ alive' = alive \ gone
        /\ closing' = (closing \ heard) \cup gone

\* retireLane(lane, "dead") of the lanes L, in a step that also loses the
\* sessions `lost' and hears of the close of the sessions `heard': a lane that
\* is not dead yet dies, its session is destroyed, and scheduleReconnect sets
\* its timer unless it is set.
Retire(L, lost, heard) ==
    LET dying == {l \in L : state[l] # "dead"}
        gone == {o \in alive : o \in lost \/ (o.lane \in dying /\ o.session = session[o.lane])}
    IN  /\ state' = [l \in Lanes |-> IF l \in dying THEN "dead" ELSE state[l]]
        /\ session' = [l \in Lanes |-> IF l \in dying THEN None ELSE session[l]]
        /\ timer' = [l \in Lanes |-> timer[l] \/ (l \in dying /\ ~ disposed)]
        /\ alive' = alive \ gone
        /\ closing' = (closing \ heard) \cup gone

-----------------------------------------------------------------------------
\* The reconnect timer, at least 250 ms after a session was destroyed: what it
\* and its streams had to report has been delivered.
Reconnect(l) ==
    /\ timer[l]
    /\ ~ Unheard(l)
    /\ timer' = [timer EXCEPT ![l] = FALSE]
    /\ Open({l})
    /\ UNCHANGED warmVars

DialEnds(d) ==
    /\ dials' = dials \ {d}
    /\ awaited' = awaited \ {d}
    /\ UNCHANGED <<measured, stale, warmup, redialed>>

\* Mutant: a failed attempt is not followed by another.
DialFailsForGood(d) ==
    /\ DialEnds(d)
    /\ state' = [state EXCEPT ![d.lane] = "dead"]
    /\ session' = [session EXCEPT ![d.lane] = None]
    /\ UNCHANGED <<timer, inFlight, alive, closing, streams>>

\* No address, or no connection before the timeout, which also clears
\* lane.session.
DialFails(d) ==
    /\ DialEnds(d)
    /\ state' = [state EXCEPT ![d.lane] = "dead"]
    /\ session' = [session EXCEPT ![d.lane] = None] \/ UNCHANGED session
    /\ timer' = [timer EXCEPT ![d.lane] = @ \/ ~ disposed]
    /\ UNCHANGED <<inFlight, alive, closing, streams>>

Ready(d) ==
    /\ alive' = alive \cup {d}
    /\ state' = [state EXCEPT ![d.lane] = "ready"]
    /\ session' = [session EXCEPT ![d.lane] = d.session]

\* Mutant: a handshake that completes after stopLanes brings the lane up.
ConnectAnyway(d) ==
    /\ Ready(d)
    /\ UNCHANGED <<inFlight, closing, streams>>

\* The connect event: after stopLanes the session is destroyed again; that of a
\* primed pool primes itself with a HEAD.
Connect(d) ==
    \/ disposed /\ UNCHANGED <<alive, closing, state, session, inFlight, streams>>
    \/ /\ ~ disposed /\ warmup # "primed"
       /\ Ready(d)
       /\ UNCHANGED <<closing, inFlight, streams>>
    \/ /\ warmup = "primed"
       /\ Ready(d)
       /\ inFlight' = [inFlight EXCEPT ![d.lane] = @ + 1]
       /\ streams' = streams \cup {[lane |-> d.lane, session |-> d.session, request |-> None,
                                   kind |-> "prime", settled |-> FALSE]}
       /\ UNCHANGED closing

DialSucceeds(d) == DialEnds(d) /\ Connect(d) /\ UNCHANGED timer

-----------------------------------------------------------------------------
\* The events of a session, handled by the lane it was opened for.

\* The connection breaks; its close event follows.
SessionLost(o) ==
    /\ alive' = alive \ {o}
    /\ closing' = closing \cup {o}
    /\ UNCHANGED <<laneVars, statVars, dials, streams, warmVars, redialed>>

\* The error event, or a ping without an answer.
SessionFails(o) ==
    /\ Retire({o.lane}, {o}, {})
    /\ UNCHANGED <<statVars, dials, streams, warmVars, redialed>>

CloseEvent(o) ==
    /\ Retire({o.lane}, {}, {o})
    /\ UNCHANGED <<statVars, dials, streams, warmVars, redialed>>

\* GOAWAY drains the lane: requests on it are still answered.
Goaway(o) ==
    /\ state[o.lane] # "dead"
    /\ \/ inFlight[o.lane] = 0 /\ Retire({o.lane}, {}, {})
       \/ /\ inFlight[o.lane] > 0
          /\ state' = [state EXCEPT ![o.lane] = "draining"]
          /\ UNCHANGED <<session, timer, alive, closing>>
    /\ UNCHANGED <<statVars, dials, streams, warmVars, redialed>>

-----------------------------------------------------------------------------
Stream(l, r, kind) ==
    [lane |-> l, session |-> session[l], request |-> r, kind |-> kind, settled |-> FALSE]

\* laneFetch.  Without a usable lane, or when the session refuses the stream, the
\* caller goes to fetch and the pool has no part in the request.
Send(r, l) ==
    /\ \A st \in streams : st.request # r
    /\ \/ /\ streams' = streams \cup {Stream(l, r, "send")}
          /\ inFlight' = [inFlight EXCEPT ![l] = @ + 1]
          /\ UNCHANGED <<laneVars, alive, closing>>
       \/ Retire({l}, {}, {}) /\ UNCHANGED <<streams, inFlight>>
    /\ UNCHANGED <<measured, stale, dials, warmVars, redialed>>

\* recordApplicationRtt.
Record(st) ==
    /\ measured' = [measured EXCEPT ![st.lane] = TRUE]
    /\ stale' = [stale EXCEPT ![st.lane] =
                    state[st.lane] = "connecting" \/ st.session # session[st.lane]]

\* The lane's part in settling a request: the last one of a draining lane ends
\* the lane, and so does a replacement that cannot be primed.
SettleLane(st, ok) ==
    /\ inFlight' = [inFlight EXCEPT ![st.lane] = @ - 1]
    /\ IF \/ state[st.lane] = "draining" /\ inFlight[st.lane] = 1
          \/ st.kind = "prime" /\ ~ ok
       THEN Retire({st.lane}, {}, {})
       ELSE UNCHANGED <<laneVars, alive, closing>>

\* The part of primeLanes: all HEADs answered, or one of them failed.
SettleWarmup(st, ok) ==
    IF st.kind # "head" \/ warmup # "heads"
    THEN UNCHANGED warmVars
    ELSE /\ awaited' = IF ok THEN {o \in awaited : o.lane # st.lane} ELSE {}
         /\ warmup' = IF ~ ok THEN "idle" ELSE IF awaited' = {} THEN "primed" ELSE "heads"

Settle(st, ok) ==
    /\ SettleLane(st, ok)
    /\ SettleWarmup(st, ok)
    /\ IF ok /\ st.kind = "send" THEN Record(st) ELSE UNCHANGED <<measured, stale>>
    /\ UNCHANGED <<dials, redialed>>

\* Mutant: the close that follows an abort settles the request again.
CloseStreamTwice(st) ==
    /\ streams' = streams \ {st}
    /\ \E ok \in BOOLEAN : Settle(st, ok)

\* A stream's close event, with an answer or without one.
CloseStream(st) ==
    /\ streams' = streams \ {st}
    /\ \/ ~ st.settled /\ \E ok \in BOOLEAN : Settle(st, ok)
       \/ st.settled /\ UNCHANGED <<laneVars, statVars, dials, alive, closing, warmVars, redialed>>

\* The caller's signal, or the timeout of a HEAD.
Abort(st) ==
    /\ ~ st.settled
    /\ streams' = (streams \ {st}) \cup {[st EXCEPT !.settled = TRUE] : k \in {st.kind} \cap {"send"}}
    /\ Settle(st, FALSE)

-----------------------------------------------------------------------------
\* selectAgedLaneForRecycle: idle, with a ready lane beside it in its partition.
\* Ages are left open.
Recyclable ==
    {l \in Usable : inFlight[l] = 0
        /\ \E k \in Usable \ {l} : k \in SendLanes <=> l \in SendLanes}

\* Mutant: one measured lane is enough, and no care is taken of the fastest.
RepairableAny(ready) == {l \in ready : measured[l] /\ inFlight[l] = 0}

\* selectDegradedLaneForRepair, of the lanes still ready: an idle one beside
\* another that has been measured.  Which of them is degraded is left open.
Repairable(ready) ==
    {l \in ready : measured[l] /\ inFlight[l] = 0 /\ \E k \in ready \ {l} : measured[k]}

\* The ping timer: at most one lane is recycled and at most one repaired, each
\* kind no oftener than its gap allows.  That no dead lane waits without a timer,
\* which the tick would set, is NoLaneIsForgotten.
Tick ==
    /\ ~ disposed
    /\ \E old, worn \in SUBSET Lanes :
          /\ Cardinality(old) <= 1 /\ old \subseteq Recyclable
          /\ Cardinality(worn) <= 1 /\ worn \subseteq Repairable(Usable \ old)
          /\ Retire(old \cup worn, {}, {})
    /\ UNCHANGED <<statVars, dials, streams, warmVars, redialed>>

\* The warmer calls primeLanes every 25 s until a round succeeds; no HEAD of an
\* earlier round, which has 10 s, is left by then.
Warm ==
    /\ warmup = "idle"
    /\ \A st \in streams : st.kind # "head"
    /\ warmup' = "opening"
    /\ Open(Lanes)
    /\ awaited' = dials' \ dials
    /\ UNCHANGED timer

\* ensureLanes returns: without a usable lane primeLanes gives up.
AllOpened ==
    /\ warmup = "opening" /\ awaited = {}
    /\ warmup' = IF Usable = {} THEN "idle" ELSE "heads"
    /\ awaited' = {o \in alive : o.lane \in Usable /\ o.session = session[o.lane]}
    /\ inFlight' = [l \in Lanes |-> IF l \in Usable THEN inFlight[l] + 1 ELSE inFlight[l]]
    /\ streams' = streams \cup {Stream(l, None, "head") : l \in Usable}
    /\ UNCHANGED <<laneVars, measured, stale, dials, alive, closing, redialed>>

\* stopLanes.  What the sessions it destroys report finds every lane dead.
Stop ==
    /\ ~ disposed
    /\ warmup' = "stopped" /\ awaited' = {}
    /\ alive' = {o \in alive : o.session # session[o.lane]}
    /\ closing' = {}
    /\ state' = [l \in Lanes |-> "dead"]
    /\ session' = [l \in Lanes |-> None]
    /\ timer' = [l \in Lanes |-> FALSE]
    /\ UNCHANGED <<statVars, dials, streams, redialed>>

Next ==
    \/ \E l \in Lanes : Reconnect(l)
    \/ \E d \in dials : DialFails(d) \/ DialSucceeds(d)
    \/ \E o \in alive : SessionLost(o) \/ SessionFails(o) \/ Goaway(o)
    \/ \E o \in closing : CloseEvent(o)
    \/ \E l \in Usable, r \in Requests : Send(r, l)
    \/ \E st \in streams : CloseStream(st) \/ Abort(st)
    \/ Tick \/ Warm \/ AllOpened \/ Stop

Spec == Init /\ [][Next]_vars

\* Timers run, events are delivered, requests end, and a lane that is dialled
\* again and again is connected at last.
FairSpec ==
    /\ Spec
    /\ \A l \in Lanes :
          /\ WF_vars(Reconnect(l))
          /\ SF_vars(\E d \in dials : d.lane = l /\ DialSucceeds(d))
          /\ WF_vars(\E st \in streams : st.lane = l /\ CloseStream(st))
          /\ WF_vars(\E o \in closing : o.lane = l /\ CloseEvent(o))

-----------------------------------------------------------------------------
TypeOK ==
    /\ state \in [Lanes -> {"dead", "connecting", "ready", "draining"}]
    /\ session \in [Lanes -> Sessions \cup {None}]
    /\ timer \in [Lanes -> BOOLEAN]
    /\ inFlight \in [Lanes -> Nat]
    /\ measured \in [Lanes -> BOOLEAN]
    /\ stale \in [Lanes -> BOOLEAN]
    /\ dials \subseteq Owned /\ alive \subseteq Owned /\ closing \subseteq Owned
    /\ streams \subseteq Streams
    /\ warmup \in {"idle", "opening", "heads", "primed", "stopped"}
    /\ awaited \subseteq Owned
    /\ redialed \in BOOLEAN

\* A lane's load counts exactly its unanswered requests, those of an earlier
\* session too: an abort and the close that follows it are one ending.
InFlightExact ==
    \A l \in Lanes :
        inFlight[l] = Cardinality({st \in streams : st.lane = l /\ ~ st.settled})

\* No lane stays dead: whichever of its sessions, attempts, pings or HEADs
\* brought it down, it has a timer; and a connecting lane has its attempt.
NoLaneIsForgotten ==
    \A l \in Lanes :
        /\ state[l] = "dead" /\ ~ disposed => timer[l]
        /\ state[l] = "connecting" => \E d \in dials : d.lane = l

\* Every connection belongs to its lane, and none is left once the pool has been
\* stopped, unless a lane was dialled over a session it still had.
NoSocketLeaks == redialed \/ \A o \in alive : session[o.lane] = o.session /\ ~ disposed

\* A lane is never ranked by what another connection measured, with the same
\* exception.
MeasuredOnThisRoute ==
    \A l \in Lanes : state[l] = "ready" /\ measured[l] /\ stale[l] => redialed

\* Maintenance, whatever it recycles and repairs in one tick, takes no request
\* down and never the last usable lane.
MaintenanceKeepsServing ==
    [][Tick => /\ Usable # {} => Usable' # {}
               /\ \A st \in streams : ~ st.settled /\ [lane |-> st.lane, session |-> st.session] \in alive
                     => [lane |-> st.lane, session |-> st.session] \in alive']_vars

\* A lane that was lost comes back; the bound on sessions leaves out one that lost
\* track of its own.
LaneReturns == \A l \in Lanes : state[l] = "dead" ~> state[l] = "ready" \/ disposed \/ redialed

=============================================================================
