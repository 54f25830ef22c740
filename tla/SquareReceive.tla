----------------------------- MODULE SquareReceive -----------------------------
(***************************************************************************)
(* How a session hears OpenChats: the push connection and the loop that    *)
(* keeps one (linejs-core/base/polling/mod.ts), the chain of long polls on *)
(* it and the fetch a notification starts (base/push/connManager.ts), and  *)
(* the watch that repairs the chain when it falls silent                   *)
(* (bot/square-stall-policy.ts, bot/session-manager.ts).                   *)
(*                                                                         *)
(* LINE is external.  An OpenChat event is its number in the session; a    *)
(* sync token is the number of the last event before it.  Time is counted  *)
(* in runs of the watch.                                                   *)
(***************************************************************************)
EXTENDS Naturals, FiniteSets, Sequences, Bags

CONSTANTS
    StallAfter,     \* SQUARE_STALL_MS
    Cooldown,       \* SQUARE_STALL_RECOVERY_COOLDOWN_MS
    EscalateAfter,  \* ESCALATE_AFTER_FAILED_REFRESHES
    Proactive,      \* SQUARE_PROACTIVE_REFRESH_MS
    ConnectTimeout, \* of Conn.new; the rest between two attempts is shorter
    MaxEvents,      \* bound: OpenChat events of a session
    MaxQueue,       \* bound: notifications in the queue at once
    MaxBreaks,      \* bound: requests LINE never answers or answers with an error,
                    \* connections that break
    None

ASSUME ReceiveAssumption ==
    /\ StallAfter \in Nat \ {0} /\ Cooldown \in Nat \ {0}
    /\ EscalateAfter \in Nat \ {0}
    /\ Proactive \in Nat /\ Proactive > Cooldown
    /\ ConnectTimeout \in Nat \ {0} /\ ConnectTimeout < Cooldown
    /\ MaxEvents \in Nat /\ MaxQueue \in Nat /\ MaxBreaks \in Nat
    /\ None \notin Nat

VARIABLES
    up,         \* the bot is online, or its session is being built again
    loop,       \* initLegyPusher: dialing, reading, closing, resting
    waited,     \* time since its last step
    requests,   \* fetchMyEvents requests that wait on the connection, by their token
    delayed,    \* re-arms in their idle delay, by the token they will send
    queue,      \* squareFetchQueue: replies and notifications to process
    fetching,   \* the token of the fetch of a notification under way, or None
    token,      \* poll.sync.square
    posted,     \* OpenChat events of the session at LINE
    heard,      \* those put on the event stream
    age,        \* time since lastSquareFetchAt
    sinceClose, \* time since lastPushRefreshAt
    refreshes,  \* squareStallRefreshes
    rearmTried, \* squareStallRearmTried
    closed,     \* history: connections the watch closed since it last found all well
    deaf,       \* history: runs since then, or since the proactive close, that
                \* found silence and a connection
    broken,     \* history: LINE left a request of this connection unanswered or
                \* refused it, and has answered and been sent none since
    breaks

lineVars == <<requests, posted, broken, breaks>>
chainVars == <<delayed, queue, fetching, token, heard>>
watchVars == <<sinceClose, refreshes, rearmTried, closed, deaf>>
loopVars == <<loop, waited>>
vars == <<up, loopVars, lineVars, chainVars, age, watchVars>>

\* The longest silence the watch leaves without a new session.
MaxDeaf == Cooldown * (EscalateAfter + 1) + 1

Tokens == 0..MaxEvents

hasConnection == loop \in {"dialing", "reading", "closing"}

Older(n, bound) == IF n < bound THEN n + 1 ELSE bound

\* A new client; its stamps are of its creation, some time before it listens.
Fresh ==
    /\ up' = "online" /\ loop' = "dialing" /\ waited' = 0
    /\ requests' = EmptyBag /\ delayed' = EmptyBag
    /\ queue' = <<>> /\ fetching' = None
    /\ token' = 0 /\ posted' = 0 /\ heard' = {}
    /\ age' \in 0..StallAfter
    /\ sinceClose' = 0
    /\ broken' = FALSE /\ deaf' = 0

Init ==
    /\ up = "online" /\ loop = "dialing" /\ waited = 0
    /\ requests = EmptyBag /\ delayed = EmptyBag
    /\ queue = <<>> /\ fetching = None
    /\ token = 0 /\ posted = 0 /\ heard = {}
    /\ age \in 0..StallAfter
    /\ sinceClose = 0 /\ refreshes = 0 /\ rearmTried = FALSE
    /\ closed = 0 /\ deaf = 0
    /\ broken = FALSE /\ breaks = 0

-----------------------------------------------------------------------------
(* The connection: initLegyPusher, initializeConn, InitAndRead. *)

\* The stream is open: a status frame, and the first request of the chain.
Connected ==
    /\ up = "online" /\ loop = "dialing"
    /\ loop' = "reading" /\ waited' = 0
    /\ requests' = SetToBag({token})
    /\ broken' = FALSE
    /\ UNCHANGED <<up, posted, breaks, chainVars, age, watchVars>>

\* Connecting fails or times out, or the stream ends (on LINE's side, or because
\* the keepalive closes it for a renewed token): the loop drops the connection
\* with what waits on it, and rests.
ConnectionEnds ==
    /\ up = "online"
    /\ \/ loop = "closing" /\ UNCHANGED breaks
       \/ loop \in {"dialing", "reading"} /\ breaks < MaxBreaks /\ breaks' = breaks + 1
    /\ loop' = "resting" /\ waited' = 0
    /\ requests' = EmptyBag
    /\ UNCHANGED <<up, posted, broken, chainVars, age, watchVars>>

\* After retryMs, again.
Redial ==
    /\ up = "online" /\ loop = "resting"
    /\ loop' = "dialing" /\ waited' = 0
    /\ UNCHANGED <<up, lineVars, chainVars, age, watchVars>>

-----------------------------------------------------------------------------
(* LINE. *)

\* Somebody says something in an OpenChat.
Post ==
    /\ up = "online" /\ posted < MaxEvents
    /\ posted' = posted + 1
    /\ UNCHANGED <<up, loopVars, requests, broken, breaks, chainVars, age, watchVars>>

\* LINE answers a request, with the events there are: _OnSignOnResponse stamps
\* the arrival and queues the rest.
Answer(t) ==
    /\ loop = "reading" /\ t \in BagToSet(requests)
    /\ requests' = requests (-) SetToBag({t})
    /\ queue' = Append(queue, [kind |-> "reply", after |-> t, upto |-> posted])
    /\ age' = 0
    /\ broken' = FALSE
    /\ UNCHANGED <<up, loopVars, posted, breaks, delayed, fetching, token, heard, watchVars>>

\* LINE answers a request with an error, or with what cannot be read, before or
\* after the arrival is stamped: nothing is streamed, and nothing re-armed.
Refuse(t) ==
    /\ loop = "reading" /\ t \in BagToSet(requests)
    /\ breaks < MaxBreaks
    /\ breaks' = breaks + 1
    /\ requests' = requests (-) SetToBag({t})
    /\ age' \in {age, 0}
    /\ broken' = TRUE
    /\ UNCHANGED <<up, loopVars, posted, chainVars, watchVars>>

\* LINE never answers a request.
Forget(t) ==
    /\ loop = "reading" /\ t \in BagToSet(requests)
    /\ breaks < MaxBreaks
    /\ breaks' = breaks + 1
    /\ requests' = requests (-) SetToBag({t})
    /\ broken' = TRUE
    /\ UNCHANGED <<up, loopVars, posted, chainVars, age, watchVars>>

\* A push frame of the OpenChat service: _OnPushResponse queues a fetch.
Notify ==
    /\ loop = "reading" /\ posted > token
    /\ Len(queue) < MaxQueue
    /\ queue' = Append(queue, [kind |-> "notice"])
    /\ UNCHANGED <<up, loopVars, lineVars, delayed, fetching, token, heard, age, watchVars>>

-----------------------------------------------------------------------------
(* The chain and the queue. *)

nextJob == queue # <<>> /\ fetching = None

\* Mutant: the stream gets only events the token does not cover yet.
StreamedWhenNewer(after, upto) == IF upto > token + 1 THEN (after + 2)..upto ELSE (after + 1)..upto

\* The events of a response, put on the stream.
Streamed(after, upto) == (after + 1)..upto

\* Mutant: an empty answer ends the chain.
RearmedWhenBusy(reply) == IF reply.upto > reply.after THEN SetToBag({reply.upto}) ELSE EmptyBag

\* SquareRearmPolicy: another request follows in any case, with its own token.
Rearmed(reply) == SetToBag({reply.upto})

\* A reply at the head of the queue: stream its events, store its token, re-arm.
ProcessReply ==
    /\ nextJob /\ Head(queue).kind = "reply"
    /\ LET reply == Head(queue)
       IN  /\ heard' = heard \cup Streamed(reply.after, reply.upto)
           /\ token' = reply.upto
           /\ delayed' = delayed (+) Rearmed(reply)
    /\ queue' = Tail(queue)
    /\ UNCHANGED <<up, loopVars, lineVars, fetching, age, watchVars>>

\* A notification at the head of the queue: fetch from where the stream is.
StartFetch ==
    /\ nextJob /\ Head(queue).kind = "notice"
    /\ fetching' = token
    /\ queue' = Tail(queue)
    /\ UNCHANGED <<up, loopVars, lineVars, delayed, token, heard, age, watchVars>>

FetchAnswered ==
    /\ fetching # None
    /\ heard' = heard \cup Streamed(fetching, posted)
    /\ token' = posted
    /\ fetching' = None
    /\ age' = 0
    /\ UNCHANGED <<up, loopVars, lineVars, delayed, queue, watchVars>>

\* It fails or is aborted after the request timeout; the next fetch starts over.
FetchFails ==
    /\ fetching # None
    /\ fetching' = None
    /\ UNCHANGED <<up, loopVars, lineVars, delayed, queue, token, heard, age, watchVars>>

\* A request for what follows t, on the connection there is.
Send(t) ==
    IF loop = "reading" THEN requests' = requests (+) SetToBag({t}) /\ broken' = FALSE
    ELSE UNCHANGED <<requests, broken>>

\* rearmSquareFetch after the idle delay, on the connection there is by then.
\* Without one it is skipped; on one that is being opened or closed the write
\* fails, unless the opening is soon done.
Rearm(t) ==
    /\ t \in BagToSet(delayed)
    /\ delayed' = delayed (-) SetToBag({t})
    /\ Send(t)
    /\ UNCHANGED <<up, loopVars, posted, breaks, queue, fetching, token, heard, age, watchVars>>

-----------------------------------------------------------------------------
(* The watch: startSquareStallWatch, planStallRecovery. *)

\* Mutant: closing the connection is the only move, for ever.
PlanNeverRebuilds(silence, since) ==
    IF silence < StallAfter THEN "healthy"
    ELSE IF ~hasConnection THEN "retry-soon"
    ELSE IF ~rearmTried THEN "rearm"
    ELSE IF since < Cooldown THEN "wait"
    ELSE "refresh"

\* Mutant: silence is taken for a quiet room.
PlanNothing(silence, since) == "healthy"

\* planStallRecovery, given the time since the last response and the last close.
Plan(silence, since) ==
    IF silence < StallAfter THEN "healthy"
    ELSE IF ~hasConnection THEN "retry-soon"
    ELSE IF ~rearmTried THEN "rearm"
    ELSE IF since < Cooldown THEN "wait"
    ELSE IF refreshes >= EscalateAfter THEN "rebuild"
    ELSE "refresh"

\* refreshPushConnection: the end of the stream is for the loop to notice.
Close ==
    IF hasConnection
    THEN loop' = "closing" /\ waited' = 0 /\ sinceClose' = 0
    ELSE UNCHANGED loopVars /\ sinceClose' = Older(sinceClose, Proactive)

\* The session is torn down; what its client was doing no longer matters.
TearDown ==
    /\ up' = "rebuilding" /\ loop' = "resting" /\ waited' = 0
    /\ requests' = EmptyBag /\ delayed' = EmptyBag /\ queue' = <<>> /\ fetching' = None
    /\ token' = 0 /\ posted' = 0 /\ heard' = {}
    /\ age' = 0 /\ broken' = FALSE /\ deaf' = 0

FindHealthy ==
    /\ refreshes' = 0 /\ rearmTried' = FALSE
    /\ closed' = 0 /\ deaf' = 0
    /\ UNCHANGED <<up, loop, requests, delayed, broken>>

FindStalled ==
    /\ deaf' = Older(deaf, MaxDeaf + 1)
    /\ UNCHANGED up

\* rearmSquareNow: one more request; on a connection that is being opened it
\* waits for the stream, on one that is closing it is lost.
ForceRearm ==
    /\ rearmTried' = TRUE
    /\ Send(token)
    /\ delayed' = IF loop = "dialing" THEN delayed (+) SetToBag({token}) ELSE delayed
    /\ UNCHANGED <<loop, refreshes, closed>>

Refresh ==
    /\ refreshes' = refreshes + 1
    /\ closed' = IF hasConnection THEN closed + 1 ELSE closed
    /\ Close
    /\ UNCHANGED <<requests, delayed, broken, rearmTried>>

\* One run of the interval.  The loop is never late: its waits have timeouts.
Watch ==
    LET silence == Older(age, StallAfter)
        since == Older(sinceClose, Proactive)
        plan == Plan(silence, since)
    IN  /\ up = "online"
        /\ loop = "reading" \/ waited < ConnectTimeout
        /\ plan # "refresh" /\ plan # "rebuild" =>
              /\ sinceClose' = since
              /\ waited' = Older(waited, ConnectTimeout)
        /\ plan # "rebuild" =>
              age' = silence /\ UNCHANGED <<posted, queue, fetching, token, heard>>
        /\ UNCHANGED breaks
        /\ CASE plan = "healthy"    -> FindHealthy
             [] plan = "retry-soon" -> UNCHANGED <<up, loop, requests, delayed, broken,
                                                   refreshes, rearmTried, closed, deaf>>
             [] plan = "wait"       -> FindStalled /\ UNCHANGED <<loop, requests, delayed, broken,
                                                                  refreshes, rearmTried, closed>>
             [] plan = "rearm"      -> FindStalled /\ ForceRearm
             [] plan = "refresh"    -> FindStalled /\ Refresh
             [] plan = "rebuild"    -> /\ TearDown
                                       /\ refreshes' = 0 /\ rearmTried' = FALSE /\ closed' = 0
                                       /\ UNCHANGED sinceClose

\* startSquareProactiveRefresh: the interval has passed without a close.
ProactiveRefresh ==
    /\ up = "online" /\ sinceClose = Proactive
    /\ Close
    /\ deaf' = 0
    /\ UNCHANGED <<up, lineVars, chainVars, age, refreshes, rearmTried, closed>>

\* Another check, or the end of the event stream, drops the session; what the
\* watch has counted stays in the runtime.
Lose ==
    /\ up = "online" /\ breaks < MaxBreaks
    /\ breaks' = breaks + 1
    /\ TearDown
    /\ UNCHANGED <<sinceClose, refreshes, rearmTried, closed>>

\* The login succeeds: startWatchdog, a client that listens.
Back ==
    /\ up = "rebuilding"
    /\ Fresh
    /\ UNCHANGED <<refreshes, rearmTried, closed, breaks>>

-----------------------------------------------------------------------------
Next ==
    \/ Connected \/ ConnectionEnds \/ Redial
    \/ Post \/ Notify
    \/ \E t \in Tokens : Answer(t) \/ Refuse(t) \/ Forget(t) \/ Rearm(t)
    \/ ProcessReply \/ StartFetch \/ FetchAnswered \/ FetchFails
    \/ Watch \/ ProactiveRefresh \/ Lose \/ Back

Spec == Init /\ [][Next]_vars

\* Timers and callbacks run; a connection attempt, a request and a login come to
\* an end, and but for MaxBreaks times to a good one.
FairSpec ==
    /\ Spec
    /\ WF_vars(Connected) /\ WF_vars(ConnectionEnds) /\ WF_vars(Redial)
    /\ \A t \in Tokens : WF_vars(Answer(t)) /\ WF_vars(Rearm(t))
    /\ WF_vars(ProcessReply) /\ WF_vars(StartFetch)
    /\ WF_vars(FetchAnswered \/ FetchFails)
    /\ WF_vars(Watch) /\ WF_vars(Back)

-----------------------------------------------------------------------------
(* Properties. *)

\* Two ways of fetching, replies that overtake each other, doubled chains and
\* connections replaced in between: the events reach the stream in the order they
\* were posted, none left out, and no token is beyond what has been heard.
NothingSkipped ==
    \E n \in Tokens :
        /\ heard = 1..n
        /\ token <= n
        /\ \A t \in BagToSet(requests) \cup BagToSet(delayed) : t <= n

\* While a connection stands a request is waiting or the next one is being
\* prepared, unless LINE left a request unanswered or refused it: the code does
\* not end the chain by itself, and an answer on a doubled chain, a forced re-arm
\* or a new connection keep it again.
ChainKept ==
    loop = "reading" /\ ~broken =>
        \/ requests # EmptyBag \/ delayed # EmptyBag
        \/ \E i \in DOMAIN queue : queue[i].kind = "reply"

\* Every attempt the watch counts against a stall closed a connection.
AttemptsAreReal == refreshes <= closed

\* Silence with a connection in place never outlasts the watch's escalation: it
\* ends, or the session is built again; a proactive close has its own turn.
BoundedDeafness == deaf <= MaxDeaf

\* Whatever breaks, an event is heard in the end or the session is built again.
EventsAreHeard ==
    \A n \in 1..MaxEvents : posted >= n ~> n \in heard \/ up = "rebuilding"
=============================================================================
