----------------------------- MODULE ScheduledPosts -----------------------------
(***************************************************************************)
(* Posts that go out at an exact time (bot/scheduled-posts.ts, the timers  *)
(* of bot/session-manager.ts, the routes of api/routes/bot-detail.ts)      *)
(* through the same send limiter as everything else an account sends.      *)
(*                                                                         *)
(* The row of a post is in the database, its timer in memory.  A timer     *)
(* carries the row as it was when it was set; the send that it starts is   *)
(* awaited, and what is awaited is written to whatever row has the id by   *)
(* then.  `now' stands for both clocks, the wall clock of the posts and    *)
(* the monotonic one of the limiter, which advance together here.          *)
(***************************************************************************)
EXTENDS RateLimiter, FiniteSets

CONSTANTS
    Posts,          \* ids of the posts
    BotOf,          \* the bot of each post
    RunTimes,       \* the times an operator picks
    Grace,          \* SCHEDULED_POST_GRACE_MS
    PastGrace,      \* PAST_GRACE_MS
    MaxTimeout,     \* MAX_TIMEOUT_MS
    MaxRevisions,   \* bound on what operators submit
    MaxCrashes,     \* bound on restarts
    None

ASSUME PostsAssumption ==
    /\ BotOf \in [Posts -> Bots]
    /\ RunTimes \subseteq Nat
    /\ Grace \in Nat /\ PastGrace \in Nat
    /\ MaxTimeout \in Nat \ {0}
    /\ MaxRevisions \in Nat /\ MaxCrashes \in Nat
    /\ None \notin [rev : 1..MaxRevisions, runAt : Nat, enabled : BOOLEAN, sent : BOOLEAN]

VARIABLES
    row,        \* the table scheduled_posts
    used,       \* ids handed out; AUTOINCREMENT never repeats one
    timers,     \* scheduledPostTimers, with what each timer was set for
    flying,     \* sends that are awaited
    online,     \* bots with a client
    revisions,  \* history: how many contents operators have submitted, each its own revision
    posted,     \* history: how often LINE posted a revision
    crashes

postVars == <<row, used, timers, flying, online, revisions, posted, crashes>>

allVars == <<vars, postVars>>

Revisions == 1..MaxRevisions

Rows == [rev : Revisions, runAt : Nat, enabled : BOOLEAN, sent : BOOLEAN]

Timers == [post : Posts, runAt : Nat, stage : BOOLEAN, due : Nat]

Flights == [post : Posts, rev : Revisions, runAt : Nat, at : Nat, landed : BOOLEAN]

PostInit ==
    /\ Init
    /\ row = [p \in Posts |-> None]
    /\ used = {}
    /\ timers = {}
    /\ flying = {}
    /\ online = {}
    /\ revisions = 0
    /\ posted = [r \in Revisions |-> 0]
    /\ crashes = 0

Pending(p) == row[p] # None /\ row[p].enabled /\ ~ row[p].sent

-----------------------------------------------------------------------------
\* Mutant: the timer that is replaced is not cleared.
DisarmedNever(p) == timers

\* disarmScheduledPostTimer.
Disarmed(p) == {t \in timers : t.post # p}

NotBefore(t, time) == IF t > time THEN t ELSE time

\* Mutant: a delay beyond the longest timeout is handed to setTimeout, which clamps it.
TimerClampedAt(time, p, runAt) ==
    [post |-> p, runAt |-> runAt, stage |-> FALSE,
     due |-> IF runAt - time > MaxTimeout THEN time ELSE NotBefore(runAt, time)]

\* armScheduledPostTimer: a post too far away gets a timer that only sets it again.
TimerSetAt(time, p, runAt) ==
    IF runAt - time > MaxTimeout
    THEN [post |-> p, runAt |-> runAt, stage |-> TRUE, due |-> time + MaxTimeout]
    ELSE [post |-> p, runAt |-> runAt, stage |-> FALSE, due |-> NotBefore(runAt, time)]

Timer(p, runAt) == TimerSetAt(now, p, runAt)

\* syncScheduledPostTimer, from the row as it is about to be.
Synced(p, r) == Disarmed(p) \cup (IF r.enabled THEN {Timer(p, r.runAt)} ELSE {})

\* assertScheduledPostInput and the statement that stores a new content.
Submit(p) ==
    /\ revisions < MaxRevisions
    /\ revisions' = revisions + 1
    /\ \E at \in RunTimes, on \in BOOLEAN :
          /\ at + PastGrace >= now
          /\ row' = [row EXCEPT ![p] = [rev |-> revisions + 1, runAt |-> at,
                                        enabled |-> on, sent |-> FALSE]]
    /\ timers' = Synced(p, row'[p])

CreatePost(p) ==
    /\ p \notin used
    /\ BotOf[p] \notin deleted
    /\ used' = used \cup {p}
    /\ Submit(p)
    /\ UNCHANGED <<vars, flying, online, posted, crashes>>

UpdatePost(p) ==
    /\ row[p] # None
    /\ Submit(p)
    /\ UNCHANGED <<vars, used, flying, online, posted, crashes>>

DeletePost(p) ==
    /\ row[p] # None
    /\ row' = [row EXCEPT ![p] = None]
    /\ timers' = Disarmed(p)
    /\ UNCHANGED <<vars, used, flying, online, revisions, posted, crashes>>

-----------------------------------------------------------------------------
\* Mutant: the completion of a send leaves the row as it is.
DisableNothing(p) == UNCHANGED row

\* disableScheduledPost.
Disable(p) ==
    row' = [q \in Posts |-> IF q = p /\ row[q] # None
                            THEN [row[q] EXCEPT !.enabled = FALSE] ELSE row[q]]

\* markScheduledPostSent.
MarkSent(p) ==
    row' = [q \in Posts |-> IF q = p /\ row[q] # None
                            THEN [row[q] EXCEPT !.sent = TRUE] ELSE row[q]]

\* A stage of a far timer, or a timer whose row was settled in the meantime.
FireStage(t) ==
    /\ t.stage
    /\ timers' = Disarmed(t.post) \cup {Timer(t.post, t.runAt)}
    /\ UNCHANGED <<vars, row, flying>>

FireSettled(t) ==
    /\ ~ t.stage
    /\ ~ Pending(t.post)
    /\ timers' = timers \ {t}
    /\ UNCHANGED <<vars, row, flying>>

\* No client, or too late: the post is given up.
FireMissed(t) ==
    /\ ~ t.stage
    /\ Pending(t.post)
    /\ BotOf[t.post] \notin online \/ now - row[t.post].runAt > Grace
    /\ timers' = timers \ {t}
    /\ Disable(t.post)
    /\ UNCHANGED <<vars, flying>>

\* sendTimed as far as its first await: the limiter takes the send or drops it.
FireSend(t) ==
    LET p == t.post
        b == BotOf[p]
    IN  /\ ~ t.stage
        /\ Pending(p)
        /\ b \in online
        /\ now - row[p].runAt <= Grace
        /\ timers' = timers \ {t}
        /\ \E k \in 0..Len(sentAt[b]) :
              /\ FirstLive(sentAt[b], k)
              /\ \/ /\ Admit(b, Live(sentAt[b], k))
                    /\ flying' = flying \cup {[post |-> p, rev |-> row[p].rev, at |-> now,
                                               runAt |-> row[p].runAt, landed |-> FALSE]}
                    /\ UNCHANGED row
                 \/ /\ Refuse(b, Live(sentAt[b], k))
                    /\ Disable(p)
                    /\ UNCHANGED flying
        /\ UNCHANGED <<now, deleted>>

\* A timer runs when its time has come, or later.
Fire ==
    /\ \E t \in timers :
          /\ now >= t.due
          /\ FireStage(t) \/ FireSettled(t) \/ FireMissed(t) \/ FireSend(t)
    /\ UNCHANGED <<used, online, revisions, posted, crashes>>

\* LINE posts the message of a request.
Land ==
    /\ \E f \in flying :
          /\ ~ f.landed
          /\ flying' = (flying \ {f}) \cup {[f EXCEPT !.landed = TRUE]}
          /\ posted' = [posted EXCEPT ![f.rev] = @ + 1]
    /\ UNCHANGED <<vars, row, used, timers, online, revisions, crashes>>

\* sendTimed returns: the request was answered, or it failed, also one that LINE
\* has posted.
Settle ==
    /\ \E f \in flying :
          /\ flying' = flying \ {f}
          /\ \/ f.landed /\ MarkSent(f.post)
             \/ Disable(f.post)
    /\ UNCHANGED <<vars, used, timers, online, revisions, posted, crashes>>

-----------------------------------------------------------------------------
Connect(b) ==
    /\ b \notin online \cup deleted
    /\ online' = online \cup {b}
    /\ UNCHANGED <<vars, row, used, timers, flying, revisions, posted, crashes>>

Disconnect(b) ==
    /\ b \in online
    /\ online' = online \ {b}
    /\ UNCHANGED <<vars, row, used, timers, flying, revisions, posted, crashes>>

\* An automatic reply or a test send of the same account.
OtherSend(b) ==
    /\ b \in online
    /\ TryAcquireSend(b)
    /\ UNCHANGED postVars

\* deleteBotSession: the timers first, then the limiter's state, then the rows.
DeleteBot(b) ==
    /\ ClearThrottle(b)
    /\ online' = online \ {b}
    /\ timers' = {t \in timers : BotOf[t.post] # b}
    /\ row' = [p \in Posts |-> IF BotOf[p] = b THEN None ELSE row[p]]
    /\ UNCHANGED <<used, flying, revisions, posted, crashes>>

\* Mutant: the new process sets no timers.
BootTimersNone == {}

\* startScheduledPostRunner.
BootTimers == {TimerSetAt(now', p, row[p].runAt) : p \in {q \in Posts : Pending(q)}}

\* The process dies, whichever of its requests LINE still posts, and some time
\* later another starts: the limiter has forgotten every send.
CrashAndBoot ==
    /\ crashes < MaxCrashes
    /\ crashes' = crashes + 1
    /\ now' \in now..MaxTime
    /\ \E got \in SUBSET {f \in flying : ~ f.landed} :
          posted' = [r \in Revisions |->
                        posted[r] + Cardinality({f \in got : f.rev = r})]
    /\ sentAt' = [b \in Bots |-> <<>>]
    /\ admitted' = [b \in Bots |-> <<>>]
    /\ retryAt' = [b \in Bots |-> 0]
    /\ timers' = BootTimers
    /\ flying' = {} /\ online' = {}
    /\ UNCHANGED <<deleted, row, used, revisions>>

Clock == Tick /\ UNCHANGED postVars

PostNext ==
    \/ Clock
    \/ \E p \in Posts : CreatePost(p) \/ UpdatePost(p) \/ DeletePost(p)
    \/ Fire \/ Land \/ Settle
    \/ \E b \in Bots : Connect(b) \/ Disconnect(b) \/ OtherSend(b) \/ DeleteBot(b)
    \/ CrashAndBoot

PostSpec == PostInit /\ [][PostNext]_allVars

\* Time passes, due timers run, and a request is answered or times out.
PostFairSpec ==
    PostSpec /\ WF_allVars(Clock) /\ WF_allVars(Fire) /\ WF_allVars(Settle)

-----------------------------------------------------------------------------
PostTypeOK ==
    /\ row \in [Posts -> Rows \cup {None}]
    /\ used \subseteq Posts
    /\ timers \subseteq Timers
    /\ flying \subseteq Flights
    /\ online \subseteq Bots
    /\ revisions \in 0..MaxRevisions
    /\ posted \in [Revisions -> Nat]
    /\ crashes \in 0..MaxCrashes

\* A post goes out in the seconds from its time on or not at all, however it was
\* edited, staged, or restored after a restart: no timer of an older content is
\* left to send the new one early.
OnTimeOrNever == \A f \in flying : f.at \in f.runAt .. f.runAt + Grace

\* A row that still says it will go out has somebody who will see to it: a timer
\* for its very time, or the send of that content that is under way.
PendingIsArmed ==
    \A p \in Posts : Pending(p) =>
        \/ \E t \in timers : t.post = p /\ t.runAt = row[p].runAt
        \/ \E f \in flying : f.post = p /\ f.rev = row[p].rev

\* One content is posted once; only a restart between the posting and the record
\* of it lets the next process post it again.
OncePerProcess == \A r \in Revisions : posted[r] <= 1 + crashes

\* A post does not stay pending for ever: sent, given up, or changed.
EveryPostIsDecided == \A p \in Posts : Pending(p) ~> ~ Pending(p)

=============================================================================
