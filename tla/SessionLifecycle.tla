---------------------------- MODULE SessionLifecycle ----------------------------
(***************************************************************************)
(* The life of one bot's LINE session in bot/session-manager.ts: starting, *)
(* logging in, going online, losing the session, stopping, restarting, the *)
(* one-account lock and the stored credential.                             *)
(*                                                                         *)
(* JavaScript runs one turn at a time, so an action is the code between two *)
(* awaits that reach the network (or a timer, or the operator).  Awaits on  *)
(* the storage only yield microtasks: SqliteStorage answers from memory.    *)
(*                                                                         *)
(* stopBot drops the runtime from the map while the login it interrupted is *)
(* still waiting, and a later start makes a new one, so several runtimes    *)
(* and several attempts of one bot exist at a time.  An attempt produces at *)
(* most one client; the client is named by its attempt.                     *)
(***************************************************************************)
EXTENDS Naturals

CONSTANTS
    Runtimes,   \* BotRuntime objects: bounds how many exist at a time
    Attempts,   \* logins: bounds how many attempts and clients exist at a time
    Mids,       \* LINE accounts
    Names,      \* display names
    None,
    MaxGen,     \* bound on the logins of one runtime
    MaxCrashes  \* bound on process restarts

ASSUME LifecycleAssumption ==
    /\ None \notin Runtimes \cup Attempts \cup Mids \cup Names
    /\ MaxGen \in Nat /\ MaxCrashes \in Nat

VARIABLES
    runtime,    \* runtimes.get(botId), or None
    rt,         \* every BotRuntime an object still refers to
    attempt,    \* every attemptLogin still awaiting, and the client it made
    listening,  \* clients whose listeners are attached
    probes,     \* clients with a watchdog getMyProfile outstanding
    inflight,   \* clients with a request outstanding whose answer may rotate the token
    token,      \* the account of the stored auth token, or None
    lock,       \* lockedLineMid and lockedLineDisplayName
    exempt,     \* isIdLockExempt for the bot's owner, now
    status,     \* bots.status
    bot,        \* the bot's row is there, and is past its owner's quota
    nameOf,     \* the display name of each LINE account now
    boot,       \* how far the work done once per boot has come
    toResume,   \* the bot is in previouslyRunningBotIds
    crashes

memory == <<runtime, rt, attempt, listening, probes, inflight>>
vars == <<memory, token, lock, exempt, status, bot, nameOf, boot, toResume, crashes>>

\* The code keeps no excused: it records, for the properties, that the session was
\* let in past the lock.
FreshRuntime ==
    [stopRequested |-> FALSE, gen |-> 0, active |-> FALSE, client |-> None, loginRun |-> None,
     retry |-> 0, watchdog |-> FALSE, failures |-> 0, listenAbort |-> None, excused |-> FALSE]

\* No login: whose it would have been tells nothing.
NoAttempt(r) ==
    [pc |-> "done", rt |-> r, gen |-> 0, qrFallback |-> FALSE, mid |-> None, name |-> None]

NoLock == [mid |-> None, name |-> None]

Init ==
    /\ runtime = None
    /\ rt = [r \in Runtimes |-> FreshRuntime]
    /\ \E r \in Runtimes : attempt = [a \in Attempts |-> NoAttempt(r)]
    /\ listening = {} /\ probes = {} /\ inflight = {}
    /\ nameOf \in [Mids -> Names]
    /\ lock \in {NoLock} \cup [mid : Mids, name : Names \cup {None}]
    /\ exempt \in BOOLEAN
    /\ token \in Mids \cup {None}
    /\ status = "offline"
    /\ bot = [exists |-> TRUE, overQuota |-> FALSE]
    /\ boot = "sweep"
    /\ toResume \in BOOLEAN
    /\ crashes = 0

-----------------------------------------------------------------------------
\* Objects nothing refers to any more may be used again.
Referenced(a) ==
    \/ attempt[a].pc # "done"
    \/ a \in listening \cup probes \cup inflight
    \/ \E r \in Runtimes : rt[r].client = a

FreeRuntime(r) ==
    /\ r # runtime
    /\ \A a \in Attempts : Referenced(a) => attempt[a].rt # r

\* The client of the bot's running session.
Live == IF runtime = None THEN None ELSE rt[runtime].client

\* getRuntime: the registered runtime, or a new one.
Registered(r, was) ==
    IF runtime # None THEN r = runtime /\ was = rt[r]
                      ELSE FreeRuntime(r) /\ was = FreshRuntime

\* isCurrentAttempt, checked after every await of an attempt.
Current(a) ==
    LET now == rt[attempt[a].rt] IN
        now.active /\ now.gen = attempt[a].gen /\ ~ now.stopRequested

\* Mutant: the quota is looked at by the API and not where a login begins.
CanBeginOverQuota(was) == ~ was.active

\* What makes beginLogin throw: the quota, or a login already under way.
CanBegin(was) == ~ bot.overQuota /\ ~ was.active

\* attemptLogin up to its first request: the stored token is tried first, and
\* with none on file the QR is shown at once.
BeginLogin(r, was, qrFallback) ==
    /\ was.gen < MaxGen
    /\ \E a \in Attempts :
          /\ ~ Referenced(a)
          /\ rt' = [rt EXCEPT ![r] =
                [was EXCEPT !.gen = was.gen + 1, !.active = TRUE, !.loginRun = a]]
          /\ attempt' = [attempt EXCEPT ![a] =
                [pc |-> IF token # None THEN "resuming" ELSE "qr", rt |-> r,
                 gen |-> was.gen + 1, qrFallback |-> qrFallback,
                 mid |-> token, name |-> None]]
    /\ status' = "connecting"

\* The finally of beginLogin.
Settled(was, a) ==
    [was EXCEPT !.active = IF was.gen = attempt[a].gen THEN FALSE ELSE was.active,
                !.loginRun = IF was.loginRun = a THEN None ELSE was.loginRun]

\* attemptLogin returns: the locals of its closure are gone, and of the client it
\* made the account remains for as long as something refers to it.
Return(a, was) ==
    /\ attempt' = [attempt EXCEPT ![a].pc = "done", ![a].gen = 0, ![a].qrFallback = FALSE]
    /\ rt' = [rt EXCEPT ![attempt[a].rt] = Settled(was, a)]

\* Aborting listenAbort detaches that client's listeners.
TornDown(was) == [was EXCEPT !.client = None, !.listenAbort = None, !.excused = FALSE]

-----------------------------------------------------------------------------
\* stopBot.
Stopped(was) ==
    [TornDown(was) EXCEPT !.stopRequested = TRUE, !.retry = 0, !.watchdog = FALSE,
                          !.active = FALSE, !.gen = was.gen + 1, !.loginRun = None]

StopBot ==
    /\ rt' = IF runtime = None THEN rt ELSE [rt EXCEPT ![runtime] = Stopped(rt[runtime])]
    /\ listening' = IF runtime = None THEN listening ELSE listening \ {rt[runtime].listenAbort}
    /\ runtime' = None
    /\ status' = "offline"

NoStop == UNCHANGED <<runtime, rt, listening, status>>

Stop ==
    /\ bot.exists
    /\ StopBot
    /\ UNCHANGED <<attempt, probes, inflight, token, lock, exempt, bot, nameOf, boot, toResume,
                   crashes>>

\* startBot, called once the operator has accepted the confirmation page.
Start ==
    /\ bot.exists
    /\ \E r \in Runtimes, was \in {FreshRuntime} \cup {rt[q] : q \in Runtimes} :
          /\ Registered(r, was)
          /\ was.client = None /\ was.loginRun = None
          /\ runtime' = r
          /\ LET ready == [was EXCEPT !.stopRequested = FALSE, !.retry = 0] IN
                \/ CanBegin(ready) /\ BeginLogin(r, ready, TRUE)
                \/ /\ ~ CanBegin(ready)
                   /\ rt' = [rt EXCEPT ![r] = ready]
                   /\ UNCHANGED <<attempt, status>>
    /\ UNCHANGED <<listening, probes, inflight, token, lock, exempt, bot, nameOf, boot,
                   toResume, crashes>>

-----------------------------------------------------------------------------
\* evaluateIdLock.
IdLockOutcome(m, n) ==
    IF exempt \/ ~ bot.exists THEN "exempt"
    ELSE IF lock.mid = None THEN "first_login"
    ELSE IF lock.mid # m THEN "mismatch"
    ELSE IF lock.name \in {None, n} THEN "match"
    ELSE "name_mismatch"

Refused(outcome) == outcome \in {"mismatch", "name_mismatch"}

\* LINE accepted the credential: the lock decides whether this account may be
\* the bot, and its token is persisted and followed from here on.
LoggedIn(a, m) ==
    LET r == attempt[a].rt
        outcome == IdLockOutcome(m, nameOf[m])
    IN  \/ /\ Refused(outcome)
           /\ Return(a, TornDown(rt[r]))
           /\ listening' = listening \ {rt[r].listenAbort}
           /\ status' = "offline"
           /\ UNCHANGED <<token, lock, inflight>>
        \/ /\ ~ Refused(outcome)
           /\ rt' = [rt EXCEPT ![r].client = a, ![r].failures = 0,
                                ![r].excused = (outcome = "exempt")]
           /\ attempt' = [attempt EXCEPT ![a].pc = "preparing", ![a].mid = m, ![a].name = nameOf[m]]
           /\ lock' = CASE outcome = "exempt" -> lock
                        [] outcome = "first_login" -> [mid |-> m, name |-> nameOf[m]]
                        [] OTHER -> [lock EXCEPT !.name = IF @ = None THEN nameOf[m] ELSE @]
           /\ token' = m
           /\ inflight' = inflight \cup {a}
           /\ UNCHANGED <<status, listening>>

ResumeAccepted(a) ==
    /\ attempt[a].pc = "resuming" /\ Current(a)
    /\ \E m \in Mids : m = attempt[a].mid /\ LoggedIn(a, m)
    /\ UNCHANGED <<runtime, probes, exempt, bot, nameOf, boot, toResume, crashes>>

\* Mutant: an unattended resume that LINE refused returns without a word.
ResumeRejectedSilently(a) ==
    /\ attempt[a].pc = "resuming" /\ Current(a)
    /\ token' = None
    /\ \/ /\ attempt[a].qrFallback
          /\ attempt' = [attempt EXCEPT ![a].pc = "qr"]
          /\ UNCHANGED <<rt, status>>
       \/ /\ ~ attempt[a].qrFallback
          /\ Return(a, rt[attempt[a].rt])
          /\ UNCHANGED status
    /\ UNCHANGED <<runtime, listening, probes, inflight, lock, exempt, bot, nameOf, boot,
                   toResume, crashes>>

\* Only LINE's own rejection erases the token; then the QR, if anybody watches.
ResumeRejected(a) ==
    /\ attempt[a].pc = "resuming" /\ Current(a)
    /\ token' = None
    /\ \/ /\ attempt[a].qrFallback
          /\ attempt' = [attempt EXCEPT ![a].pc = "qr"]
          /\ UNCHANGED <<rt, status>>
       \/ /\ ~ attempt[a].qrFallback
          /\ Return(a, rt[attempt[a].rt])
          /\ status' = "offline"
    /\ UNCHANGED <<runtime, listening, probes, inflight, lock, exempt, bot, nameOf, boot,
                   toResume, crashes>>

QrScanned(a) ==
    /\ attempt[a].pc = "qr" /\ Current(a)
    /\ \E m \in Mids : LoggedIn(a, m)
    /\ UNCHANGED <<runtime, probes, exempt, bot, nameOf, boot, toResume, crashes>>

\* Mutant: the preparation forgets to ask whether it is still wanted.
PreparedUnchecked(a) ==
    LET r == attempt[a].rt IN
    /\ attempt[a].pc = "preparing"
    /\ Return(a, [rt[r] EXCEPT !.listenAbort = a, !.watchdog = TRUE])
    /\ listening' = listening \cup {a}
    /\ status' = "online"
    /\ UNCHANGED <<runtime, probes, inflight, token, lock, exempt, bot, nameOf, boot, toResume,
                   crashes>>

\* Caches, keys and paths are warm: attach the listeners, then say "online".
Prepared(a) ==
    LET r == attempt[a].rt IN
    /\ attempt[a].pc = "preparing" /\ Current(a)
    /\ Return(a, [rt[r] EXCEPT !.listenAbort = a, !.watchdog = TRUE])
    /\ listening' = listening \cup {a}
    /\ status' = "online"
    /\ UNCHANGED <<runtime, probes, inflight, token, lock, exempt, bot, nameOf, boot, toResume,
                   crashes>>

\* Mutant: the half-built session is left on the runtime.
CaughtKeepsClient(a) ==
    LET was == rt[attempt[a].rt] IN
    Return(a, IF attempt[a].qrFallback THEN [was EXCEPT !.retry = attempt[a].gen] ELSE was)

\* The catch of attemptLogin.
Caught(a) ==
    LET was == TornDown(rt[attempt[a].rt]) IN
    Return(a, IF attempt[a].qrFallback THEN [was EXCEPT !.retry = attempt[a].gen] ELSE was)

\* Mutant: the catch does not ask whether the attempt is still the current one.
LoginFailsUnchecked(a) ==
    /\ attempt[a].pc # "done"
    /\ Caught(a)
    /\ listening' = listening \ {rt[attempt[a].rt].listenAbort}
    /\ status' = "offline"
    /\ UNCHANGED <<runtime, probes, inflight, token, lock, exempt, bot, nameOf, boot, toResume,
                   crashes>>

LoginFails(a) ==
    /\ attempt[a].pc # "done" /\ Current(a)
    /\ Caught(a)
    /\ listening' = listening \ {rt[attempt[a].rt].listenAbort}
    /\ status' = "offline"
    /\ UNCHANGED <<runtime, probes, inflight, token, lock, exempt, bot, nameOf, boot, toResume,
                   crashes>>

\* Whatever an abandoned attempt was waiting for comes back: it returns without
\* a word, except that a rejected resume has erased the stored token by then.
StaleReturns(a) ==
    /\ attempt[a].pc # "done" /\ ~ Current(a)
    /\ Return(a, rt[attempt[a].rt])
    /\ token' \in {token} \cup IF attempt[a].pc = "resuming" THEN {None} ELSE {}
    /\ UNCHANGED <<runtime, listening, probes, inflight, lock, exempt, status, bot, nameOf,
                   boot, toResume, crashes>>

\* The retry timer armed by the catch above.
RetryFires(r) ==
    LET was == [rt[r] EXCEPT !.retry = 0]
        again == was.active /\ was.gen = rt[r].retry /\ ~ was.stopRequested /\ was.client = None
    IN
    /\ rt[r].retry # 0
    /\ IF again /\ CanBegin(was)
       THEN BeginLogin(r, was, TRUE)
       ELSE rt' = [rt EXCEPT ![r] = was] /\ UNCHANGED <<attempt, status>>
    /\ UNCHANGED <<runtime, listening, probes, inflight, token, lock, exempt, bot, nameOf, boot,
                   toResume, crashes>>

-----------------------------------------------------------------------------
\* The watchdog's interval: a fresh getMyProfile on the runtime's client.
WatchdogFires(r) ==
    /\ rt[r].watchdog /\ rt[r].client # None /\ ~ rt[r].stopRequested
    /\ rt[r].client \notin probes
    /\ probes' = probes \cup {rt[r].client}
    /\ UNCHANGED <<runtime, rt, attempt, listening, inflight, token, lock, exempt, status, bot,
                   nameOf, boot, toResume, crashes>>

\* Mutant: the profile compared with the lock is the one read at login.
ProbeSucceedsCached(c) ==
    LET r == attempt[c].rt
        m == attempt[c].mid
    IN
    /\ c \in probes
    /\ probes' = probes \ {c}
    /\ \/ rt[r].client # c /\ NoStop
       \/ rt[r].client = c /\ Refused(IdLockOutcome(m, attempt[c].name)) /\ StopBot
       \/ /\ rt[r].client = c /\ ~ Refused(IdLockOutcome(m, attempt[c].name))
          /\ rt' = [rt EXCEPT ![r].failures = 0]
          /\ UNCHANGED <<runtime, listening, status>>
    /\ UNCHANGED <<attempt, inflight, token, lock, exempt, bot, nameOf, boot, toResume,
                   crashes>>

ProbeSucceeds(c) ==
    LET r == attempt[c].rt
        m == attempt[c].mid
    IN
    /\ c \in probes
    /\ probes' = probes \ {c}
    /\ \/ rt[r].client # c /\ NoStop
       \/ rt[r].client = c /\ Refused(IdLockOutcome(m, nameOf[m])) /\ StopBot
       \/ /\ rt[r].client = c /\ ~ Refused(IdLockOutcome(m, nameOf[m]))
          /\ rt' = [rt EXCEPT ![r].failures = 0]
          /\ UNCHANGED <<runtime, listening, status>>
    /\ UNCHANGED <<attempt, inflight, token, lock, exempt, bot, nameOf, boot, toResume,
                   crashes>>

WATCHDOG_FAILURES_BEFORE_RECOVERY == 2

\* Drop the dead session and log in again; the stored token is tried first.
Rebuild(r, whenRefused) ==
    LET was == [TornDown(rt[r]) EXCEPT !.watchdog = FALSE, !.failures = 0] IN
    /\ listening' = listening \ {rt[r].listenAbort}
    /\ \/ CanBegin(was) /\ BeginLogin(r, was, TRUE)
       \/ ~ CanBegin(was) /\ rt' = [rt EXCEPT ![r] = was] /\ status' = whenRefused /\ UNCHANGED attempt

ProbeFails(c) ==
    LET r == attempt[c].rt
        last == rt[r].failures + 1 >= WATCHDOG_FAILURES_BEFORE_RECOVERY
    IN
    /\ c \in probes
    /\ probes' = probes \ {c}
    /\ \/ rt[r].client # c /\ UNCHANGED <<rt, attempt, listening, status>>
       \/ /\ rt[r].client = c /\ ~ last
          /\ rt' = [rt EXCEPT ![r].failures = @ + 1]
          /\ UNCHANGED <<attempt, listening, status>>
       \/ rt[r].client = c /\ last /\ Rebuild(r, "offline")
    /\ UNCHANGED <<runtime, inflight, token, lock, exempt, bot, nameOf, boot, toResume,
                   crashes>>

\* reconnectAfterListenerLoss, on a ListenerStopped report or a hopeless stall.
ListenerLost(c) ==
    LET r == attempt[c].rt IN
    /\ bot.exists
    /\ c \in listening /\ rt[r].client = c /\ ~ rt[r].stopRequested /\ rt[r].loginRun = None
    /\ Rebuild(r, status)
    /\ UNCHANGED <<runtime, probes, inflight, token, lock, exempt, bot, nameOf, boot, toResume,
                   crashes>>

\* The update:authtoken listener of a client, which is never taken off: an
\* answer to a request still outstanding when the session ended counts too.
TokenRotates(c) ==
    /\ c \in inflight
    /\ token' = attempt[c].mid
    /\ UNCHANGED <<memory, lock, exempt, status, bot, nameOf, boot, toResume, crashes>>

LastAnswer(c) ==
    /\ c \in inflight /\ \A r \in Runtimes : rt[r].client # c
    /\ inflight' = inflight \ {c}
    /\ UNCHANGED <<runtime, rt, attempt, listening, probes, token, lock, exempt, status, bot,
                   nameOf, boot, toResume, crashes>>

-----------------------------------------------------------------------------
\* Mutant: a session still logging in is not logged off first.
LogOffWhenOnline == IF status = "online" THEN StopBot ELSE NoStop

\* POST /reset-id-lock and /force-relogin: log the session off, forget its token.
LogOff == IF status # "offline" THEN StopBot ELSE NoStop

ResetIdLock ==
    /\ bot.exists
    /\ LogOff
    /\ token' = None /\ lock' = NoLock
    /\ UNCHANGED <<attempt, probes, inflight, exempt, bot, nameOf, boot, toResume, crashes>>

ForceRelogin ==
    /\ bot.exists
    /\ LogOff
    /\ token' = None
    /\ UNCHANGED <<attempt, probes, inflight, lock, exempt, bot, nameOf, boot, toResume,
                   crashes>>

\* enforceBotQuota stops the bots before the lower quota is stored.
LowerQuota ==
    /\ bot.exists /\ ~ bot.overQuota
    /\ StopBot
    /\ bot' = [bot EXCEPT !.overQuota = TRUE]
    /\ UNCHANGED <<attempt, probes, inflight, token, lock, exempt, nameOf, boot, toResume,
                   crashes>>

RaiseQuota ==
    /\ bot.overQuota
    /\ bot' = [bot EXCEPT !.overQuota = FALSE]
    /\ UNCHANGED <<memory, token, lock, exempt, status, nameOf, boot, toResume, crashes>>

\* PATCH /users/:id grants the owner the exemption or withdraws it: from then on
\* evaluateIdLock answers by it, and nothing looks at the sessions already there.
SetExemption ==
    /\ exempt' = ~ exempt
    /\ UNCHANGED <<memory, token, lock, status, bot, nameOf, boot, toResume, crashes>>

DeleteBotSession ==
    /\ bot.exists
    /\ StopBot
    /\ token' = None
    /\ bot' = [exists |-> FALSE, overQuota |-> FALSE]
    /\ UNCHANGED <<attempt, probes, inflight, lock, exempt, nameOf, boot, toResume, crashes>>

\* The owner renames an account in the LINE app.
Rename ==
    /\ \E m \in Mids, n \in Names : nameOf' = [nameOf EXCEPT ![m] = n]
    /\ UNCHANGED <<memory, token, lock, exempt, status, bot, boot, toResume, crashes>>

-----------------------------------------------------------------------------
\* The process dies; the next one resets the statuses the dead one left.
CrashAndBoot ==
    /\ crashes < MaxCrashes
    /\ crashes' = crashes + 1
    /\ runtime' = None
    /\ rt' = [r \in Runtimes |-> FreshRuntime]
    /\ \E r \in Runtimes : attempt' = [a \in Attempts |-> NoAttempt(r)]
    /\ listening' = {} /\ probes' = {} /\ inflight' = {}
    /\ toResume' = (status # "offline")
    /\ status' = "offline"
    /\ boot' = "resume"
    /\ UNCHANGED <<token, lock, exempt, bot, nameOf>>

\* sweepLegacyIdLockNames, in the boot that adds the name to the lock.
SweepLegacyIdLockNames ==
    /\ boot = "sweep"
    /\ boot' = "resume"
    /\ IF bot.exists /\ lock.mid # None /\ lock.name = None
       THEN LogOff /\ token' = None
       ELSE NoStop /\ UNCHANGED token
    /\ UNCHANGED <<attempt, probes, inflight, lock, exempt, bot, nameOf, toResume, crashes>>

\* resumePreviouslyRunningBots, once it has found a warm route.
Resumable == toResume /\ bot.exists /\ token # None /\ Live = None

ResumePreviouslyRunning ==
    /\ boot = "resume"
    /\ boot' = "done"
    /\ toResume' = FALSE
    /\ \/ Resumable = FALSE /\ UNCHANGED <<runtime, rt, attempt, status>>
       \/ /\ Resumable
          /\ \E r \in Runtimes, was \in {FreshRuntime} \cup {rt[q] : q \in Runtimes} :
                /\ Registered(r, was)
                /\ runtime' = r
                /\ LET ready == [was EXCEPT !.stopRequested = FALSE] IN
                      \/ CanBegin(ready) /\ BeginLogin(r, ready, FALSE)
                      \/ /\ ~ CanBegin(ready)
                         /\ rt' = [rt EXCEPT ![r] = ready]
                         /\ UNCHANGED <<attempt, status>>
    /\ UNCHANGED <<listening, probes, inflight, token, lock, exempt, bot, nameOf, crashes>>

-----------------------------------------------------------------------------
LoginStep(a) ==
    \/ ResumeAccepted(a) \/ ResumeRejected(a) \/ QrScanned(a)
    \/ Prepared(a) \/ LoginFails(a) \/ StaleReturns(a)

ProbeAnswered(c) == ProbeSucceeds(c) \/ ProbeFails(c)

Operator == Start \/ Stop \/ ResetIdLock \/ ForceRelogin \/ LowerQuota \/ RaiseQuota \/ SetExemption
            \/ DeleteBotSession

Next ==
    \/ Operator
    \/ \E a \in Attempts : LoginStep(a)
    \/ \E r \in Runtimes : RetryFires(r) \/ WatchdogFires(r)
    \/ \E c \in Attempts : ProbeAnswered(c) \/ ListenerLost(c) \/ TokenRotates(c) \/ LastAnswer(c)
    \/ Rename
    \/ CrashAndBoot \/ SweepLegacyIdLockNames \/ ResumePreviouslyRunning

Spec == Init /\ [][Next]_vars

\* Every login ends (LINE's QR and the requests time out), timers fire, and
\* getMyProfile is answered or fails.  Operators and LINE owe nothing.
FairSpec ==
    /\ Spec
    /\ \A a \in Attempts : WF_vars(LoginStep(a)) /\ WF_vars(ProbeAnswered(a))
    /\ \A r \in Runtimes : WF_vars(RetryFires(r)) /\ WF_vars(WatchdogFires(r))

-----------------------------------------------------------------------------
RuntimeType ==
    [stopRequested : BOOLEAN, gen : Nat, active : BOOLEAN, client : Attempts \cup {None},
     loginRun : Attempts \cup {None}, retry : Nat, watchdog : BOOLEAN, failures : {0, 1},
     listenAbort : Attempts \cup {None}, excused : BOOLEAN]

AttemptType ==
    [pc : {"resuming", "qr", "preparing", "done"}, rt : Runtimes, gen : Nat,
     qrFallback : BOOLEAN, mid : Mids \cup {None}, name : Names \cup {None}]

TypeOK ==
    /\ runtime \in Runtimes \cup {None}
    /\ rt \in [Runtimes -> RuntimeType]
    /\ attempt \in [Attempts -> AttemptType]
    /\ listening \in SUBSET Attempts
    /\ probes \in SUBSET Attempts
    /\ inflight \in SUBSET Attempts
    /\ token \in Mids \cup {None}
    /\ lock \in [mid : Mids \cup {None}, name : Names \cup {None}]
    /\ exempt \in BOOLEAN
    /\ status \in {"offline", "connecting", "online"}
    /\ bot \in [exists : BOOLEAN, overQuota : BOOLEAN]
    /\ nameOf \in [Mids -> Names]
    /\ boot \in {"sweep", "resume", "done"}
    /\ toResume \in BOOLEAN
    /\ crashes \in Nat

\* However starts, stops, failures and rebuilds interleave with logins still
\* waiting for LINE, only the session of the registered runtime listens, and a
\* runtime that left the map holds no client, timer or open login.
SingleSession ==
    /\ listening \subseteq {Live}
    /\ \A r \in Runtimes \ {runtime} :
          /\ rt[r].client = None /\ ~ rt[r].watchdog
          /\ rt[r].retry = 0 /\ ~ rt[r].active

\* The dashboard does not lie: an "online" bot has a session that listens and a
\* watchdog over it, a "connecting" one has a login under way that still counts,
\* and an "offline" one holds nothing that would make startBot refuse.
StatusIsTrue ==
    /\ status = "online" => Live # None /\ Live \in listening /\ rt[runtime].watchdog
    /\ status = "connecting" =>
          \E a \in Attempts : attempt[a].pc # "done" /\ attempt[a].rt = runtime /\ Current(a)
    /\ status = "offline" =>
          Live = None /\ listening = {} /\ (runtime # None => rt[runtime].loginRun = None)

\* One LINE account per bot: whatever resets, sweeps, stale tokens, scans and changes
\* of the owner's exemption came before or come while it runs, the session a bot holds
\* is of the account and the name it is locked to, unless the lock was passed over
\* when it logged in.
LiveSessionMatchesLock ==
    Live # None /\ ~ rt[runtime].excused =>
        lock = [mid |-> attempt[Live].mid, name |-> attempt[Live].name]

\* No way to begin a session (start, retry, watchdog, listener loss, resume after
\* a restart) runs a bot that is past its owner's quota or was deleted.
OverQuotaNeverRuns == bot.overQuota \/ ~ bot.exists => status = "offline"

\* A login whose runtime was dropped while it waited returns without touching the
\* session, the status or the lock of whatever was started after it.
StaleAttemptsAreInert ==
    [][\A a \in Attempts :
          attempt[a].pc # "done" /\ attempt'[a].pc # attempt[a].pc /\ attempt[a].rt # runtime
          /\ crashes' = crashes
              => UNCHANGED <<runtime, listening, status, lock, inflight>>]_vars

AccountOf(c) == [mid |-> attempt[c].mid, name |-> attempt[c].name]

Serving == {AccountOf(c) : c \in {Live} \ {None}}

Heard == {AccountOf(c) : c \in listening}

Allowed == bot.exists /\ ~ bot.overQuota

Service == INSTANCE SessionService WITH serving <- Serving, heard <- Heard, allowed <- Allowed

\* Runtimes, attempts, timers, probes and stored tokens are a session service of
\* one account to whoever looks from outside: see SessionService.
ServiceSpec == Service!Spec

\* No login leaves the bot "connecting" for ever.
EveryLoginSettles == status = "connecting" ~> status # "connecting"

\* An account renamed while its bot is online, or found not to fit a recorded lock
\* once its owner's exemption is withdrawn, is thrown out by the watchdog, through
\* lost probes and rebuilds, unless it takes its name back or is excused again.
RenameIsCaught ==
    \A c \in Attempts :
        Live = c /\ status = "online" /\ Refused(IdLockOutcome(attempt[c].mid, nameOf[attempt[c].mid]))
            ~> Live # c \/ ~ Refused(IdLockOutcome(attempt[c].mid, nameOf[attempt[c].mid]))

\* README: an unscanned QR "auto-refreshes with a new one (keeps retrying until
\* scanned or you hit stop)"; the retry timer of the catch is what does it.
RetryRestartsLogin ==
    \A r \in Runtimes : rt[r].retry # 0 ~> status # "offline" \/ r # runtime

=============================================================================
