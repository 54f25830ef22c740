# Verification of the LINE bot console

TLA+ specifications of the backend of this repository, the TLC configurations that
model-check them, and proofs of their main properties checked by TLAPS. Paths are
relative to `src/backend/src/` unless they begin with another directory; `SM` is
`bot/session-manager.ts`.

The system answers messages in LINE OpenChats and chats on behalf of LINE accounts
("bots"). One Bun process holds every session: it logs bots in, listens to LINE by push
and by polling, matches rules, sends replies over pre-warmed connections (its own HTTP/2
lanes or a small Go relay), and keeps its state in SQLite. Operators use an HTTP API and a
React dashboard. JavaScript runs one turn at a time, so what makes the system hard is not
data races but the awaits: everything read before one may be stale after it.

1. [Inventory](#inventory)
2. [Modules and how they correspond to the code](#modules-and-how-they-correspond-to-the-code)
3. [Runs, bounds and fairness](#runs-bounds-and-fairness)
4. [Proofs](#proofs)
5. [Where the code and its documents disagree](#where-the-code-and-its-documents-disagree)
6. [What is not modelled](#what-is-not-modelled)
7. [Plan](#plan)

## Inventory

### How the parts interact

```
 operator -> HTTP API -> session lifecycle <-> LINE (login, watchdog probe, token rotation)
                              |  listeners
 LINE push ---+               v
 (+ stall watch)              |
 fast poll ---+--> reply pipeline --> rate limiter --> send lanes / Go relay --> LINE
                    |   ^                                       |
                    |   +--- echoes of own and siblings' replies-+
                    +--> reply defense <--- deletion events, visibility check
 scheduled posts ------> rate limiter
 session lifecycle, clients --> write-behind storage --> writer worker --> SQLite
```

Calls within the process are synchronous. Messages exist in three places: LINE's
deliveries (at least once, from two independent streams, in any order), the `postMessage`
channel to the writer worker (in order, lost with the process), and the requests to LINE
(each may fail, or succeed with its answer lost).

### Components

**Session lifecycle** (`SM`, `bot/session-attempt.ts`, `bot/bots.ts`, the session routes of
`api/routes/bot-detail.ts` and `users.ts`).
State: the map of runtimes, and per runtime the client, the login under way and its
generation, the retry and watchdog timers, the abort handle of the listeners; in the
database the status, the stored auth token, the account and the display name the bot is
locked to; the owner's quota and exemption from the lock.
Operations: start, stop, resume after a restart, the two login paths (stored token, QR), the
retry after a failed login, the watchdog's probe and rebuild, the rebuild after a lost
listener, token rotation, `reset-id-lock`, `force-relogin`, changing the quota, granting and withdrawing the exemption, deletion.
Hard: `stopBot` drops the runtime while its login still waits for LINE, so several logins of
one bot are in flight; probes, listener loss and operators act in between; the process may
die at any point.
Correct when: one session per bot, the status true, the session of the locked account unless
exempt when it logged in, no session past the quota, and an abandoned login touches nothing.

**Reply pipeline** (`handleIncoming` of `SM`, `bot/reply-guard.ts`, `bot/primary-bot.ts`,
`bot/automatic-reply-echo.ts`, `bot/reply-defense.ts` for the variants).
State: three bounded claim maps with a time to live, the pending and the seen echoes, the
last reply per room, the hand-picked answerer.
Operations: a delivery (duplicate, own message, echo, no rule, sibling was first, answer),
the end of a send, stop, lost listener, hand-picking.
Hard: several bots of one owner sit in one room, each is told of every message any number
of times, and their own replies come back to them before or after the request returns.
Correct when: one reply per message and owner; bots never answer each other; no bot is
silenced by one that has nothing to say.

**Reply defense** (`bot/reply-defense.ts`, `resendDestroyedReply` and
`noteSquareSendResult` of `SM`).
State: replies by message id with the resends behind them, resends waiting for their
jitter, the last text and variant.
Operations: reply, answer to the request, deletion noticed (by push, by poller, by the
visibility check), jitter over, stop, rebuild, expiry.
Hard: one deletion is reported several times, and a resend is deleted in turn.
Correct when: a reply is resent `MAX_RESENDS` times at most, and two messages in a row do
not have the same bytes.

**Rate limiter** (`bot/rate-limiter.ts`).
State: per bot, the times of its sends in the window. Operations: `tryAcquireSend`,
`clearThrottle`. Hard: the edges of the window. Correct when: no window holds more sends
than the limit, a refusal only happens at the limit, and the wait it announces is exact.

**Write-behind storage** (`db/sqlite-storage.ts`, `db/write-behind.ts`,
`db/sqlite-writer.worker.ts`).
State: a mirror of the rows per bot, the channel, the worker's batch and timer, the table.
Operations: open, set, delete, clear, flush (commit, refusal, escaped error), deletion of a
bot through the main thread's own connection, crash and restart.
Hard: reads come from memory and writes lag behind in two queues; batches fail; a deletion
overtakes the queues.
Correct when: nothing issued is lost while the process lives, order is kept, batches are all
or nothing, the mirror is never behind, a deleted bot stays deleted.

**Scheduled posts** (`bot/scheduled-posts.ts`, the timers of `SM`, the routes of `bot-detail.ts`).
State: a row per post (time, enabled, sent), a timer per post with a copy of the row, the sends under way.
Operations: create, edit, delete, a timer's stage, its firing (nothing to do, missed, refused, sent), the
end of the send, deletion of the bot, restart.
Hard: `setTimeout` cannot wait 25 days, so timers are staged; the send is awaited and its result is written to
whatever the row is by then; the rows survive a restart and the timers do not.
Correct when: a post goes out at its time or not at all, once per content, is never left pending with nobody
to see to it, and counts against the account's limit like any other send.

**Start confirmation** (`bot/start-confirmation.ts`, `api/routes/confirm.ts`, `/start` of `bot-detail.ts`).
State: a row per token (bot, status, creation time), the status of the bot.
Operations: press start (prune, reuse, create), accept, decline, deletion of the bot.
Hard: several processes serve the routes over one database, so handlers interleave between statements; a token is
looked up, judged and claimed by different statements.
Correct when: one open question per bot, one answer and in time, and an accepted question leads to one login.

**OpenChat receiving and stall watch** (`linejs-core/base/polling/mod.ts`, `base/push/connManager.ts`,
`rearm_policy.ts`, `async-queue.ts`, `bot/square-stall-policy.ts`, the watch of `SM`).
State: the push connection and its loop, the long polls waiting on it, the queue of answers and notifications, the sync
token, the ages of the last answer and the last refresh, what the watch has tried.
Operations: connection made or ended, answer, notification, fetch, re-arm after a delay, the watch's steps (re-arm, close, rebuild),
the proactive refresh, loss of the session.
Hard: only an answer starts the next poll, two ways of fetching share one token, and the watch acts on a connection that is being replaced.
Correct when: no event is skipped, only LINE ends the chain, and not for good, and silence ends in an answer or a new session.

**Fast OpenChat polling** (`bot/fast-square-poller.ts`, `fast-poll-room.ts`, `square-poll-quiet.ts`, `room-coverage.ts`,
`syncFastSquarePollers` of `SM`).
State: the slots of the process, each bot's poller with its room and pace, rooms LINE denied.
Operations: login, loss, stop, room and rule edits, denial, reselection, the deferred rebalance.
Hard: each calls for its own bot's pollers, some for the siblings' and some for everybody's.
Correct when: no slot is idle while somebody polls slowly, each bot with a room polls one, nobody is slowed down by a newcomer.

**Send lanes** (`dispatch/h2-lanes.ts`, the fallback of `dispatch/client.ts`).
State: per lane its state, session, reconnect timer, load and measurements; per session its streams; the warmer.
Operations: dial, connect, fail, GOAWAY, error, close, ping, send, answer, abort, reconnect, warm-up, recycling, repair, stop.
Hard: a lane is redialled while events of its old session and requests on it are still to come; callbacks know the lane only.
Correct when: loads are exact, a dead lane comes back, no socket is left behind, and maintenance takes no request down.

**Dispatch client and Go relay** (`dispatch/client.ts`, `backend/sender/*.go`). A stateless
relay, which sends a request a second time after a GOAWAY.

**Reply rules, chats and access, forensics, dashboard sessions and users, HTTP API, alerts
and metrics, schema, sharding, the vendored LINE client, the frontend**: see
[What is not modelled](#what-is-not-modelled).

`PROJECT.json` lists every component with its sources, and every hazard with its line.

## Modules and how they correspond to the code

| Module | Models | Abstract specification | Proofs |
|---|---|---|---|
| `SessionLifecycle` | session lifecycle | `SessionService` | `SessionLifecycle_proofs` |
| `ReplyPipeline` | reply pipeline | | `ReplyPipeline_proofs` |
| `ReplyDefense` | reply defense | | `ReplyDefense_proofs` |
| `WriteBehind` | write-behind storage | `DurableLog` | `WriteBehind_proofs` |
| `RateLimiter` | rate limiter | | `ScheduledPosts_proofs` |
| `ScheduledPosts` (extends `RateLimiter`) | scheduled posts and the limiter they share | | `ScheduledPosts_proofs` |
| `StartConfirmation` | start confirmation | `OneShotConsent` | `StartConfirmation_proofs` |
| `H2Lanes` | send lanes | | `H2Lanes_proofs` |
| `FastPollSlots` | slots, rooms and paces of the fast pollers | | `Receiving_proofs` |
| `SquareReceive` | OpenChat receiving and stall watch | | `Receiving_proofs` |

Each has an `MC` module with the values TLC needs. A definition whose comment begins with
"Mutant:" is a plausible bug in the definition after it; no specification uses it, and
`PROJECT.json` names the property that must fail when it takes the place of the original.

**`SessionLifecycle`** is about one bot. An action is the code between two awaits that
reach the network, a timer or an operator; awaits on the storage resolve from memory and are
not preemption points that matter. `runtime` is the entry of the map; `rt` holds every runtime object that
something still refers to, with the fields of `BotRuntime`; `attempt` is every
`attemptLogin` still waiting (its `pc` says for what: the stored token's answer, the QR, or
the preparation after the login), and the client it made bears its name. `Current` is
`isCurrentAttempt`, `CanBegin`/`BeginLogin`/`Settled` are `beginLogin` with its gate and
its `finally`, `LoggedIn` is everything from the accepted credential to the next await,
`Caught` the catch. `listening`, `probes` and `inflight` are listeners, watchdog requests and
other requests that outlive the objects they belong to. `StaleReturns` is an
abandoned login coming back. Free runtimes and attempts are used
again: a runtime nothing refers to has been collected. Taken as given: `startBot` is called
for a confirmed bot (start confirmation is a component of its own), and the QR login's
phases shown to the operator change nothing else.
`SessionService` states what all this amounts to from outside: connect, admit one account that fits the lock, listen, end. The owner's exemption is state of both modules: `IdLockOutcome` reads `exempt` at every evaluation, as
`isIdLockExempt` does, and `SetExemption` is the branch of `PATCH /users/:id` that flips it under whatever session there is
(deactivating a user is `Stop`). `excused` is a history field of a runtime: its session was let in past the lock. The
refinement maps `serving` to the account of the registered runtime's client, `heard` to the accounts of the clients whose listeners are
attached, and `allowed` to a bot that exists within its owner's quota.

**`ReplyPipeline`** is about one room. From a delivery to the request there is no await, so
`handleIncoming` is one action, `Deliver`, with one disjunct per way out: `Duplicate`,
`OwnMessage`, `Echo`, `Unanswered`, `Outrun`, `Answer`. The claim maps are sequences, oldest entry
first; `Claim` evicts at `MAX_CLAIMS`, `ClaimExpires` is the time to live. `Sender` is
`primaryBotIdFor` with the fallback of `handleIncoming`. LINE is modelled as what it may do:
post a reply and answer the request (`ReplyPosted`), post it and lose the answer, or fail
(`ReplyFails`). Texts are a rule's text and the number of its invisible mark, since the
echo is recognised by its bytes and those are what the bytes consist of. A bot's rules are a table.

**`ReplyDefense`** is about one bot in one room. A request in `sends` has no id until LINE
posts it; deletion may happen from then on, and the code knows the id only when the answer
comes (`Answered`). `Noticed` is any of the three reports: nothing of it depends on which.
`chains` counts the resends that really happened per reply to a person, whereas `tracked`
carries the count the code believes. `handed` holds the last two texts handed to the network.

**`WriteBehind`** covers three clocks: the main thread (`Open`, `Set`, `Delete`,
`DeleteBot`), the channel (`Deliver`), the worker (`Commit`, `FlushRefused`, `FlushThrows`,
`FlushDeaf`). An operation gives a set of keys one value, which is `kv_set`, `kv_delete`
and `kv_clear`. `After` is what replaying operations over a table makes of a row: the last one that
touches it wins. `issued` and `durable` are history. A retry delay is "later". `DurableLog`
states the promise: one log in the order of issue, a durable prefix that only grows, and a crash that
costs no more than the rest of it. The refinement maps `log` to `kept`, what is on
disk or on its way there (`durable \o pending \o channel`), and `saved` to `Len(durable)`. `kept` is `issued` as long as no statement
throws outside the `try` (`NothingLost`); after that `lost` is what the dropped batches held.

**`RateLimiter`** counts time in ticks. `TryAcquireSend` finds the expired prefix, splices it
off and admits or refuses; the queue's moving head and its compaction are modelled by what the queue holds.

**`ScheduledPosts`** composes the posts with the limiter: `FireSend` is the firing as far as the first await, with the
limiter's own admission or refusal, and `OtherSend` is any reply of the same account. A content is the number of its submission
(`revisions`), which stands for text and target. `Land` is LINE posting the message, `Settle` the end of the await,
successful or not; what it writes goes to the row as it is then, whoever edited it meanwhile. `CrashAndBoot` loses timers, clients and the limiter's memory, keeps the rows, and
lets LINE post what was on its way. Left out: the echo a post is registered as (`SM:2593`), which is state of `ReplyPipeline`.

**`StartConfirmation`** has one action per SQL statement: `turn` is the handler each process is in, between two of
them, with what it has read. `Pruned`, `PendingForBot` and `Resolves` are the `WHERE` clauses. The bot's own life
is `SessionMoves`. `last`, `logins` and `unstarted` are history. `inWorkerScope` (not in the repository) is "the owner's
process". `OneShotConsent` states what the page promises; the refinement maps a token's row to its question,
where a pruned or expired row is void.

**`H2Lanes`**: `state`, `session`, `timer`, `inFlight`, `measured` are the fields of a lane; `dials`, `alive`, `closing` and
`streams` are what Node keeps of sessions and their requests. A callback knows its lane, so an action on an old session changes what the lane has
by then. `Retire` is `retireLane`, for a set of lanes where one step of the code retires several. `Open` is `openLane`
to its first await, `DialSucceeds`/`DialFails` its two endings, `Settle` the end of a request in
`laneFetch` or a HEAD in `primeLanes`. `redialed` and `stale` are history.

**`FastPollSlots`**: nothing in it awaits, except a rule edit (`saving`), so one action is one synchronous run with every call it makes:
`Align` is `syncFastSquarePollers` for one bot, `Followed` and `Sync` add the siblings it nudges, `Synced` is a run of calls for the bots of a
list, and `Handles` one for those a handler calls for, in any order. `Favourites` is where the traffic points the choice of a room. Each bot polls one room (the default).

**`SquareReceive`** counts time in runs of the watch. `requests` are long polls on the connection by the token they carry, `delayed`
the re-arms in their idle delay, `queue` what `squareFetchQueue` holds. `Plan` is `planStallRecovery`, `Watch` one
run of the interval with everything it does. LINE is external: it answers a
request with all events after its token, and one without a token from the start of the session (`Answer`); or it answers with an
error or something unreadable, which re-arms nothing, before or after the arrival is stamped (`Refuse`); or it never answers (`Forget`).
`Send` puts a request on the connection there is. `broken` is history: LINE refused or ignored a request of the connection and has
neither answered nor been sent another since.

## Runs, bounds and fairness

| Run | Shows | Instance | Distinct states |
|---|---|---|---|
| `session` | one session, true status, locked account, inert stale logins, refinement of `SessionService` | 2 runtimes, 2 logins, 2 accounts, 1 restart, 2 logins per runtime, an exemption that comes and goes | 566 k |
| `session_renames` | logins settle; a session the lock refuses is caught | 1 runtime, 2 logins, 1 account, 2 names, the exemption | 332 k |
| `session_retry` | **violated**: the retry shows a fresh QR | 1 runtime, fair | |
| `reply` | bots do not answer each other; triggers are answered | 2 siblings and a stranger's bot, 2 messages, refusals | 540 k |
| `reply_upsets` | types and caps; one answer per owner | 2 siblings, 2 messages, claim maps of 3, one stop, lost listener, expired claim or expired echo | 821 k |
| `defense` | resend budget, no repetition | 2 replies, 2 texts, 3 variants, 2 resends, one stop, rebuild or expiry | 234 k |
| `write` | mirror, order, nothing lost, deletion final, refinement of `DurableLog`, every write lands | 2 bots, 2 keys, 3 operations, crashes, refusals, broken workers, late writes | 410 k |
| `posts` | limiter's window and wait; posts on time, armed, once, decided | 1 bot, 1 post at time 1 or 4, 2 sends per window of 3, 5 ticks, 3 contents, 1 crash | 410 k |
| `confirm` | accepted means started; refinement of `OneShotConsent` | 2 bots, 2 tokens, 2 processes, life of 2 ticks, 1 crash | 1.1 M |
| `lanes` | exact loads, lanes return, no leaks, own measurements, gentle maintenance | 2 lanes, 3 sessions, 1 request | 192 k |
| `slots` | no idle slot, coverage, denied rooms, stable admission | 3 bots of 2 owners, 2 rooms, 1 slot | 60 k |
| `receive` | nothing skipped, chain kept, bounded silence, events heard | 2 events, queue of 1 notification, 1 break, 2 chains | 281 k |

Why the bounds are enough:

- `session`: the interesting cases need a login that waits under a dropped runtime and a new
  one under its successor, hence two of each. Two accounts make a mismatch possible.
  `MaxGen` bounds the logins of one runtime object (a bound in `BeginLogin`), `MaxCrashes` the restarts. Runtimes, attempts,
  accounts and names are symmetric. The view `Seen` leaves out what remains in objects nothing refers to; every
  action overwrites it before reading it, so it separates no two states, and the properties
  do not mention it. No liveness is checked under symmetry.
- `reply`: a sibling with the answer to the other's answer (`ping`/`pong`) is the loop the
  echo tracking is for; the third bot shows that owners do not affect each other. The first
  message is a person's and the second a reply, so a reply is delivered to all, before and after it is acknowledged, with
  own member mids resolved or not. Claim maps of 6 do not evict here: eviction is what `reply_upsets` is about. Two messages cannot hold a reply of one owner and the same
  bytes from a bot of another, the case in which an echo is taken for the wrong message (below); the theorem covers any number of messages.
- `reply_upsets`: claim maps of 3 overflow with two bots and two messages, so an entry a sibling still needs is given up. Messages may be posted
  from a bot's own account (the operator's phone). `MaxUpsets` allows one stop, lost listener or expiry, of a claim (`ClaimExpires`) or of an echo (`EchoExpires`).
- `defense`: two replies let a resend of one come between the other's send and its deletion;
  a budget of two needs a resend of a resend; three variants tell "next" from "other".
- `write`: three operations put one on disk, one in a refused batch and one in the channel. Two keys tell `clear`
  from `delete`; the second bot shows that a deletion spares its neighbour.
- `posts`: two sends per window are the least limit with an oldest and a newest entry; a crash moves the clock, so the five
  ticks cover a window that fills, drains and fills again. Time 4 is past the longest timeout of 2, so a timer is staged, and time 1 is not. Three contents
  allow an edit while the send of the one before is under way, with another behind it. The history is cut by `MaxTime`.
- `confirm`: two processes are needed for two handlers between their statements; two tokens for one that expires and its successor; a
  life of two ticks for a token that is fresh, at its last moment and expired. Tokens are symmetric; the refinement is a safety property.
- `lanes`: two lanes are the least pool in which one may be retired while the other serves. Three sessions are one per lane and one left over
  from a lane that was redialled; a session's number is used again when nothing refers to it. After such a redial
  (`redialed`) the constraint follows only states with `MaxAfterRedial` sessions, as those properties that except it say nothing there. `SendLanes` is empty: the partition is a parameter of
  the proofs.
- `slots`: one slot for three bots makes them compete; two bots of one owner nudge each other and the third must be reached by the rebalance. Operators
  edit one bot (`Edited`); the others' settings are any at the start.
- `receive`: stall, cooldown and escalation of two runs each tell "first" from "again". One break of any kind (a request refused or ignored, a connection or a session lost) at any moment, after
  which the rest of the watch's ladder is climbed. `Bounded` follows two chains of polls at once, one more than the code means to have.

Actions that a run disables by its `Events` are named in the cfg:
`reply` leaves out the events under which its properties are known to fail (below). Deadlock is checked where the system runs for ever;
`defense`, `write`, `posts`, `confirm`, `lanes`, `slots` and `receive` may stop when their bounds are used up, or when the pool is stopped.

Fairness:

- `SessionLifecycle`: weak fairness of each login's next step (LINE answers, refuses, or the request and
  the QR time out: it ends somehow), of timers, and of the answer to a probe. The choice
  between success and failure is not fair, nor is anything an operator does. `EveryLoginSettles` and
  `RenameIsCaught` need no more; `RetryRestartsLogin` is refuted under the same assumption.
- `WriteBehind`: weak fairness of the worker's event loop (start, receive), strong fairness of `Commit`, which says
  that a flush tried again and again is not refused for ever. Without it a full disk would refute `EveryWriteLands`.
- `ScheduledPosts`: time passes, due timers run, and an awaited send returns (it has a timeout): weak fairness of each.
- `H2Lanes`, per lane: weak fairness of the reconnect timer, the close of a stream and the close event of a session, which Node delivers;
  strong fairness of a successful dial, as a network that never works again would refute `LaneReturns`.
- `SquareReceive`: weak fairness of the loop's steps, of LINE's answers, of callbacks, of the watch's interval and of the
  end of a rebuild. Breaks and refused or unanswered requests happen at most `MaxBreaks` times, which is the fairness towards LINE:
  answers that cannot be read, each of which counts as an arrival, would otherwise keep the watch content for ever.

Assumptions about timing: a lane's destroyed session reports before the reconnect timer of at least 250 ms; a HEAD (10 s) ends before the
warmer's next round (25 s); a fetch of OpenChat events ends within its 30 s timeout.

`AnswerOnce` is relative to `released`: the code itself gives a claim up when its bot is
stopped, when the time is up or the map is full, and then answers a redelivered message again.
`TriggersAreAnswered` counts a reply as begun when the room is claimed and the answerer chosen, not when LINE has it.
`NoSelfAnswer` leaves out replies whose bytes were sent twice while tracked, or are also those of a message of somebody else, a person or another owner's bot
(`Ambiguous`), since nothing else identifies an echo.
`ChainKept` leaves out a connection on which LINE refused or ignored a request and has neither answered nor been sent one since (`broken`).
`LiveSessionMatchesLock` leaves out a session that was let in under an exemption (`excused`), until that session ends.
`NothingLost` leaves out a statement that throws outside the `try` (`threw`); `EveryWriteLands` counts only the operations such a statement dropped as gone (`lost`), so whatever comes
behind them must land, and leaves out a worker that never opened its database;
`DeletedStaysDeleted` the bots whose clear a crash or such a batch dropped, or behind whose clear something still under way wrote (`disturbed`).
`OncePerProcess` allows one more posting per restart: the record that a post went out is written after the answer.
`NoSocketLeaks`, `MeasuredOnThisRoute` and `LaneReturns` except a pool in which a lane was dialled over a session it still had.
`Covered` excepts a bot whose rule edit still awaits and one whose rules were copied (`unsynced`).

## Proofs

All theorems hold for every value of the constants that satisfies the named assumptions of
the module (`LimiterAssumption`, `LifecycleAssumption`, `PipelineAssumption`, `StorageAssumption`,
`DefenseAssumption`, `PostsAssumption`, `ConfirmationAssumption`, `LaneAssumption`, `SlotAssumption`, `ReceiveAssumption`). They are types and "the sentinel is not a value"; the defense also
assumes more than one variant, the lanes that the pool is finite and there are sessions enough to dial it, the pollers that the bots are finitely many and there is a slot, and receiving that the cooldown
is longer than a connection takes and shorter than the proactive refresh, as the constants of the code are. `NobodyAnswersTheirOwn` has a hypothesis of its own, `Undisturbed`: no stop, no lost answer and no expired
echo is among the `Events`; the code fails the property under each of them (below).

| Theorem | States |
|---|---|
| `ScheduledPosts_proofs!TypeCorrect`, `WindowBounded`, `RetryExact` | the limiter by itself: types; no window above the limit; the announced wait is exact |
| `SessionLifecycle_proofs!TypeCorrect`, `OneSession`, `StatusHonest`, `LockHolds`, `QuotaHolds`, `StaleInert`, `ImplementsService` | the safety properties of the session, and the refinement of `SessionService` |
| `ReplyPipeline_proofs!TypeCorrect`, `OneAnswer`, `NoTriggerIsLost`, `NobodyAnswersTheirOwn` | types and caps; one answer per message and owner; no trigger left to nobody; bots do not answer each other |
| `WriteBehind_proofs!TypeCorrect`, `CachesCurrent`, `DiskReplays`, `LosesNothing`, `DeletionIsFinal`, `ImplementsLog` | the storage under every fault, and the refinement of `DurableLog` |
| `ReplyDefense_proofs!TypeCorrect`, `BudgetKept`, `NeverRepeats` | types; budget; no repetition |
| `ScheduledPosts_proofs!PostTypesCorrect`, `PostsStayInWindow`, `RetryExactWithPosts`, `PostsAreOnTime`, `NoPostIsForgotten`, `PostsGoOutOnce` | the composition: the limiter's properties with posts among the sends, and the posts' own |
| `StartConfirmation_proofs!TypeCorrect`, `AcceptedMeansStarted`, `PageKept` | an acceptance leads to a login; the refinement of `OneShotConsent` |
| `H2Lanes_proofs!TypeCorrect`, `LoadExact`, `NoneForgotten`, `NoLeaks`, `OwnMeasures`, `ServesThroughout` | every safety property of the lanes |
| `Receiving_proofs!NothingIsSkipped`, `ChainIsKept`, `AttemptsCount`, `DeafnessIsBounded` | every safety property of receiving |
| `Receiving_proofs!NoSlotLiesIdle`, `RoomsAreCovered`, `DeniedRoomsAreLeftAlone`, `AdmissionIsStable`, `BudgetIsKept` | every property of the fast pollers, and the budget itself |

The arguments:

- **Limiter.** `WindowBound` is not inductive: an admission must know what the queue means.
  The invariant adds that for a bot not deleted the queue is exactly the tail of the history
  and everything before it has left the window (`TailOf`). Time only extends the expired part,
  splicing keeps a tail, and an admission with a queue below the limit is
  therefore at least a window after the send `MaxSends` places back. A deleted bot's history no longer
  has a queue, but it no longer grows either. The exact wait follows from the same tail: the oldest entry in the queue is the one that has to leave.
- **Session.** The invariant (`IInv`) says that a runtime outside the map is idle, and that the registered
  one is in exactly one of four shapes: idle, waiting for LINE without a client, preparing with
  the client of its open login, or online. With it go: the listeners are those of
  the registered runtime, an open attempt under the registered runtime is the one it waits
  for, and a probe only belongs to a finished login. The last two are what
  rules out that a late answer acts on a successor. Each action leads from one shape to
  another; `SingleSession` and `StatusIsTrue` are then read off the shapes. The lock and quota
  properties are inductive together with it: an exemption that changes under a session touches neither its lock nor `excused`, and every way to a new
  session sets the latter by what `IdLockOutcome` says at that moment.
- **Session service.** `SessionService` knows the status, whether the bot may run, its lock, the account that serves it and
  the one that is heard; runtimes, attempts, generations, timers, probes and tokens are gone. The account is the registered
  runtime's client, by the account and the name it logged in with, so a rename by its owner changes nothing until the watchdog ends the session.
  By `IInv` a step ends the service whenever it leaves the bot offline (`Ends`), is not noticed when it leaves the client alone (`Unnoticed`),
  and begins a connection only from a runtime without a login, on a bot that may run (`Connects`); what is left is that LINE's acceptance admits an account that
  fits the lock, and that preparing a client makes it the one that is heard. So an account is never exchanged for another behind a bot that stays
  online, the lock never changes under a session, and nobody is heard who was not admitted.
- **Reply pipeline.** The claim maps are bounded sequences, but only the set of their keys matters (`Keyed`). The invariant
  (`PipeInv`) says that a begun answer still has its claim or was released (`AnswersClaimed`), that a claim belongs to an answer
  that was begun (`ClaimsAnswered`), that every echo is of a reply (`EchoesTracked`), and that a message a bot has seen and has an
  answer to was answered by its owner (`SightsHeeded`). What `Without` and `Nth` make of a sequence is a lemma about ranks (`Rank`); that a free token
  exists for a new send is the pigeonhole principle (`FreeToken`).
- **Echoes.** `NoSelfAnswer` follows one pair of owner and bytes from the request to the message (`EchoInv`). A request still under way has its entry in the
  tracking (`SendsAwaited`), a posted reply that no sibling has recognised yet still has the one made for it, and one that was recognised is remembered
  by its id (`RepliesKnown`); an entry is consumed by a message of the same bytes only, and if the bytes are nobody else's and were sent once
  (`SentOnce`), that is the reply itself.
- **Write-behind.** Everything rests on `AfterConcat`: replaying one sequence and then another is replaying
  their concatenation. A commit appends a batch, a refusal appends nothing, a write extends what
  the mirror has seen. The refinement follows from `NothingLost`: `issued` is `durable` followed by the
  queues, so what is `kept` is the log, a commit saves a longer prefix of it and a crash keeps exactly that prefix. Deletion is
  proved by "what is queued for a deleted bot ends without rows" (`EndsWithoutRows`): a clear stands behind
  all of it.
- **Defense.** A reply to a person is carried on by exactly one token: a request under way, a tracked
  message or a resend that waits, each with the number of resends so far (`OneToken`). Whoever
  consumes it may make one resend, so the count cannot outrun the budget. For the bytes, what
  the code remembers as its last reply is what was handed over last, unless an upset or a
  refusal came in between (`Remembered`).
- **Scheduled posts.** A content may still be posted by its one timer or by its one request that has not landed, never by both, and
  by neither once this process has posted it (`Ledger`). That rests on contents being numbered as they are submitted (`Numbered`) and on
  a post having one timer, for the time its row has now (`OneTimer`, `TimersMatch`). The limiter's own invariant is carried over: every action
  of the posts is a step of the limiter or leaves it alone.
- **Start confirmation.** Each handler relies on what it read (`Relies`): between the claim and the login the bot is still
  offline, because only the owner's process starts bots and it is busy with this handler. One pending row per bot (`OnePending`) needs
  the lookup and the insertion to be one transaction.
- **Send lanes.** `LoadInv` ties the load to the set of unsettled streams, for which an attempt must be of a session nobody has heard
  of (`FreshDials`). `LaneInv` adds that a draining lane has work, so that its last request is what ends it. `Clean` says that before any lane is dialled over a
  session it has, a lane being dialled is alone, an established session is its lane's, and streams of a usable lane are of its session.
  Maintenance is a theorem about steps: what it retires is idle, and beside it stands a lane that neither choice takes.
- **Receiving.** What asks, what is about to ask and what has been answered never starts beyond the last event heard (`HeardInOrder`), so an answer
  overlaps what is known or continues it, in whatever order answers are processed. `ChainKept` is inductive (`LinkKept`): each step of the client that takes
  the link away puts the next in its place, and a step of LINE that does is marked. The silence is one re-arm, a cooldown for each close, and the wait since the last (`Ladder`):
  a close is counted only when the cooldown is over, and the last allowed one is followed by a rebuild.

- **Fast polls.** The invariant (`SlotInv`) is about sets of pools: the sound ones, in which only online bots poll, at the pace of their slot (`SoundPools`), and
  for each bot those in which it is settled (`SettledPools`). No call leads out of either (`SoundStable`, `SettledStable`), the call for a bot leads into its own
  (`AlignSettles`), so a run of calls that has the bot settles it, in whatever order and whoever nudges whom (`SyncedReaches`, by induction over the
  calls: `Steps`). What remains is that a handler calls for every bot it changes something for, or after giving up a slot for all of them. That nobody
  loses a slot that is of use is one more such set (`KeepsSlot`).

Only model-checked, and why: `EveryLoginSettles`, `RenameIsCaught`, `EveryWriteLands`, `EveryPostIsDecided`, `LaneReturns`, `EventsAreHeard` (liveness under fairness is out of
the prover's reach, as is anything about `ENABLED`). Every safety and action property that a run checks is a theorem. The modules with theorems use no recursive operator: what a recursive
definition computes for every input would need an induction over data that the installed provers cannot instantiate.
The liveness of a bounded instance says nothing about larger ones.

## Where the code and its documents disagree

One disagreement has a run that exhibits it:

1. **The automatic retry of the QR never happens** (`session_retry`). The retry timer asks
   `isCurrentAttempt` (`SM:765-770`), but the `finally` of `beginLogin` has finished that
   generation as soon as the failed login returned (`SM:574-577`). README.md:43 promises that the QR "auto-refreshes with
   a new one (keeps retrying until scanned or you hit stop)".

The others were met while modelling; the models contain the behaviour unless it says otherwise, and a property is
stated so as not to claim what the code does not do:

- An exemption withdrawn while a session it let in is running is not applied to that session (`SetExemption`: `api/routes/users.ts:108-111` stops no bot), although "every login after
  that must match, unless the owner is exempt" (`db/schema.ts:27-29`) and an exempt login records no lock. If the lock is recorded and names another account, the watchdog's next probe
  stops the bot (`RenameIsCaught`). If none is recorded, the probe finds `first_login`, which `SM:1402-1411` neither refuses nor records: the session runs on unlocked until its next
  login, whichever account that is. `LiveSessionMatchesLock` excepts such a session (`excused`).
- A late answer revives a revoked credential: the token listener of a client is never removed
  (`SM:1091-1097`), so a request still outstanding at `force-relogin` may store a rotated token after the route deleted it, and the next start needs no scan
  (against `api/routes/bot-detail.ts:207-218`). No property claims that a forced re-login needs one.
- A lost answer makes siblings answer a reply: every error of a send cancels the echo tracking (`SM:2723-2727`), also when LINE had posted the
  message, though `SM:1964-1966` takes an error to mean that "nothing reached the room". `NoSelfAnswer` is stated without lost answers.
- A message of a bot of another owner with the same bytes uses up the tracking of a reply (`automatic-reply-echo.ts:74-78` looks at bytes, not at the sender), so the reply
  itself, when it is delivered, is answered by a sibling, though tracking exists so that every sibling recognises the reply (37-51). The same happens to a person's message, and, past 30
  seconds (`ECHO_TTL_MS`), to a late delivery. `Ambiguous` and `Undisturbed` name these cases.
- A failing `prepare` loses a batch: `flush` takes the batch and prepares its statements before the `try`
  (`sqlite-writer.worker.ts:45-67`); its comments (13-15, 141-143) say failures never drop what is pending. `NothingLost` excepts it.
- A stop forgets the echoes its bot's siblings still need (`automatic-reply-echo.ts:82-88`, against `SM:2405-2408`): `NoSelfAnswer` is stated without stops.
- The room claim is taken before the limiter decides (`SM:2346-2351`), though the comment above says it is "only
  consumed by a bot that would genuinely have answered": a refused reply silences the siblings too.
- A resend may carry the bytes of the message it replaces when a reply with another text came in between
  (`reply-defense.ts:107-113`, against the comment at 103-105): `NeverTheSameTwice` is about consecutive requests only.
- A reply the limiter refuses still moves the variant counter (`SM:2397`), so the next two
  messages people see may be alike (against `reply-defense.ts:21-22`): `NeverTheSameTwice` leaves a refusal out.
- Rows written before a deletion and flushed just after it stay for good if the process dies before the queued clear
  is flushed (`SM:1468-1470`, against the comment at 1466-1467): `DeletedStaysDeleted` excepts it.
- A scheduled post edited while its send is awaited is marked sent, or disabled, by the old send (`SM:2598-2610`), so the new content never goes out,
  although "editing a schedule re-arms it" (`scheduled-posts.ts:98-100`). `OncePerProcess` and `PendingIsArmed` say nothing of a content lost that way.
- A lane may be dialled over a session it still has, when that session drains, or is gone and has not reported it yet: its late event then
  retires the new connection or brings about a second attempt, a session is orphaned, and a sample of the old route counts for the new one (`h2-lanes.ts:873-874` and 967-973 mean to
  exclude both). `redialed` marks these states.
- The HEAD that primes a replacement retires the lane when it fails, also with requests on it.
- A re-arm by the watch doubles the chain of polls when the answer was merely slow, which the mark set before the await
  is there to prevent (`SM:1292-1293`). `NothingSkipped` holds nevertheless: doubled chains repeat events and skip none.
- The sync token can go back when an older answer is processed after a newer fetch. The effect is repetition only.
- Copying the rules of a room (`/copy-config`) calls for no pollers, so a bot that gained its first rule keeps polling nothing until the next event. `Covered` excepts it (`unsynced`).
- A failed login keeps its slot of the fast pollers (`SM:1545-1560`, 738-750): `NoIdleSlot` counts such a slot as taken.
- The counts of the stall watch survive the rebuild of a session (`SquareReceive`, `Back`): a new session may be rebuilt earlier than its own silence warrants.

- An answer with an error ends the chain of OpenChat polls (`Refuse`): `connManager.ts:318-321` returns before the arrival is stamped and the next poll sent, and the caller
  (`base/push/conn.ts:239`) ignores the result; an answer that cannot be read does so after the stamp (346-371, caught at 544-553). The comment on `rearmSquareFetch` says it
  "always re-arms, including after an empty answer" (557-568). The bot is deaf on that path until the watch's re-arm, its close or a new connection; notifications still start
  fetches. `ChainKept` excepts it (`broken`), `BoundedDeafness` and `EventsAreHeard` cover what follows. The Talk chain, not modelled, ends in the same way (444-447).

Not modelled, found by reading: the drain cap of a fast poller lets history be delivered as new (`fast-square-poller.ts:276-278`); a rejection of the stored token that
reaches an abandoned login erases the token a newer login has stored (`SM:1010`); the loop that resumes bots does not look again at a bot stopped while it waited (`SM:482`); a
deletion event that arrives before the answer to the send is not defended against (`SM:2042`); a crash between the reset of the lock and the
queued deletion of the token leaves the token (`bot-detail.ts:196`).

The resend jitter is zero by default; `ReplyDefense` covers both settings (event `jitter`).

## What is not modelled

- **A single fast poller's loop**: its drain of the history, the token it keeps over failures, the quiet period after a send.
  `FastPollSlots` says which pollers run. Several rooms per bot, an option, are left out.
- **Lane ranking** (`lane-speed-policy.ts`, `lane-race.ts`, `send-prediction.ts`): scores and medians in floating-point milliseconds. `H2Lanes` leaves the choice
  among usable lanes open, so what it shows holds for every ranking.
- **Dispatch client and Go relay**: stateless, one retry after a GOAWAY. The models of replies have its effect: a request succeeds, fails, or succeeds without an answer.
- **Login throttle**: a counter per key with eviction, one synchronous step per attempt.
- **Reply rules**: a sequential matcher without state; `ReplyPipeline` takes its result as a table.
- **Chats and access**: single synchronous database operations. Their one late answer, the member mid of a bot in a room, is in `ReplyPipeline`.
- **Forensics**: reports; its one effect, the resend of a reply that is not visible, is a report in `ReplyDefense`.
- **Dashboard sessions, users, HTTP API, announcements**: single SQL statements, routing and formatting. The routes
  that act on sessions are actions of `SessionLifecycle`.
- **Monitoring, alerts, metrics, log purge, intrusion reports**: nothing reads them back to decide anything.
- **Schema and migrations**: a straight sequence before anything else starts.
- **Worker sharding**: `bot/worker-scope.ts`, `worker-topology.ts` and `worker-assignment.ts` are imported but not in
  the repository; the models are of one worker.
- **`linejs-core`**: vendored, and patched where it receives OpenChat events: that part is `SquareReceive`, without the Talk chain. The rest is modelled
  as what it does for `SM` (answers, errors, deliveries, rotations).
- **Generated code and the upstream copy**: `linejs-core/types`, `linejs-core/base/thrift/readwrite/struct.ts` and everything in
  `src/linejs-main`, which the backend does not import, are the bulk of the repository's lines (about 190,000 of 225,000) and have no behaviour of their own. The share of lines the models stand for is therefore small;
  of the hand-written backend code with state they cover the paths named above.
- **Latencies.** Much of the code is about milliseconds. A race is modelled as both orders; only the limiter, the posts, the confirmation and the stall watch
  have a clock, in ticks.
- Within modelled components: several bots in one resume loop, the other rows the writer inserts (never read
  back), `REPLY_UNIQUIFY=0`, the per-chat switches, and the Talk surface (`Square = FALSE`, no hand-off, is
  in `ReplyPipeline` but has no run yet).

## Plan

Done, in this order: `RateLimiter` (the send limit every other part relies on), `SessionLifecycle`, `ReplyPipeline`, `WriteBehind` with
`DurableLog`, `ReplyDefense`; then `ScheduledPosts` composed with `RateLimiter`, `StartConfirmation` with `OneShotConsent`, `H2Lanes`, `FastPollSlots`,
`SquareReceive`; then proofs for all of them, and `SessionService` as what `SessionLifecycle` implements. Every safety and action property of the runs is now a theorem.

Left:

1. Composition of `SessionLifecycle` with `WriteBehind`: the reset of the lock is immediate and the deletion of the
   token queued, so that a crash in between matters.
2. A fast poller's own loop: nothing of the history delivered as new, nothing skipped over a failed fetch.
3. The login throttle, and the relay's retry after a GOAWAY.
4. A table of answers as the abstract specification of `ReplyPipeline` between releases.
