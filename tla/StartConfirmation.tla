-------------------------- MODULE StartConfirmation --------------------------
(***************************************************************************)
(* The page between pressing start and a bot's login                       *)
(* (bot/start-confirmation.ts), with the routes that use it: /start and    *)
(* deletion (api/routes/bot-detail.ts), the confirmation page              *)
(* (api/routes/confirm.ts).                                                *)
(*                                                                         *)
(* Several processes serve the routes over one SQLite database.  A handler *)
(* runs to its end without yielding, so a process runs one at a time; the  *)
(* statements of handlers in different processes interleave.  Only the     *)
(* bot's worker runs and deletes it: stopBot throws elsewhere.             *)
(***************************************************************************)
EXTENDS Integers, Sequences

CONSTANTS
    Bots,
    Tokens,     \* random, so never used twice
    Processes,
    Owner,      \* the process with the bots' owner in its worker scope
    TTL,        \* TTL_MS
    MaxTime,    \* bound on the clock
    MaxCrashes, \* bound on processes that die
    None

Row == [bot : Bots, status : {"pending", "accepted", "declined"}, createdAt : 0..MaxTime]

ASSUME ConfirmationAssumption ==
    /\ Owner \in Processes /\ Bots # {}
    /\ TTL \in Nat \ {0} /\ MaxTime \in Nat /\ MaxCrashes \in Nat
    /\ None \notin Bots \cup Tokens \cup Row

VARIABLES
    now,
    rows,     \* start_confirmations
    status,   \* bots.status: running stands for connecting and online
    turn,     \* the handler each process is in, between its statements
    crashes,
    last,     \* history: the row of each token as it was last written
    logins,   \* history: the processes that began a login for a token
    unstarted \* history: tokens whose login the quota or a crash prevented

vars == <<now, rows, status, turn, crashes, last, logins, unstarted>>

Idle == [pc |-> "idle", bot |-> None, token |-> None, at |-> 0]

Init ==
    /\ now = 0
    /\ rows = [t \in Tokens |-> None]
    /\ status = [b \in Bots |-> "offline"]
    /\ turn = [p \in Processes |-> Idle]
    /\ crashes = 0
    /\ last = [t \in Tokens |-> None]
    /\ logins = [t \in Tokens |-> <<>>] /\ unstarted = {}

InTurn(p, pc) == turn[p].pc = pc

Proceed(p, pc, b, t) == turn' = [turn EXCEPT ![p] = [pc |-> pc, bot |-> b, token |-> t, at |-> now]]

Done(p) == turn' = [turn EXCEPT ![p] = Idle]

\* created_at is past the cutoff, at the time `at`.
Fresh(row, at) == at - row.createdAt < TTL

-----------------------------------------------------------------------------
(* POST /start, createStartConfirmation. *)

RequestStart(p, b) ==
    /\ InTurn(p, "idle") /\ status[b] = "offline"
    /\ Proceed(p, "create", b, None)
    /\ UNCHANGED <<now, rows, status, crashes, last, logins, unstarted>>

\* pruneStmt: of every bot, what is resolved or expired.
Pruned(at) ==
    [t \in Tokens |-> IF rows[t] # None /\ rows[t].status = "pending" /\ Fresh(rows[t], at)
                      THEN rows[t] ELSE None]

\* pendingForBotStmt.
PendingForBot(table, b, at) ==
    {t \in Tokens : table[t] # None /\ table[t].bot = b /\ table[t].status = "pending"
                    /\ Fresh(table[t], at)}

\* createTransaction, with the time read before it.
Create(p) ==
    LET b == turn[p].bot
        at == turn[p].at
        table == Pruned(at)
    IN  /\ InTurn(p, "create")
        /\ \/ /\ PendingForBot(table, b, at) # {}
              /\ rows' = table
              /\ UNCHANGED last
           \/ /\ PendingForBot(table, b, at) = {}
              /\ \E t \in Tokens :
                    LET row == [bot |-> b, status |-> "pending", createdAt |-> at] IN
                        /\ last[t] = None
                        /\ rows' = [table EXCEPT ![t] = row]
                        /\ last' = [last EXCEPT ![t] = row]
        /\ Done(p)
        /\ UNCHANGED <<now, status, crashes, logins, unstarted>>

-----------------------------------------------------------------------------
(* acceptStartConfirmation and declineStartConfirmation, one statement a step. *)

\* The row is looked up; an unknown or expired token, and for an acceptance a
\* resolved one, ends the handler without effect.
Accept(p, t) ==
    /\ InTurn(p, "idle")
    /\ rows[t] # None /\ rows[t].status = "pending" /\ Fresh(rows[t], now)
    /\ Proceed(p, "getBot", rows[t].bot, t)
    /\ UNCHANGED <<now, rows, status, crashes, last, logins, unstarted>>

Decline(p, t) ==
    /\ InTurn(p, "idle")
    /\ rows[t] # None /\ Fresh(rows[t], now)
    /\ Proceed(p, "decline", rows[t].bot, t)
    /\ UNCHANGED <<now, rows, status, crashes, last, logins, unstarted>>

\* Mutant: a running bot is not looked at.
StartableExists(b) == status[b] # "gone"

Startable(b) == status[b] = "offline"

\* inWorkerScope.
InScope(p) == p = Owner

\* A bot that runs or is gone has the token declined; outside the worker's scope
\* the handler throws and the token stays as it is.
GetBot(p) ==
    /\ InTurn(p, "getBot")
    /\ \/ Startable(turn[p].bot) /\ InScope(p) /\ Proceed(p, "claim", turn[p].bot, turn[p].token)
       \/ Startable(turn[p].bot) /\ ~InScope(p) /\ Done(p)
       \/ ~Startable(turn[p].bot) /\ Proceed(p, "decline", turn[p].bot, turn[p].token)
    /\ UNCHANGED <<now, rows, status, crashes, last, logins, unstarted>>

\* Mutant: the update does not look at the status.
ResolvesAnyStatus(t) == rows[t] # None /\ Fresh(rows[t], now)

\* The WHERE clause of resolveStmt.
Resolves(t) == rows[t] # None /\ rows[t].status = "pending" /\ Fresh(rows[t], now)

Resolve(t, answer) ==
    /\ Resolves(t)
    /\ rows' = [rows EXCEPT ![t].status = answer]
    /\ last' = [last EXCEPT ![t].status = answer]

Declined(p) ==
    /\ InTurn(p, "decline")
    /\ \/ Resolve(turn[p].token, "declined")
       \/ ~Resolves(turn[p].token) /\ UNCHANGED <<rows, last>>
    /\ Done(p)
    /\ UNCHANGED <<now, status, crashes, logins, unstarted>>

Claim(p) ==
    /\ InTurn(p, "claim")
    /\ \/ Resolve(turn[p].token, "accepted") /\ Proceed(p, "start", turn[p].bot, turn[p].token)
       \/ ~Resolves(turn[p].token) /\ Done(p) /\ UNCHANGED <<rows, last>>
    /\ UNCHANGED <<now, status, crashes, logins, unstarted>>

\* startBot up to its first await: it throws outside the worker's scope, for a bot
\* past its owner's quota and for one that already has a session or a login.
StartBot(p) ==
    LET b == turn[p].bot
        t == turn[p].token
    IN  /\ InTurn(p, "start")
        /\ \/ /\ InScope(p) /\ status[b] = "offline"
              /\ status' = [status EXCEPT ![b] = "running"]
              /\ logins' = [logins EXCEPT ![t] = Append(@, p)]
              /\ UNCHANGED unstarted
           \/ /\ unstarted' = unstarted \cup {t}
              /\ UNCHANGED <<status, logins>>
           \/ /\ ~(InScope(p) /\ status[b] = "offline")
              /\ UNCHANGED <<status, logins, unstarted>>
        /\ Done(p)
        /\ UNCHANGED <<now, rows, crashes, last>>

-----------------------------------------------------------------------------
(* The worker: the bot's own life, and its deletion. *)

\* What SessionLifecycle models: logins end, sessions are lost, stopped, resumed.
SessionMoves(b) ==
    /\ InTurn(Owner, "idle") /\ status[b] # "gone"
    /\ \E s \in {"offline", "running"} \ {status[b]} : status' = [status EXCEPT ![b] = s]
    /\ UNCHANGED <<now, rows, turn, crashes, last, logins, unstarted>>

\* deleteBotSession, then clearStartConfirmationsForBot.
Delete(b) ==
    /\ InTurn(Owner, "idle") /\ status[b] # "gone"
    /\ status' = [status EXCEPT ![b] = "gone"]
    /\ Proceed(Owner, "clear", b, None)
    /\ UNCHANGED <<now, rows, crashes, last, logins, unstarted>>

Clear(p) ==
    /\ InTurn(p, "clear")
    /\ rows' = [t \in Tokens |-> IF rows[t] # None /\ rows[t].bot = turn[p].bot THEN None ELSE rows[t]]
    /\ Done(p)
    /\ UNCHANGED <<now, status, crashes, last, logins, unstarted>>

\* A process dies in the middle of a handler; the statements it ran stay.
Crash(p) ==
    /\ crashes < MaxCrashes /\ ~InTurn(p, "idle")
    /\ crashes' = crashes + 1
    /\ unstarted' = IF InTurn(p, "start") THEN unstarted \cup {turn[p].token} ELSE unstarted
    /\ Done(p)
    /\ UNCHANGED <<now, rows, status, last, logins>>

Tick ==
    /\ now < MaxTime
    /\ now' = now + 1
    /\ UNCHANGED <<rows, status, turn, crashes, last, logins, unstarted>>

Next ==
    \/ \E p \in Processes :
          \/ \E b \in Bots : RequestStart(p, b)
          \/ \E t \in Tokens : Accept(p, t) \/ Decline(p, t)
          \/ Create(p) \/ GetBot(p) \/ Declined(p) \/ Claim(p) \/ StartBot(p) \/ Clear(p) \/ Crash(p)
    \/ \E b \in Bots : SessionMoves(b) \/ Delete(b)
    \/ Tick

Spec == Init /\ [][Next]_vars

-----------------------------------------------------------------------------
(* Properties. *)

Turn == [pc : {"idle", "create", "getBot", "decline", "claim", "start", "clear"},
         bot : Bots \cup {None}, token : Tokens \cup {None}, at : 0..MaxTime]

\* The values the variables take.
TypeOK ==
    /\ now \in 0..MaxTime
    /\ rows \in [Tokens -> Row \cup {None}] /\ last \in [Tokens -> Row \cup {None}]
    /\ status \in [Bots -> {"offline", "running", "gone"}]
    /\ turn \in [Processes -> Turn]
    /\ crashes \in 0..MaxCrashes
    /\ logins \in [Tokens -> Seq(Processes)] /\ unstarted \subseteq Tokens

\* Who accepts is told so, and the bot does begin to log in: the status read two
\* statements earlier still holds.  Only the quota or a crash stands against it.
ConsentIsHonoured ==
    \A t \in Tokens :
        last[t] # None /\ last[t].status = "accepted" =>
            \/ logins[t] # <<>> \/ t \in unstarted
            \/ \E p \in Processes : InTurn(p, "start") /\ turn[p].token = t

\* The page's view: a question that lapsed or went with its bot is void.
anyBot == CHOOSE b \in Bots : TRUE

question ==
    [t \in Tokens |->
        IF last[t] = None THEN "unasked"
        ELSE IF last[t].status = "pending" /\ rows[t] = None THEN "void" ELSE last[t].status]

forBot == [t \in Tokens |-> IF last[t] = None THEN anyBot ELSE last[t].bot]

askedAt == [t \in Tokens |-> IF last[t] = None THEN 0 ELSE last[t].createdAt]

Page == INSTANCE OneShotConsent

\* Presses, scans, retries and deletions in several processes come to what the
\* page promises: one open question per bot, one answer and in time, and for a
\* yes at most one login, in the bot's own worker.
ConsentSpec == Page!ConsentSpec
=============================================================================
