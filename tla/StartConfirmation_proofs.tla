----------------------- MODULE StartConfirmation_proofs -----------------------
(***************************************************************************)
(* What StartConfirmation keeps for any number of processes, bots and      *)
(* tokens, any lifetime of a token and any clock.                          *)
(*                                                                         *)
(* The order of a handler's statements carries the argument.  What the     *)
(* acceptance read of the bot is still true when it starts the bot, because *)
(* the worker does nothing in between (Handlers); what it read of the row   *)
(* is not, and its update reads it again (Resolves).                       *)
(***************************************************************************)
EXTENDS StartConfirmation, SequenceTheorems, TLAPS

\* A row in the table is as it was last written.
RowsAreLast == \A t \in Tokens : rows[t] # None => last[t] = rows[t]

\* No row is of the future.
RowsArePast ==
    /\ \A t \in Tokens : last[t] # None => last[t].createdAt <= now
    /\ \A p \in Processes : turn[p].at <= now

\* The table holds one pending row per bot, whatever the index would say.
OnePending ==
    \A t, u \in Tokens :
        /\ rows[t] # None /\ rows[t].status = "pending"
        /\ rows[u] # None /\ rows[u].status = "pending"
        /\ rows[t].bot = rows[u].bot
        => t = u

\* A login is for an accepted token.
LoginsAreAccepted ==
    \A t \in Tokens : logins[t] # <<>> => last[t] # None /\ last[t].status = "accepted"

\* What the handler of process p found out and still relies on.
Relies(p) ==
    /\ turn[p].pc \in {"create", "clear"} => turn[p].bot \in Bots
    /\ turn[p].pc \in {"getBot", "decline"} => turn[p].token \in Tokens /\ turn[p].bot \in Bots
    /\ turn[p].pc \in {"claim", "start"} =>
          /\ p = Owner
          /\ turn[p].token \in Tokens /\ turn[p].bot \in Bots
          /\ status[turn[p].bot] = "offline"
    /\ turn[p].pc = "start" =>
          /\ last[turn[p].token] # None /\ last[turn[p].token].status = "accepted"
          /\ logins[turn[p].token] = <<>>

Handlers == \A p \in Processes : Relies(p)

\* The inductive invariant.
ConfirmInv ==
    /\ TypeOK /\ RowsAreLast /\ RowsArePast /\ OnePending /\ LoginsAreAccepted /\ Handlers
    /\ ConsentIsHonoured

\* What is there to be rewritten is a row.
LEMMA RowTypes ==
    ASSUME TypeOK, NEW t \in Tokens
    PROVE  /\ rows[t] # None => rows[t] \in Row
           /\ last[t] # None => last[t] \in Row
  BY DEF TypeOK

-----------------------------------------------------------------------------
\* The variables keep their types.
LEMMA TypeStep ==
    ASSUME TypeOK, Handlers, RowsAreLast, [Next]_vars
    PROVE  TypeOK'
<1> USE ConfirmationAssumption
<1>0. ASSUME NEW p \in Processes, NEW pc \in {"idle", "create", "getBot", "decline", "claim", "start", "clear"},
             NEW b \in Bots \cup {None}, NEW t \in Tokens \cup {None}, Proceed(p, pc, b, t)
      PROVE  turn' \in [Processes -> Turn]
  BY <1>0 DEF Proceed, TypeOK, Turn
<1>1. ASSUME NEW p \in Processes, Done(p) PROVE turn' \in [Processes -> Turn]
  BY <1>1 DEF Done, Idle, TypeOK, Turn
<1>2. ASSUME NEW t \in Tokens, NEW answer \in {"accepted", "declined"}, Resolve(t, answer)
      PROVE  rows' \in [Tokens -> Row \cup {None}] /\ last' \in [Tokens -> Row \cup {None}]
  <2>1. rows[t] \in Row /\ last[t] \in Row
    BY <1>2 DEF Resolve, Resolves, TypeOK, RowsAreLast
  <2>2. [rows[t] EXCEPT !.status = answer] \in Row /\ [last[t] EXCEPT !.status = answer] \in Row
    BY <2>1 DEF Row
  <2>3. QED
    BY <1>2, <2>2 DEF Resolve, TypeOK
<1>3. ASSUME NEW p \in Processes, NEW b \in Bots, RequestStart(p, b) PROVE TypeOK'
  BY <1>3, <1>0 DEF RequestStart, TypeOK
<1>4. ASSUME NEW p \in Processes, Create(p) PROVE TypeOK'
  <2> DEFINE table == Pruned(turn[p].at)
  <2>1. table \in [Tokens -> Row \cup {None}]
    BY DEF Pruned, TypeOK
  <2>2. ASSUME NEW t \in Tokens,
               rows' = [table EXCEPT ![t] = [bot |-> turn[p].bot, status |-> "pending",
                                             createdAt |-> turn[p].at]],
               last' = [last EXCEPT ![t] = [bot |-> turn[p].bot, status |-> "pending",
                                            createdAt |-> turn[p].at]]
        PROVE  rows' \in [Tokens -> Row \cup {None}] /\ last' \in [Tokens -> Row \cup {None}]
    <3>1. [bot |-> turn[p].bot, status |-> "pending", createdAt |-> turn[p].at] \in Row
      BY <1>4 DEF Create, InTurn, Handlers, Relies, TypeOK, Turn, Row
    <3>2. QED
      BY <2>1, <2>2, <3>1 DEF TypeOK
  <2>3. rows' \in [Tokens -> Row \cup {None}] /\ last' \in [Tokens -> Row \cup {None}]
    BY <1>4, <2>1, <2>2 DEF Create, TypeOK
  <2>4. QED
    BY <1>4, <2>3, <1>1 DEF Create, TypeOK
<1>5. ASSUME NEW p \in Processes, NEW t \in Tokens, Accept(p, t) \/ Decline(p, t) PROVE TypeOK'
  <2>1. rows[t].bot \in Bots
    BY <1>5, RowTypes DEF Accept, Decline, Row
  <2>2. QED
    BY <1>5, <2>1, <1>0 DEF Accept, Decline, TypeOK
<1>6. ASSUME NEW p \in Processes, GetBot(p) PROVE TypeOK'
  BY <1>6, <1>0, <1>1 DEF GetBot, InTurn, Handlers, Relies, TypeOK
<1>7. ASSUME NEW p \in Processes, Declined(p) PROVE TypeOK'
  BY <1>7, <1>1, <1>2 DEF Declined, InTurn, Handlers, Relies, TypeOK
<1>8. ASSUME NEW p \in Processes, Claim(p) PROVE TypeOK'
  BY <1>8, <1>0, <1>1, <1>2 DEF Claim, InTurn, Handlers, Relies, TypeOK
<1>9. ASSUME NEW p \in Processes, StartBot(p) PROVE TypeOK'
  <2>1. turn[p].token \in Tokens
    BY <1>9 DEF StartBot, InTurn, Handlers, Relies
  <2>2. \A q \in Processes : Append(logins[turn[p].token], q) \in Seq(Processes)
    BY <2>1, AppendProperties DEF TypeOK
  <2>3. logins' \in [Tokens -> Seq(Processes)]
    BY <1>9, <2>2 DEF StartBot, TypeOK
  <2>4. status' \in [Bots -> {"offline", "running", "gone"}] /\ unstarted' \subseteq Tokens
    BY <1>9, <2>1 DEF StartBot, TypeOK
  <2>5. QED
    BY <1>9, <1>1, <2>3, <2>4 DEF StartBot, TypeOK
<1>10. ASSUME NEW b \in Bots, SessionMoves(b) PROVE TypeOK'
  BY <1>10 DEF SessionMoves, TypeOK
<1>11. ASSUME NEW b \in Bots, Delete(b) PROVE TypeOK'
  BY <1>11, <1>0 DEF Delete, TypeOK
<1>12. ASSUME NEW p \in Processes, Clear(p) PROVE TypeOK'
  BY <1>12, <1>1 DEF Clear, TypeOK
<1>13. ASSUME NEW p \in Processes, Crash(p) PROVE TypeOK'
  <2>1. unstarted' \subseteq Tokens
    BY <1>13 DEF Crash, InTurn, Handlers, Relies, TypeOK
  <2>2. QED
    BY <1>13, <1>1, <2>1 DEF Crash, TypeOK
<1>14. CASE Tick
  BY <1>14 DEF Tick, TypeOK, Turn
<1>15. CASE UNCHANGED vars
  BY <1>15 DEF vars, TypeOK
<1>16. QED
  BY <1>3, <1>4, <1>5, <1>6, <1>7, <1>8, <1>9, <1>10, <1>11, <1>12, <1>13, <1>14, <1>15 DEF Next

-----------------------------------------------------------------------------
\* A write that finds its row leaves the table and the history alike, and changes
\* no more than a status that was pending.
LEMMA Resolution ==
    ASSUME TypeOK, RowsAreLast, NEW t \in Tokens, NEW answer \in {"accepted", "declined"},
           Resolve(t, answer)
    PROVE  /\ rows[t] \in Row /\ last[t] = rows[t] /\ rows[t].status = "pending"
           /\ Fresh(rows[t], now)
           /\ last'[t] = rows'[t]
           /\ rows'[t] \in Row /\ rows'[t] # None
           /\ rows'[t].bot = rows[t].bot /\ rows'[t].createdAt = rows[t].createdAt
           /\ rows'[t].status = answer
           /\ \A u \in Tokens \ {t} : rows'[u] = rows[u] /\ last'[u] = last[u]
<1>1. rows[t] # None /\ last[t] = rows[t] /\ rows[t] \in Row
  BY DEF Resolve, Resolves, RowsAreLast, TypeOK
<1>2. rows'[t] = [rows[t] EXCEPT !.status = answer] /\ last'[t] = [last[t] EXCEPT !.status = answer]
  BY DEF Resolve, TypeOK
<1>3. \A u \in Tokens \ {t} : rows'[u] = rows[u] /\ last'[u] = last[u]
  BY DEF Resolve, TypeOK
<1>4. /\ rows'[t] \in Row /\ rows'[t].bot = rows[t].bot
      /\ rows'[t].createdAt = rows[t].createdAt /\ rows'[t].status = answer
  BY <1>1, <1>2 DEF Row
<1>5. rows'[t] # None
  BY <1>4, ConfirmationAssumption
<1>6. last'[t] = rows'[t]
  BY <1>1, <1>2
<1>7. QED
  BY <1>1, <1>3, <1>4, <1>5, <1>6 DEF Resolve, Resolves

\* What a creation does to the table and the history: rows go, and one may come
\* when none is left pending for the bot.
LEMMA Creation ==
    ASSUME TypeOK, Handlers, RowsAreLast, RowsArePast, NEW p \in Processes, Create(p)
    PROVE  LET b == turn[p].bot
               table == Pruned(turn[p].at)
           IN  /\ b \in Bots
               /\ \A u \in Tokens : table[u] = rows[u] \/ table[u] = None
               /\ \A u \in Tokens : table[u] # None => table[u].status = "pending"
               /\ \/ rows' = table /\ last' = last
                  \/ \E t \in Tokens :
                        /\ last[t] = None /\ rows[t] = None
                        /\ rows'[t] \in Row /\ last'[t] = rows'[t]
                        /\ rows'[t].bot = b /\ rows'[t].status = "pending"
                        /\ rows'[t].createdAt <= now
                        /\ \A u \in Tokens \ {t} : rows'[u] = table[u] /\ last'[u] = last[u]
                        /\ \A u \in Tokens : table[u] # None => table[u].bot # b
                        /\ last' = [last EXCEPT ![t] = rows'[t]]
<1> DEFINE b == turn[p].bot
           at == turn[p].at
           table == Pruned(at)
<1>1. b \in Bots /\ at \in 0..MaxTime /\ at <= now
  BY DEF Create, InTurn, Handlers, Relies, TypeOK, Turn, RowsArePast
<1>2. \A u \in Tokens : table[u] = rows[u] \/ table[u] = None
  BY DEF Pruned
<1>3. \A u \in Tokens : table[u] # None => table[u].status = "pending" /\ Fresh(table[u], at)
  BY DEF Pruned
<1>4. table = [u \in Tokens |-> table[u]]
  BY DEF Pruned
<1>5. CASE rows' = table /\ UNCHANGED last
  BY <1>1, <1>2, <1>3, <1>5
<1>6. ASSUME PendingForBot(table, b, at) = {}, NEW t \in Tokens, last[t] = None,
             rows' = [table EXCEPT ![t] = [bot |-> b, status |-> "pending", createdAt |-> at]],
             last' = [last EXCEPT ![t] = [bot |-> b, status |-> "pending", createdAt |-> at]]
      PROVE  /\ rows[t] = None
             /\ rows'[t] \in Row /\ last'[t] = rows'[t]
             /\ rows'[t].bot = b /\ rows'[t].status = "pending"
             /\ rows'[t].createdAt <= now
             /\ \A u \in Tokens \ {t} : rows'[u] = table[u] /\ last'[u] = last[u]
             /\ \A u \in Tokens : table[u] # None => table[u].bot # b
             /\ last' = [last EXCEPT ![t] = rows'[t]]
  <2>1. rows[t] = None
    BY <1>6 DEF RowsAreLast
  <2>2. rows'[t] = [bot |-> b, status |-> "pending", createdAt |-> at]
    BY <1>4, <1>6
  <2>3. \A u \in Tokens \ {t} : rows'[u] = table[u] /\ last'[u] = last[u]
    BY <1>4, <1>6 DEF TypeOK
  <2>4. \A u \in Tokens : table[u] # None => table[u].bot # b
    BY <1>3, <1>6 DEF PendingForBot
  <2>5. rows'[t] \in Row
    BY <1>1, <2>2 DEF Row
  <2>6. last'[t] = rows'[t]
    BY <1>6, <2>2 DEF TypeOK
  <2>7. rows'[t].bot = b /\ rows'[t].status = "pending" /\ rows'[t].createdAt <= now
    BY <1>1, <2>2
  <2>8. last' = [last EXCEPT ![t] = rows'[t]]
    BY <1>6, <2>2
  <2> HIDE DEF table
  <2>9. QED
    BY <2>1, <2>3, <2>4, <2>5, <2>6, <2>7, <2>8
<1>7. \/ rows' = table /\ UNCHANGED last
      \/ /\ PendingForBot(table, b, at) = {}
         /\ \E t \in Tokens :
               /\ last[t] = None
               /\ rows' = [table EXCEPT ![t] = [bot |-> b, status |-> "pending", createdAt |-> at]]
               /\ last' = [last EXCEPT ![t] = [bot |-> b, status |-> "pending", createdAt |-> at]]
  BY DEF Create
<1> HIDE DEF table
<1>8. CASE /\ PendingForBot(table, b, at) = {}
           /\ \E t \in Tokens :
                 /\ last[t] = None
                 /\ rows' = [table EXCEPT ![t] = [bot |-> b, status |-> "pending", createdAt |-> at]]
                 /\ last' = [last EXCEPT ![t] = [bot |-> b, status |-> "pending", createdAt |-> at]]
  <2>1. PICK t \in Tokens :
           /\ last[t] = None
           /\ rows' = [table EXCEPT ![t] = [bot |-> b, status |-> "pending", createdAt |-> at]]
           /\ last' = [last EXCEPT ![t] = [bot |-> b, status |-> "pending", createdAt |-> at]]
    BY <1>8
  <2>2. QED
    BY <1>1, <1>2, <1>3, <1>6, <1>8, <2>1 DEF table
<1>9. QED
  BY <1>5, <1>7, <1>8

\* The steps that write to the table.
LEMMA TableSteps ==
    ASSUME TypeOK, Handlers, [Next]_vars
    PROVE  \/ UNCHANGED <<rows, last>>
           \/ \E p \in Processes : Create(p)
           \/ \E p \in Processes : Clear(p)
           \/ \E p \in Processes, t \in Tokens, answer \in {"accepted", "declined"} :
                 Resolve(t, answer) /\ (Declined(p) \/ Claim(p))
<1>1. ASSUME NEW p \in Processes, Declined(p)
      PROVE  \/ UNCHANGED <<rows, last>>
             \/ turn[p].token \in Tokens /\ Resolve(turn[p].token, "declined")
  BY <1>1 DEF Declined, InTurn, Handlers, Relies
<1>2. ASSUME NEW p \in Processes, Claim(p)
      PROVE  \/ UNCHANGED <<rows, last>>
             \/ turn[p].token \in Tokens /\ Resolve(turn[p].token, "accepted")
  BY <1>2 DEF Claim, InTurn, Handlers, Relies
<1>3. CASE \/ \E p \in Processes, b \in Bots : RequestStart(p, b)
           \/ \E p \in Processes, t \in Tokens : Accept(p, t) \/ Decline(p, t)
           \/ \E p \in Processes : GetBot(p) \/ StartBot(p) \/ Crash(p)
           \/ \E b \in Bots : SessionMoves(b) \/ Delete(b)
           \/ Tick \/ UNCHANGED vars
  BY <1>3 DEF RequestStart, Accept, Decline, GetBot, StartBot, Crash, SessionMoves, Delete, Tick, vars
<1>4. QED
  BY <1>1, <1>2, <1>3 DEF Next

LEMMA RowsAreLastStep ==
    ASSUME TypeOK, Handlers, RowsAreLast, RowsArePast, [Next]_vars
    PROVE  RowsAreLast'
<1>1. CASE UNCHANGED <<rows, last>>
  BY <1>1 DEF RowsAreLast
<1>2. ASSUME NEW p \in Processes, Create(p) PROVE RowsAreLast'
  BY <1>2, Creation DEF RowsAreLast
<1>3. ASSUME NEW p \in Processes, Clear(p) PROVE RowsAreLast'
  BY <1>3 DEF Clear, RowsAreLast
<1>4. ASSUME NEW t \in Tokens, NEW answer \in {"accepted", "declined"}, Resolve(t, answer)
      PROVE  RowsAreLast'
  BY <1>4, Resolution DEF RowsAreLast
<1>5. QED
  BY <1>1, <1>2, <1>3, <1>4, TableSteps

LEMMA RowsArePastStep ==
    ASSUME TypeOK, Handlers, RowsAreLast, RowsArePast, [Next]_vars
    PROVE  RowsArePast'
<1>0. now \in Nat /\ now' \in Nat /\ now <= now'
  <2>1. now \in Nat
    BY DEF TypeOK
  <2>2. now' = now \/ now' = now + 1
    BY DEF Next, RequestStart, Create, Accept, Decline, GetBot, Declined, Claim, StartBot, Clear,
           Crash, SessionMoves, Delete, Tick, vars
  <2>3. QED
    BY <2>1, <2>2
<1>1. \A t \in Tokens : last'[t] # None => last'[t].createdAt <= now'
  <2>1. \A t \in Tokens : last[t] # None => last[t].createdAt <= now'
    BY <1>0, RowTypes DEF RowsArePast, Row, TypeOK
  <2>2. CASE UNCHANGED <<rows, last>>
    BY <2>1, <2>2
  <2>3. ASSUME NEW p \in Processes, Create(p), NEW t \in Tokens, last'[t] # None
        PROVE  last'[t].createdAt <= now'
    <3>1. last'[t] = last[t] \/ (last'[t] \in Row /\ last'[t].createdAt <= now)
      BY <2>3, Creation
    <3>2. QED
      BY <1>0, <2>1, <2>3, <3>1 DEF Row
  <2>4. ASSUME NEW p \in Processes, Clear(p) PROVE UNCHANGED last
    BY <2>4 DEF Clear
  <2>5. ASSUME NEW t \in Tokens, NEW answer \in {"accepted", "declined"}, Resolve(t, answer),
               NEW u \in Tokens, last'[u] # None
        PROVE  last'[u].createdAt <= now'
    <3>1. last'[u] = last[u] \/ (u = t /\ last[t] # None /\ last'[u].createdAt = last[t].createdAt)
      BY <2>5, Resolution, ConfirmationAssumption DEF RowsAreLast, Resolve, Resolves
    <3>2. QED
      BY <2>1, <2>5, <3>1
  <2>6. QED
    BY <2>1, <2>2, <2>3, <2>4, <2>5, TableSteps
<1>2. \A p \in Processes : turn'[p].at <= now'
  <2>1. \A p \in Processes : turn[p].at <= now'
    BY <1>0 DEF RowsArePast, TypeOK, Turn
  <2>2. ASSUME NEW p \in Processes, NEW pc, NEW b, NEW t, Proceed(p, pc, b, t)
        PROVE  \A q \in Processes : turn'[q].at = turn[q].at \/ turn'[q].at = now
    BY <2>2 DEF Proceed, TypeOK
  <2>3. ASSUME NEW p \in Processes, Done(p)
        PROVE  \A q \in Processes : turn'[q].at = turn[q].at \/ turn'[q].at = 0
    BY <2>3 DEF Done, Idle, TypeOK
  <2>4. \/ UNCHANGED turn
        \/ \E p \in Processes : Done(p) \/ \E pc, b, t : Proceed(p, pc, b, t)
    BY ConfirmationAssumption
       DEF Next, RequestStart, Create, Accept, Decline, GetBot, Declined, Claim, StartBot, Clear,
           Crash, SessionMoves, Delete, Tick, vars
  <2>5. QED
    BY <1>0, <2>1, <2>2, <2>3, <2>4
<1>3. QED
  BY <1>1, <1>2 DEF RowsArePast

LEMMA OnePendingStep ==
    ASSUME TypeOK, Handlers, RowsAreLast, RowsArePast, OnePending, [Next]_vars
    PROVE  OnePending'
<1>1. CASE UNCHANGED <<rows, last>>
  BY <1>1 DEF OnePending
<1>2. ASSUME NEW p \in Processes, Create(p) PROVE OnePending'
  <2> DEFINE b == turn[p].bot
             table == Pruned(turn[p].at)
  <2>1. \A u \in Tokens : table[u] = rows[u] \/ table[u] = None
    BY <1>2, Creation
  <2>2. CASE rows' = table
    BY <2>1, <2>2 DEF OnePending
  <2>3. ASSUME NEW t \in Tokens, rows'[t].bot = b,
               \A u \in Tokens \ {t} : rows'[u] = table[u],
               \A u \in Tokens : table[u] # None => table[u].bot # b
        PROVE  OnePending'
    <3> SUFFICES ASSUME NEW u \in Tokens, NEW v \in Tokens, u # v,
                        rows'[u] # None, rows'[u].status = "pending",
                        rows'[v] # None, rows'[v].status = "pending",
                        rows'[u].bot = rows'[v].bot
                 PROVE  FALSE
      BY DEF OnePending
    <3>1. CASE u # t /\ v # t
      BY <2>1, <2>3, <3>1 DEF OnePending
    <3>2. CASE u = t \/ v = t
      BY <2>3, <3>2
    <3>3. QED
      BY <3>1, <3>2
  <2>4. \/ rows' = table
        \/ \E t \in Tokens : /\ rows'[t].bot = b
                             /\ \A u \in Tokens \ {t} : rows'[u] = table[u]
                             /\ \A u \in Tokens : table[u] # None => table[u].bot # b
    BY <1>2, Creation
  <2>5. CASE \E t \in Tokens : /\ rows'[t].bot = b
                               /\ \A u \in Tokens \ {t} : rows'[u] = table[u]
                               /\ \A u \in Tokens : table[u] # None => table[u].bot # b
    <3>1. PICK t \in Tokens : /\ rows'[t].bot = b
                              /\ \A u \in Tokens \ {t} : rows'[u] = table[u]
                              /\ \A u \in Tokens : table[u] # None => table[u].bot # b
      BY <2>5
    <3> HIDE DEF b, table
    <3>2. QED
      BY <2>3, <3>1
  <2>6. QED
    BY <2>2, <2>4, <2>5
<1>3. ASSUME NEW p \in Processes, Clear(p) PROVE OnePending'
  BY <1>3 DEF Clear, OnePending
<1>4. ASSUME NEW t \in Tokens, NEW answer \in {"accepted", "declined"}, Resolve(t, answer)
      PROVE  OnePending'
  <2>1. rows'[t].status # "pending"
    BY <1>4, Resolution
  <2>2. \A u \in Tokens \ {t} : rows'[u] = rows[u]
    BY <1>4, Resolution
  <2>3. QED
    BY <2>1, <2>2 DEF OnePending
<1>5. QED
  BY <1>1, <1>2, <1>3, <1>4, TableSteps

\* Before a token is accepted it has led to no login, and its login comes after.
LEMMA LoginsAreAcceptedStep ==
    ASSUME TypeOK, Handlers, RowsAreLast, RowsArePast, LoginsAreAccepted, [Next]_vars
    PROVE  LoginsAreAccepted'
<1>1. ASSUME UNCHANGED logins,
             \A t \in Tokens : last'[t] = last[t] \/ last[t] = None \/ last[t].status = "pending"
      PROVE  LoginsAreAccepted'
  BY <1>1 DEF LoginsAreAccepted
<1>2. ASSUME NEW p \in Processes, StartBot(p) PROVE LoginsAreAccepted'
  <2>1. \A t \in Tokens : logins'[t] = logins[t] \/ t = turn[p].token
    BY <1>2 DEF StartBot, TypeOK
  <2>2. last' = last /\ last[turn[p].token] # None /\ last[turn[p].token].status = "accepted"
    BY <1>2 DEF StartBot, InTurn, Handlers, Relies
  <2>3. QED
    BY <2>1, <2>2 DEF LoginsAreAccepted
<1>3. ASSUME UNCHANGED logins PROVE LoginsAreAccepted'
  <2>1. CASE UNCHANGED <<rows, last>>
    BY <1>1, <1>3, <2>1
  <2>2. ASSUME NEW p \in Processes, Create(p) PROVE LoginsAreAccepted'
    BY <1>1, <1>3, <2>2, Creation
  <2>3. ASSUME NEW p \in Processes, Clear(p) PROVE LoginsAreAccepted'
    BY <1>1, <1>3, <2>3 DEF Clear
  <2>4. ASSUME NEW t \in Tokens, NEW answer \in {"accepted", "declined"}, Resolve(t, answer)
        PROVE  LoginsAreAccepted'
    <3>1. \A u \in Tokens : last'[u] = last[u] \/ last[u].status = "pending"
      BY <2>4, Resolution
    <3>2. QED
      BY <1>1, <1>3, <3>1
  <2>5. QED
    BY <2>1, <2>2, <2>3, <2>4, TableSteps
<1>4. UNCHANGED logins \/ \E p \in Processes : StartBot(p)
  BY DEF Next, RequestStart, Create, Accept, Decline, GetBot, Declined, Claim, Clear,
         Crash, SessionMoves, Delete, Tick, vars
<1>5. QED
  BY <1>2, <1>3, <1>4

-----------------------------------------------------------------------------
LEMMA HandlersStep ==
    ASSUME TypeOK, Handlers, RowsAreLast, RowsArePast, LoginsAreAccepted, [Next]_vars
    PROVE  Handlers'
<1> USE ConfirmationAssumption
<1>0. \A q \in Processes : Relies(q)
  BY DEF Handlers, Relies
<1>s. ASSUME \A q \in Processes : Relies(q)' PROVE Handlers'
  BY <1>s DEF Handlers, Relies
<1>k. ASSUME NEW t \in Tokens, last[t] # None, last[t].status = "accepted"
      PROVE  last'[t] = last[t]
  <2>1. ASSUME NEW u \in Tokens, NEW answer \in {"accepted", "declined"}, Resolve(u, answer)
        PROVE  last'[t] = last[t]
    BY <1>k, <2>1, Resolution
  <2>2. ASSUME NEW p \in Processes, Create(p) PROVE last'[t] = last[t]
    BY <1>k, <2>2, Creation
  <2>3. QED
    BY <1>k, <2>1, <2>2, TableSteps DEF Clear
<1>r. ASSUME NEW t \in Tokens, Resolve(t, "accepted")
      PROVE  /\ last[t].status = "pending"
             /\ last'[t] # None /\ last'[t].status = "accepted"
  BY <1>r, Resolution
\* The handler of another process, when the bots and the logins stay as they are.
<1>o. ASSUME NEW q \in Processes, turn'[q] = turn[q], UNCHANGED <<status, logins>> PROVE Relies(q)'
  BY <1>0, <1>k, <1>o DEF Relies
\* The handler of another process, when the worker was at work on a bot.
<1>w. ASSUME NEW q \in Processes, turn'[q] = turn[q], q # Owner \/ InTurn(Owner, "idle") PROVE Relies(q)'
  BY <1>0, <1>w DEF Relies, InTurn
<1>i. ASSUME NEW q \in Processes, Done(q)
      PROVE  /\ Relies(q)'
             /\ \A r \in Processes \ {q} : turn'[r] = turn[r]
  BY <1>i DEF Done, Idle, Relies, TypeOK
<1>p. ASSUME NEW q \in Processes, NEW pc, NEW b, NEW t, Proceed(q, pc, b, t)
      PROVE  /\ turn'[q].pc = pc /\ turn'[q].bot = b /\ turn'[q].token = t
             /\ \A r \in Processes \ {q} : turn'[r] = turn[r]
  BY <1>p DEF Proceed, TypeOK
<1>1. ASSUME NEW p \in Processes, NEW b \in Bots, RequestStart(p, b) PROVE Handlers'
  <2>1. Relies(p)'
    BY <1>1, <1>p DEF RequestStart, Relies
  <2>2. QED
    BY <1>1, <1>o, <1>p, <1>s, <2>1 DEF RequestStart
<1>2. ASSUME NEW p \in Processes, Create(p) PROVE Handlers'
  BY <1>2, <1>i, <1>o, <1>s DEF Create
<1>3. ASSUME NEW p \in Processes, NEW t \in Tokens, Accept(p, t) \/ Decline(p, t) PROVE Handlers'
  <2>1. rows[t].bot \in Bots
    BY <1>3, RowTypes DEF Accept, Decline, Row
  <2>2. Relies(p)'
    BY <1>3, <1>p, <2>1 DEF Accept, Decline, Relies
  <2>3. QED
    BY <1>3, <1>o, <1>p, <1>s, <2>2 DEF Accept, Decline
<1>4. ASSUME NEW p \in Processes, GetBot(p) PROVE Handlers'
  <2>1. turn[p].token \in Tokens /\ turn[p].bot \in Bots
    BY <1>4 DEF GetBot, InTurn, Handlers, Relies
  <2>2. Relies(p)'
    BY <1>4, <1>i, <1>p, <2>1 DEF GetBot, Relies, Startable, InScope
  <2>3. \A r \in Processes \ {p} : turn'[r] = turn[r]
    BY <1>4, <1>i, <1>p DEF GetBot
  <2>4. QED
    BY <1>4, <1>o, <1>s, <2>2, <2>3 DEF GetBot
<1>5. ASSUME NEW p \in Processes, Declined(p) PROVE Handlers'
  BY <1>5, <1>i, <1>o, <1>s DEF Declined
<1>6. ASSUME NEW p \in Processes, Claim(p) PROVE Handlers'
  <2> DEFINE t == turn[p].token
             b == turn[p].bot
  <2>1. p = Owner /\ t \in Tokens /\ b \in Bots /\ status[b] = "offline"
    BY <1>6 DEF Claim, InTurn, Handlers, Relies
  <2>2. CASE Resolve(t, "accepted") /\ Proceed(p, "start", b, t)
    <3>1. /\ last[t].status = "pending"
          /\ last'[t] # None /\ last'[t].status = "accepted"
      BY <1>r, <2>1, <2>2
    <3>2. logins[t] = <<>>
      BY <2>1, <3>1 DEF LoginsAreAccepted
    <3>3. turn'[p].pc = "start" /\ turn'[p].bot = b /\ turn'[p].token = t
      BY <2>2, <1>p
    <3>4. status' = status /\ logins' = logins
      BY <1>6 DEF Claim
    <3>5. Relies(p)'
      BY <2>1, <3>1, <3>2, <3>3, <3>4 DEF Relies
    <3>6. QED
      BY <1>o, <1>p, <1>s, <2>2, <3>4, <3>5
  <2>3. CASE Done(p)
    BY <1>6, <2>3, <1>i, <1>o, <1>s DEF Claim
  <2>4. QED
    BY <1>6, <2>2, <2>3 DEF Claim
<1>7. ASSUME NEW p \in Processes, StartBot(p) PROVE Handlers'
  <2>1. p = Owner
    BY <1>7 DEF StartBot, InTurn, Handlers, Relies
  <2>2. QED
    BY <1>7, <1>i, <1>w, <1>s, <2>1 DEF StartBot
<1>8. ASSUME NEW b \in Bots, SessionMoves(b) PROVE Handlers'
  BY <1>8, <1>w, <1>s DEF SessionMoves
<1>9. ASSUME NEW b \in Bots, Delete(b) PROVE Handlers'
  <2>1. Relies(Owner)'
    BY <1>9, <1>p DEF Delete, Relies
  <2>2. QED
    BY <1>9, <1>p, <1>w, <1>s, <2>1 DEF Delete
<1>10. ASSUME NEW p \in Processes, Clear(p) \/ Crash(p) PROVE Handlers'
  BY <1>10, <1>i, <1>o, <1>s DEF Clear, Crash
<1>11. CASE Tick \/ UNCHANGED vars
  BY <1>11, <1>o, <1>s DEF Tick, vars
<1>12. QED
  BY <1>1, <1>2, <1>3, <1>4, <1>5, <1>6, <1>7, <1>8, <1>9, <1>10, <1>11 DEF Next

LEMMA AppendNotEmpty ==
    ASSUME NEW S, NEW s \in Seq(S), NEW e \in S
    PROVE  Append(s, e) # <<>>
  BY AppendProperties

\* An acceptance is followed by the login, the quota or a crash.
LEMMA HonouredStep ==
    ASSUME TypeOK, Handlers, RowsAreLast, RowsArePast, ConsentIsHonoured, [Next]_vars
    PROVE  ConsentIsHonoured'
<1> USE ConfirmationAssumption
<1> DEFINE Started(t) ==
        \/ logins[t] # <<>> \/ t \in unstarted
        \/ \E p \in Processes : InTurn(p, "start") /\ turn[p].token = t
<1> SUFFICES ASSUME NEW t \in Tokens, last'[t] # None, last'[t].status = "accepted"
             PROVE  Started(t)'
  BY DEF ConsentIsHonoured
<1>1. CASE last[t] # None /\ last[t].status = "accepted"
  <2>0. Started(t)
    BY <1>1 DEF ConsentIsHonoured
  <2>1. logins[t] # <<>> => logins'[t] # <<>>
    <3>1. logins[t] \in Seq(Processes)
      BY DEF TypeOK
    <3>2. \A p \in Processes : Append(logins[t], p) # <<>>
      BY <3>1, AppendNotEmpty
    <3>3. ASSUME NEW p \in Processes, StartBot(p)
          PROVE  logins'[t] = logins[t] \/ logins'[t] = Append(logins[t], p)
      BY <3>3 DEF StartBot, TypeOK
    <3>4. UNCHANGED logins \/ \E p \in Processes : StartBot(p)
      BY DEF Next, RequestStart, Create, Accept, Decline, GetBot, Declined, Claim, Clear,
             Crash, SessionMoves, Delete, Tick, vars
    <3>5. QED
      BY <3>2, <3>3, <3>4
  <2>2. t \in unstarted => t \in unstarted'
    BY DEF Next, RequestStart, Create, Accept, Decline, GetBot, Declined, Claim, StartBot, Clear,
           Crash, SessionMoves, Delete, Tick, vars
  <2>3. ASSUME NEW p \in Processes, InTurn(p, "start"), turn[p].token = t PROVE Started(t)'
    <3>1. CASE StartBot(p)
      <4>1. p = Owner /\ status[turn[p].bot] = "offline"
        BY <2>3 DEF InTurn, Handlers, Relies
      <4>2. \/ logins' = [logins EXCEPT ![t] = Append(@, p)]
            \/ t \in unstarted'
        BY <2>3, <3>1, <4>1 DEF StartBot, InScope
      <4>3. Append(logins[t], p) # <<>>
        BY AppendNotEmpty DEF TypeOK
      <4>4. QED
        BY <4>2, <4>3 DEF TypeOK
    <3>2. CASE Crash(p)
      BY <2>3, <3>2 DEF Crash
    <3>3. CASE turn'[p] = turn[p]
      BY <2>3, <3>3 DEF InTurn
    <3>4. ASSUME NEW q \in Processes, Done(q) \/ \E pc, b, u : Proceed(q, pc, b, u), q # p
          PROVE  turn'[p] = turn[p]
      BY <3>4 DEF Done, Proceed, TypeOK
    <3>5. ASSUME NEW b \in Bots, Delete(b) PROVE turn'[p] = turn[p]
      BY <2>3, <3>4, <3>5 DEF Delete, InTurn
    <3>6. ASSUME NEW q \in Processes,
                 \/ \E b \in Bots : RequestStart(q, b)
                 \/ \E u \in Tokens : Accept(q, u) \/ Decline(q, u)
                 \/ Create(q) \/ GetBot(q) \/ Declined(q) \/ Claim(q) \/ Clear(q)
          PROVE  turn'[p] = turn[p]
      <4>1. q # p
        BY <2>3, <3>6 DEF RequestStart, Accept, Decline, Create, GetBot, Declined, Claim, Clear, InTurn
      <4>2. Done(q) \/ \E pc, b, u : Proceed(q, pc, b, u)
        BY <3>6 DEF RequestStart, Accept, Decline, Create, GetBot, Declined, Claim, Clear
      <4>3. QED
        BY <3>4, <4>1, <4>2
    <3>7. ASSUME NEW q \in Processes, StartBot(q) \/ Crash(q), q # p PROVE turn'[p] = turn[p]
      BY <3>4, <3>7 DEF StartBot, Crash
    <3>8. CASE \/ \E b \in Bots : SessionMoves(b)
               \/ Tick \/ UNCHANGED vars
      BY <3>3, <3>8 DEF SessionMoves, Tick, vars
    <3>9. QED
      BY <3>1, <3>2, <3>3, <3>5, <3>6, <3>7, <3>8 DEF Next
  <2>4. QED
    BY <2>0, <2>1, <2>2, <2>3
<1>r. ASSUME NEW u \in Tokens, NEW answer \in {"accepted", "declined"}, Resolve(u, answer)
      PROVE  last'[t] = last[t] \/ (t = u /\ last'[t].status = answer)
  <2>1. last'[u].status = answer
    BY <1>r, Resolution
  <2>2. \A v \in Tokens \ {u} : last'[v] = last[v]
    BY <1>r, Resolution
  <2>3. QED
    BY <2>1, <2>2
<1>2. CASE ~(last[t] # None /\ last[t].status = "accepted")
  <2>1. ASSUME UNCHANGED <<rows, last>> PROVE FALSE
    BY <1>2, <2>1
  <2>2. ASSUME NEW p \in Processes, Create(p) PROVE FALSE
    <3>1. last'[t] = last[t] \/ last'[t].status = "pending"
      BY <2>2, Creation
    <3>2. QED
      BY <1>2, <3>1
  <2>3. ASSUME NEW p \in Processes, Clear(p) PROVE FALSE
    BY <1>2, <2>3 DEF Clear
  <2>4. ASSUME NEW p \in Processes, Declined(p) PROVE FALSE
    <3>1. turn[p].token \in Tokens
      BY <2>4 DEF Declined, InTurn, Handlers, Relies
    <3>2. last'[t] = last[t] \/ last'[t].status = "declined"
      BY <1>r, <2>4, <3>1 DEF Declined
    <3>3. QED
      BY <1>2, <3>2
  <2>5. ASSUME NEW p \in Processes, Claim(p) PROVE Started(t)'
    <3>1. turn[p].token \in Tokens
      BY <2>5 DEF Claim, InTurn, Handlers, Relies
    <3>2. CASE Done(p)
      BY <1>2, <2>5, <3>2 DEF Claim, Done, Proceed, Idle, TypeOK
    <3>3. CASE Resolve(turn[p].token, "accepted") /\ Proceed(p, "start", turn[p].bot, turn[p].token)
      <4>1. turn[p].token = t
        BY <1>r, <1>2, <3>1, <3>3
      <4>2. turn'[p].pc = "start" /\ turn'[p].token = t
        BY <3>3, <4>1 DEF Proceed, TypeOK
      <4>3. QED
        BY <4>2 DEF InTurn
    <3>4. QED
      BY <1>2, <2>5, <3>2, <3>3 DEF Claim
  <2>6. QED
    BY <2>1, <2>2, <2>3, <2>4, <2>5, TableSteps
<1>3. QED
  BY <1>1, <1>2

-----------------------------------------------------------------------------
LEMMA ConfirmInvStart == Init => ConfirmInv
<1> SUFFICES ASSUME Init PROVE ConfirmInv
  OBVIOUS
<1> USE ConfirmationAssumption
<1>1. Idle \in Turn
  BY DEF Idle, Turn
<1>2. <<>> \in Seq(Processes)
  BY EmptySeq
<1>3. TypeOK
  BY <1>1, <1>2 DEF Init, TypeOK
<1>4. RowsAreLast /\ RowsArePast /\ OnePending /\ LoginsAreAccepted /\ Handlers /\ ConsentIsHonoured
  BY DEF Init, Idle, RowsAreLast, RowsArePast, OnePending, LoginsAreAccepted, Handlers, Relies, ConsentIsHonoured
<1>5. QED
  BY <1>3, <1>4 DEF ConfirmInv

LEMMA ConfirmInvHolds == Spec => []ConfirmInv
<1>1. ConfirmInv /\ [Next]_vars => ConfirmInv'
  BY TypeStep, RowsAreLastStep, RowsArePastStep, OnePendingStep, LoginsAreAcceptedStep,
     HandlersStep, HonouredStep DEF ConfirmInv
<1>2. QED
  BY ConfirmInvStart, <1>1, PTL DEF Spec

\* The variables keep their types.
THEOREM TypeCorrect == Spec => []TypeOK
<1>1. ConfirmInv => TypeOK
  BY DEF ConfirmInv
<1>2. QED
  BY ConfirmInvHolds, <1>1, PTL

\* acceptStartConfirmation answers yes only if the bot begins to log in, unless the
\* quota or a crash prevents it: nothing between its statements can.
THEOREM AcceptedMeansStarted == Spec => []ConsentIsHonoured
<1>1. ConfirmInv => ConsentIsHonoured
  BY DEF ConfirmInv
<1>2. QED
  BY ConfirmInvHolds, <1>1, PTL

-----------------------------------------------------------------------------
(* The refinement. *)

\* A question that was not pending stays what it was unless it is asked.
LEMMA QuestionOf ==
    ASSUME NEW t \in Tokens
    PROVE  /\ last[t] = None => question[t] = "unasked"
           /\ last[t] # None /\ last[t].status = "pending" /\ rows[t] = None => question[t] = "void"
           /\ last[t] # None /\ (last[t].status # "pending" \/ rows[t] # None) =>
                 question[t] = last[t].status
           /\ last[t] # None => forBot[t] = last[t].bot /\ askedAt[t] = last[t].createdAt
  BY DEF question, forBot, askedAt

LEMMA PageStart == Init => Page!Start
<1> SUFFICES ASSUME Init PROVE Page!Start
  OBVIOUS
<1>1. anyBot \in Bots
  BY ConfirmationAssumption DEF anyBot
<1>2. question = [t \in Tokens |-> "unasked"]
  BY DEF Init, question
<1>3. forBot \in [Tokens -> Bots] /\ askedAt \in [Tokens -> Int]
  BY <1>1 DEF Init, forBot, askedAt
<1>4. QED
  BY <1>2, <1>3 DEF Init, Page!Start

\* Rows that go take their open questions with them.
LEMMA RowsGo ==
    ASSUME UNCHANGED <<now, last, logins>>,
           \A t \in Tokens : rows'[t] = rows[t] \/ rows'[t] = None
    PROVE  Page!Lapse
<1> DEFINE lapsed == {t \in Page!Open : rows'[t] = None}
<1>1. lapsed \in SUBSET Page!Open
  OBVIOUS
<1>2. question' = [u \in Tokens |-> IF u \in lapsed THEN "void" ELSE question[u]]
  BY DEF question, Page!Open
<1>3. UNCHANGED <<now, forBot, askedAt, logins>>
  BY DEF forBot, askedAt
<1>4. QED
  BY <1>1, <1>2, <1>3 DEF Page!Lapse

LEMMA CreateAsks ==
    ASSUME ConfirmInv, NEW p \in Processes, Create(p)
    PROVE  Page!Ask \/ Page!Lapse
<1> USE ConfirmationAssumption
<1> DEFINE b == turn[p].bot
           table == Pruned(turn[p].at)
<1>0. UNCHANGED <<now, logins>>
  BY DEF Create
<1>1. /\ b \in Bots
      /\ \A u \in Tokens : table[u] = rows[u] \/ table[u] = None
  BY Creation DEF ConfirmInv
<1>2. CASE rows' = table /\ last' = last
  BY <1>0, <1>1, <1>2, RowsGo
<1>3. ASSUME NEW t \in Tokens, last[t] = None, rows[t] = None,
             rows'[t] \in Row, last'[t] = rows'[t],
             rows'[t].bot = b, rows'[t].status = "pending", rows'[t].createdAt <= now,
             \A u \in Tokens \ {t} : rows'[u] = table[u] /\ last'[u] = last[u],
             \A u \in Tokens : table[u] # None => table[u].bot # b
      PROVE  Page!Ask
  <2> DEFINE lapsed == {u \in Page!Open : rows'[u] = None}
  <2>1. lapsed \in SUBSET Page!Open
    OBVIOUS
  <2>2. rows'[t] # None /\ last'[t] # None
    BY <1>3
  <2>3. question[t] = "unasked" /\ t \notin lapsed
    BY <1>3, <2>2 DEF question
  <2>4. \A u \in Page!Open \ lapsed : forBot[u] # b
    <3> SUFFICES ASSUME NEW u \in Page!Open, u \notin lapsed PROVE forBot[u] # b
      OBVIOUS
    <3>1. u \in Tokens /\ question[u] = "pending" /\ rows'[u] # None
      BY DEF Page!Open
    <3>2. u # t
      BY <2>3, <3>1
    <3>3. table[u] # None /\ table[u] = rows[u]
      BY <1>1, <1>3, <3>1, <3>2
    <3>4. last[u] = rows[u]
      BY <3>1, <3>3 DEF ConfirmInv, RowsAreLast
    <3>5. QED
      BY <1>3, <3>1, <3>3, <3>4 DEF forBot
  <2>5. question' = [u \in Tokens |-> IF u = t THEN "pending"
                                      ELSE IF u \in lapsed THEN "void" ELSE question[u]]
    <3>1. question'[t] = "pending"
      BY <1>3, <2>2 DEF question
    <3>2. \A u \in Tokens \ {t} : question'[u] = IF u \in lapsed THEN "void" ELSE question[u]
      BY <1>1, <1>3 DEF question, Page!Open
    <3>3. question' = [u \in Tokens |-> question'[u]]
      BY DEF question
    <3>4. QED
      BY <3>1, <3>2, <3>3
  <2>6. forBot' = [forBot EXCEPT ![t] = b]
    <3>1. forBot'[t] = b
      BY <1>3, <2>2 DEF forBot
    <3>2. \A u \in Tokens \ {t} : forBot'[u] = forBot[u]
      BY <1>3 DEF forBot
    <3>3. forBot' = [u \in Tokens |-> forBot'[u]] /\ forBot = [u \in Tokens |-> forBot[u]]
      BY DEF forBot
    <3>4. QED
      BY <3>1, <3>2, <3>3
  <2>7. askedAt'[t] <= now /\ askedAt' = [askedAt EXCEPT ![t] = askedAt'[t]]
    <3>1. askedAt'[t] = rows'[t].createdAt
      BY <1>3, <2>2 DEF askedAt
    <3>2. \A u \in Tokens \ {t} : askedAt'[u] = askedAt[u]
      BY <1>3 DEF askedAt
    <3>3. askedAt' = [u \in Tokens |-> askedAt'[u]] /\ askedAt = [u \in Tokens |-> askedAt[u]]
      BY DEF askedAt
    <3>4. QED
      BY <1>3, <3>1, <3>2, <3>3
  <2>8. QED
    BY <1>0, <1>1, <2>1, <2>3, <2>4, <2>5, <2>6, <2>7 DEF Page!Ask
<1>4. QED
  BY <1>2, <1>3, Creation DEF ConfirmInv

LEMMA ResolveAnswers ==
    ASSUME ConfirmInv, NEW t \in Tokens, NEW answer \in {"accepted", "declined"},
           Resolve(t, answer), UNCHANGED <<now, logins>>
    PROVE  Page!Answer(t, answer)
<1> USE DEF ConfirmInv
<1>1. /\ rows[t] \in Row /\ last[t] = rows[t] /\ rows[t].status = "pending"
      /\ Fresh(rows[t], now)
      /\ last'[t] = rows'[t] /\ rows'[t] # None
      /\ rows'[t].bot = rows[t].bot /\ rows'[t].createdAt = rows[t].createdAt
      /\ rows'[t].status = answer
  BY Resolution
<1>2. \A u \in Tokens \ {t} : rows'[u] = rows[u] /\ last'[u] = last[u]
  BY Resolution
<1>3. rows[t] # None
  BY DEF Resolve, Resolves
<1>4. t \in Page!Open /\ now - askedAt[t] < TTL
  BY <1>1, <1>3 DEF Page!Open, question, askedAt, Fresh
<1>5. question'[t] = answer /\ forBot'[t] = forBot[t] /\ askedAt'[t] = askedAt[t]
  BY <1>1, <1>3 DEF question, forBot, askedAt
<1>6. \A u \in Tokens \ {t} : /\ question'[u] = question[u]
                             /\ forBot'[u] = forBot[u] /\ askedAt'[u] = askedAt[u]
  BY <1>2 DEF question, forBot, askedAt
<1>7. question' = [question EXCEPT ![t] = answer]
  BY <1>5, <1>6 DEF question
<1>8. forBot' = forBot /\ askedAt' = askedAt
  BY <1>5, <1>6 DEF forBot, askedAt
<1>9. QED
  BY <1>4, <1>7, <1>8 DEF Page!Answer

LEMMA StartLogsIn ==
    ASSUME ConfirmInv, NEW p \in Processes, StartBot(p)
    PROVE  (\E t \in Tokens : Page!Login(t)) \/ UNCHANGED Page!consentVars
<1> DEFINE t == turn[p].token
<1>1. UNCHANGED <<now, question, forBot, askedAt>>
  BY DEF StartBot, question, forBot, askedAt
<1>2. /\ p = Owner /\ t \in Tokens /\ logins[t] = <<>>
      /\ last[t] # None /\ last[t].status = "accepted"
  BY DEF StartBot, InTurn, ConfirmInv, Handlers, Relies
<1>3. question[t] = "accepted"
  BY <1>2 DEF question
<1>4. Append(logins[t], p) = <<Owner>>
  BY <1>2
<1>5. UNCHANGED logins \/ logins' = [logins EXCEPT ![t] = <<Owner>>]
  BY <1>2, <1>4 DEF StartBot
<1>6. QED
  BY <1>1, <1>2, <1>3, <1>5 DEF Page!Login, Page!consentVars

\* Whatever the handlers of several processes do between each other's statements,
\* the operator sees one open question per bot, answered once and in time, and for
\* a yes one login, in the process that runs the bot.
THEOREM PageKept == Spec => ConsentSpec
<1>1. ConfirmInv /\ [Next]_vars => [Page!Step]_Page!consentVars
  <2> SUFFICES ASSUME ConfirmInv, [Next]_vars
               PROVE  Page!Step \/ UNCHANGED Page!consentVars
    OBVIOUS
  <2>1. ASSUME NEW p \in Processes, Create(p) PROVE Page!Step
    BY <2>1, CreateAsks DEF Page!Step
  <2>2. ASSUME NEW p \in Processes, Clear(p) PROVE Page!Step
    <3>1. \A t \in Tokens : rows'[t] = rows[t] \/ rows'[t] = None
      BY <2>2 DEF Clear
    <3>2. QED
      BY <2>2, <3>1, RowsGo DEF Clear, Page!Step
  <2>3. ASSUME NEW p \in Processes, Declined(p) \/ Claim(p)
        PROVE  Page!Step \/ UNCHANGED Page!consentVars
    <3>1. UNCHANGED <<now, logins>> /\ turn[p].token \in Tokens
      BY <2>3 DEF Declined, Claim, InTurn, ConfirmInv, Handlers, Relies
    <3>2. ASSUME NEW answer \in {"accepted", "declined"}, Resolve(turn[p].token, answer)
          PROVE  Page!Step
      BY <3>1, <3>2, ResolveAnswers DEF Page!Step
    <3>3. CASE UNCHANGED <<rows, last>>
      BY <3>1, <3>3 DEF Page!consentVars, question, forBot, askedAt
    <3>4. QED
      BY <2>3, <3>2, <3>3 DEF Declined, Claim
  <2>4. ASSUME NEW p \in Processes, StartBot(p) PROVE Page!Step \/ UNCHANGED Page!consentVars
    BY <2>4, StartLogsIn DEF Page!Step
  <2>5. CASE Tick
    BY <2>5 DEF Tick, Page!Step, Page!Tick, question, forBot, askedAt
  <2>6. ASSUME UNCHANGED <<now, rows, last, logins>> PROVE UNCHANGED Page!consentVars
    BY <2>6 DEF Page!consentVars, question, forBot, askedAt
  <2>7. CASE \/ \E p \in Processes, b \in Bots : RequestStart(p, b)
             \/ \E p \in Processes, t \in Tokens : Accept(p, t) \/ Decline(p, t)
             \/ \E p \in Processes : GetBot(p) \/ Crash(p)
             \/ \E b \in Bots : SessionMoves(b) \/ Delete(b)
             \/ UNCHANGED vars
    BY <2>6, <2>7 DEF RequestStart, Accept, Decline, GetBot, Crash, SessionMoves, Delete, vars
  <2>8. QED
    BY <2>1, <2>2, <2>3, <2>4, <2>5, <2>7 DEF Next
<1>2. QED
  BY PageStart, <1>1, ConfirmInvHolds, PTL DEF Spec, ConsentSpec, Page!ConsentSpec
=============================================================================
