---------------------------- MODULE OneShotConsent ----------------------------
(***************************************************************************)
(* What the confirmation page promises before a bot logs in: a question is *)
(* put for one bot at a time, answered once and in time, and only a yes    *)
(* begins a login, once, in the process that runs the bot.                 *)
(***************************************************************************)
EXTENDS Integers, Sequences

CONSTANTS
    Bots,
    Tokens,  \* questions
    Owner,   \* the process that runs the bots
    TTL      \* how long a question may be answered

VARIABLES
    now,
    question,  \* of each token: unasked, pending, accepted, declined or void
    forBot,    \* the bot it asks about
    askedAt,
    logins     \* the processes it made start the bot, in order

consentVars == <<now, question, forBot, askedAt, logins>>

Start ==
    /\ now = 0
    /\ question = [t \in Tokens |-> "unasked"]
    /\ forBot \in [Tokens -> Bots] /\ askedAt \in [Tokens -> Int]
    /\ logins = [t \in Tokens |-> <<>>]

Open == {t \in Tokens : question[t] = "pending"}

\* Questions lapse, and one may be put about a bot that has none open.
Ask ==
    \E lapsed \in SUBSET Open, t \in Tokens, b \in Bots :
        /\ question[t] = "unasked"
        /\ \A u \in Open \ lapsed : forBot[u] # b
        /\ question' = [u \in Tokens |-> IF u = t THEN "pending"
                                         ELSE IF u \in lapsed THEN "void" ELSE question[u]]
        /\ forBot' = [forBot EXCEPT ![t] = b]
        /\ askedAt'[t] <= now
        /\ askedAt' = [askedAt EXCEPT ![t] = askedAt'[t]]
        /\ UNCHANGED <<now, logins>>

Lapse ==
    \E lapsed \in SUBSET Open :
        /\ question' = [u \in Tokens |-> IF u \in lapsed THEN "void" ELSE question[u]]
        /\ UNCHANGED <<now, forBot, askedAt, logins>>

Answer(t, answer) ==
    /\ t \in Open /\ now - askedAt[t] < TTL
    /\ question' = [question EXCEPT ![t] = answer]
    /\ UNCHANGED <<now, forBot, askedAt, logins>>

Login(t) ==
    /\ question[t] = "accepted" /\ logins[t] = <<>>
    /\ logins' = [logins EXCEPT ![t] = <<Owner>>]
    /\ UNCHANGED <<now, question, forBot, askedAt>>

Tick == now' = now + 1 /\ UNCHANGED <<question, forBot, askedAt, logins>>

Step ==
    \/ Ask \/ Lapse \/ Tick
    \/ \E t \in Tokens : Login(t) \/ Answer(t, "accepted") \/ Answer(t, "declined")

ConsentSpec == Start /\ [][Step]_consentVars
=============================================================================
