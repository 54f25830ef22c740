----------------------------- MODULE SessionService -----------------------------
(***************************************************************************)
(* What the session manager of bot/session-manager.ts promises to whoever  *)
(* looks at one bot from outside: at most one LINE account serves it, only *)
(* that account is heard and only while the bot is online, a bot goes      *)
(* online by connecting and only while it is allowed to run, the account   *)
(* is the one the bot is locked to unless its owner was excused from the   *)
(* lock when it logged in, and nothing but an admin's reset, which ends    *)
(* the session with it, ever changes the account a bot is locked to.       *)
(***************************************************************************)
CONSTANTS Mids, Names, None

VARIABLES
    status,     \* what the dashboard shows
    serving,    \* the accounts the bot is logged in with
    heard,      \* the accounts whose messages reach the bot
    lock,       \* the account the bot is locked to
    exempt,     \* its owner is excused from the lock
    allowed     \* the bot exists and is within its owner's quota

Accounts == [mid : Mids, name : Names]

NoLock == [mid |-> None, name |-> None]

Init ==
    /\ status = "offline" /\ serving = {} /\ heard = {}
    /\ lock \in [mid : Mids \cup {None}, name : Names \cup {None}]
    /\ exempt \in BOOLEAN
    /\ allowed = TRUE

\* An operator, a restart, or the end of a session that is begun again at once.
Connect ==
    /\ allowed /\ status # "connecting"
    /\ status' = "connecting" /\ serving' = {} /\ heard' = {}
    /\ UNCHANGED <<lock, exempt, allowed>>

\* A lock of older versions names no display name yet.
Fits(account) ==
    \/ exempt \/ lock.mid = None
    \/ lock.mid = account.mid /\ lock.name \in {None, account.name}

\* The first account a bot logs in with is the one it is locked to.
Admit ==
    /\ status = "connecting" /\ serving = {}
    /\ \E account \in Accounts :
          /\ Fits(account)
          /\ serving' = {account}
          /\ lock' = IF exempt THEN lock ELSE account
    /\ UNCHANGED <<status, heard, exempt, allowed>>

Listen ==
    /\ status = "connecting" /\ serving # {}
    /\ status' = "online" /\ heard' = serving
    /\ UNCHANGED <<serving, lock, exempt, allowed>>

GoesOffline == status' = "offline" /\ serving' = {} /\ heard' = {}

End == GoesOffline /\ UNCHANGED <<lock, exempt, allowed>>

Unlock == GoesOffline /\ lock' = NoLock /\ UNCHANGED <<exempt, allowed>>

Forbid == GoesOffline /\ allowed' = FALSE /\ UNCHANGED <<lock, exempt>>

Allow ==
    /\ status = "offline" /\ allowed' = TRUE
    /\ UNCHANGED <<status, serving, heard, lock, exempt>>

\* An admin grants or withdraws the exemption; who serves goes on serving.
Excuse ==
    /\ exempt' = ~ exempt
    /\ UNCHANGED <<status, serving, heard, lock, allowed>>

Next == Connect \/ Admit \/ Listen \/ End \/ Unlock \/ Forbid \/ Allow \/ Excuse

Spec == Init /\ [][Next]_<<status, serving, heard, lock, exempt, allowed>>

=============================================================================
