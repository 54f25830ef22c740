------------------------- MODULE SessionLifecycle_proofs -------------------------
(***************************************************************************)
(* Proofs about SessionLifecycle for any number of runtimes, attempts,     *)
(* accounts and names: type correctness, and one inductive invariant that  *)
(* gives the safety properties of the module.                              *)
(***************************************************************************)
EXTENDS SessionLifecycle, TLAPS

LEMMA NextGen ==
    ASSUME NEW was \in RuntimeType
    PROVE  \E n \in Nat : n = was.gen + 1
<1>1. was.gen \in Nat
  BY DEF RuntimeType
<1>2. was.gen + 1 \in Nat
  BY <1>1
<1>3. QED
  BY <1>2, Zenon

LEMMA FreshRuntimeType == FreshRuntime \in RuntimeType
<1>1. 0 \in Nat /\ 0 \in {0, 1} /\ FALSE \in BOOLEAN /\ None \in Attempts \cup {None}
  OBVIOUS
<1>2. QED
  BY <1>1, Zenon DEF FreshRuntime, RuntimeType

LEMMA NoAttemptType == \A r \in Runtimes : NoAttempt(r) \in AttemptType
<1>1. 0 \in Nat /\ FALSE \in BOOLEAN /\ None \in Mids \cup {None} /\ None \in Names \cup {None}
  OBVIOUS
<1>2. QED
  BY <1>1, Zenon DEF NoAttempt, AttemptType

LEMMA TornDownType ==
    ASSUME NEW was \in RuntimeType
    PROVE  TornDown(was) \in RuntimeType
BY DEF TornDown, RuntimeType

\* The other assignments to a runtime's fields.
LEMMA RuntimeUpdates ==
    ASSUME NEW was \in RuntimeType, NEW c \in Attempts \cup {None}
    PROVE  /\ \A b \in BOOLEAN :
                 [was EXCEPT !.client = c, !.failures = 0, !.excused = b] \in RuntimeType
           /\ [was EXCEPT !.watchdog = FALSE, !.failures = 0] \in RuntimeType
           /\ [was EXCEPT !.listenAbort = c, !.watchdog = TRUE] \in RuntimeType
           /\ [was EXCEPT !.stopRequested = FALSE] \in RuntimeType
           /\ [was EXCEPT !.stopRequested = FALSE, !.retry = 0] \in RuntimeType
           /\ [was EXCEPT !.retry = 0] \in RuntimeType
           /\ [was EXCEPT !.failures = 0] \in RuntimeType
           /\ \A n \in Nat : [was EXCEPT !.retry = n] \in RuntimeType
           /\ \A n \in {0, 1} : [was EXCEPT !.failures = n] \in RuntimeType
<1>1. PICK z \in Nat : z \in {0, 1} /\ z = 0
  OBVIOUS
<1>2. /\ \A b \in BOOLEAN :
            [was EXCEPT !.client = c, !.failures = z, !.excused = b] \in RuntimeType
      /\ [was EXCEPT !.watchdog = FALSE, !.failures = z] \in RuntimeType
  BY <1>1, Zenon DEF RuntimeType
<1>3. /\ [was EXCEPT !.listenAbort = c, !.watchdog = TRUE] \in RuntimeType
      /\ [was EXCEPT !.stopRequested = FALSE] \in RuntimeType
      /\ [was EXCEPT !.stopRequested = FALSE, !.retry = z] \in RuntimeType
      /\ [was EXCEPT !.retry = z] \in RuntimeType
      /\ [was EXCEPT !.failures = z] \in RuntimeType
  BY <1>1 DEF RuntimeType
<1>4. /\ \A n \in Nat : [was EXCEPT !.retry = n] \in RuntimeType
      /\ \A n \in {0, 1} : [was EXCEPT !.failures = n] \in RuntimeType
  BY DEF RuntimeType
<1>5. QED
  BY <1>1, <1>2, <1>3, <1>4

LEMMA StoppedType ==
    ASSUME NEW was \in RuntimeType
    PROVE  Stopped(was) \in RuntimeType
<1>1. PICK n \in Nat : n = was.gen + 1
  BY NextGen
<1>2. PICK down \in RuntimeType : down = TornDown(was)
  BY TornDownType
<1>3. [down EXCEPT !.stopRequested = TRUE, !.retry = 0, !.watchdog = FALSE,
                   !.active = FALSE, !.gen = n, !.loginRun = None] \in RuntimeType
  BY DEF RuntimeType
<1>4. QED
  BY <1>1, <1>2, <1>3 DEF Stopped

LEMMA RegisteredType ==
    ASSUME TypeOK, NEW r \in Runtimes, NEW was, Registered(r, was)
    PROVE  was \in RuntimeType
BY FreshRuntimeType DEF Registered, TypeOK

\* What each kind of effect does to the types of the variables it assigns.
LEMMA StopBotType ==
    ASSUME TypeOK, StopBot
    PROVE  /\ runtime' \in Runtimes \cup {None}
           /\ rt' \in [Runtimes -> RuntimeType]
           /\ listening' \in SUBSET Attempts
           /\ status' \in {"offline", "connecting", "online"}
<1>1. CASE runtime = None
  BY <1>1 DEF TypeOK, StopBot
<1>2. CASE runtime \in Runtimes
  <2>1. rt[runtime] \in RuntimeType
    BY <1>2 DEF TypeOK
  <2>2. Stopped(rt[runtime]) \in RuntimeType
    BY <2>1, StoppedType
  <2>3. QED
    BY <1>2, <2>2, LifecycleAssumption DEF TypeOK, StopBot
<1>3. QED
  BY <1>1, <1>2 DEF TypeOK

LEMMA LogOffType ==
    ASSUME TypeOK, LogOff
    PROVE  /\ runtime' \in Runtimes \cup {None}
           /\ rt' \in [Runtimes -> RuntimeType]
           /\ listening' \in SUBSET Attempts
           /\ status' \in {"offline", "connecting", "online"}
BY StopBotType DEF LogOff, NoStop, TypeOK

LEMMA BeginLoginType ==
    ASSUME TypeOK, NEW r \in Runtimes, NEW was \in RuntimeType, NEW qrFallback \in BOOLEAN,
           BeginLogin(r, was, qrFallback)
    PROVE  /\ rt' \in [Runtimes -> RuntimeType]
           /\ attempt' \in [Attempts -> AttemptType]
           /\ status' \in {"offline", "connecting", "online"}
<1>1. PICK n \in Nat : n = was.gen + 1
  BY NextGen
<1>2. PICK a \in Attempts :
          /\ rt' = [rt EXCEPT ![r] = [was EXCEPT !.gen = n, !.active = TRUE, !.loginRun = a]]
          /\ attempt' = [attempt EXCEPT ![a] =
                [pc |-> IF token # None THEN "resuming" ELSE "qr", rt |-> r,
                 gen |-> n, qrFallback |-> qrFallback,
                 mid |-> token, name |-> None]]
  BY <1>1 DEF BeginLogin
<1>3. [was EXCEPT !.gen = n, !.active = TRUE, !.loginRun = a] \in RuntimeType
  BY DEF RuntimeType
<1>4. [pc |-> IF token # None THEN "resuming" ELSE "qr", rt |-> r,
       gen |-> n, qrFallback |-> qrFallback, mid |-> token, name |-> None] \in AttemptType
  BY DEF AttemptType, TypeOK
<1>5. QED
  BY <1>2, <1>3, <1>4 DEF TypeOK, BeginLogin

LEMMA ReturnType ==
    ASSUME TypeOK, NEW a \in Attempts, NEW was \in RuntimeType, Return(a, was)
    PROVE  /\ rt' \in [Runtimes -> RuntimeType]
           /\ attempt' \in [Attempts -> AttemptType]
<1>1. Settled(was, a) \in RuntimeType
  BY DEF Settled, RuntimeType
<1>2. [attempt[a] EXCEPT !.pc = "done", !.gen = 0, !.qrFallback = FALSE] \in AttemptType
  <2>1. PICK at \in AttemptType, z \in Nat, no \in BOOLEAN : at = attempt[a] /\ z = 0 /\ no = FALSE
    BY DEF TypeOK
  <2>2. [at EXCEPT !.pc = "done", !.gen = z, !.qrFallback = no] \in AttemptType
    BY DEF AttemptType
  <2>3. QED
    BY <2>1, <2>2
<1>3. QED
  BY <1>1, <1>2 DEF Return, TypeOK

LEMMA LoggedInType ==
    ASSUME TypeOK, NEW a \in Attempts, NEW m \in Mids, LoggedIn(a, m)
    PROVE  /\ rt' \in [Runtimes -> RuntimeType]
           /\ attempt' \in [Attempts -> AttemptType]
           /\ status' \in {"offline", "connecting", "online"}
           /\ listening' \in SUBSET Attempts
           /\ inflight' \in SUBSET Attempts
           /\ token' \in Mids \cup {None}
           /\ lock' \in [mid : Mids \cup {None}, name : Names \cup {None}]
<1>1. PICK r \in Runtimes : r = attempt[a].rt
  BY DEF TypeOK, AttemptType
<1>2. PICK o : o = IdLockOutcome(m, nameOf[m])
  OBVIOUS
<1>3. rt[r] \in RuntimeType /\ nameOf[m] \in Names
  BY DEF TypeOK
<1>4. CASE Refused(o)
  <2>1. Return(a, TornDown(rt[r])) /\ status' = "offline" /\ listening' = listening \ {rt[r].listenAbort}
        /\ UNCHANGED <<token, lock, inflight>>
    BY <1>1, <1>2, <1>4 DEF LoggedIn
  <2>2. QED
    BY <2>1, <1>3, TornDownType, ReturnType DEF TypeOK
<1>5. CASE ~ Refused(o)
  <2>1. /\ rt' = [rt EXCEPT ![r].client = a, ![r].failures = 0, ![r].excused = (o = "exempt")]
        /\ attempt' = [attempt EXCEPT ![a].pc = "preparing", ![a].mid = m, ![a].name = nameOf[m]]
        /\ lock' = CASE o = "exempt" -> lock
                     [] o = "first_login" -> [mid |-> m, name |-> nameOf[m]]
                     [] OTHER -> [lock EXCEPT !.name = IF @ = None THEN nameOf[m] ELSE @]
        /\ token' = m
        /\ inflight' = inflight \cup {a}
        /\ UNCHANGED <<status, listening>>
    BY <1>1, <1>2, <1>5 DEF LoggedIn
  <2>2. [rt[r] EXCEPT !.client = a, !.failures = 0, !.excused = (o = "exempt")] \in RuntimeType
    BY <1>3, a \in Attempts \cup {None}, (o = "exempt") \in BOOLEAN, RuntimeUpdates
  <2>3. rt' \in [Runtimes -> RuntimeType]
    BY <2>1, <2>2 DEF TypeOK
  <2>4. [attempt[a] EXCEPT !.pc = "preparing", !.mid = m, !.name = nameOf[m]] \in AttemptType
    <3>1. PICK at \in AttemptType, n \in Names : at = attempt[a] /\ n = nameOf[m]
      BY DEF TypeOK
    <3>2. [at EXCEPT !.pc = "preparing", !.mid = m, !.name = n] \in AttemptType
      BY DEF AttemptType
    <3>3. QED
      BY <3>1, <3>2
  <2>5. attempt' \in [Attempts -> AttemptType]
    BY <2>1, <2>4 DEF TypeOK
  <2>6. lock' \in [mid : Mids \cup {None}, name : Names \cup {None}]
    BY <2>1, <1>3 DEF TypeOK
  <2>7. QED
    BY <2>1, <2>3, <2>5, <2>6 DEF TypeOK
<1>6. QED
  BY <1>4, <1>5

LEMMA RebuildType ==
    ASSUME TypeOK, NEW r \in Runtimes, NEW s \in {"offline", "connecting", "online"}, Rebuild(r, s)
    PROVE  /\ rt' \in [Runtimes -> RuntimeType]
           /\ attempt' \in [Attempts -> AttemptType]
           /\ status' \in {"offline", "connecting", "online"}
           /\ listening' \in SUBSET Attempts
<1>1. PICK was \in RuntimeType : was = [TornDown(rt[r]) EXCEPT !.watchdog = FALSE, !.failures = 0]
  <2>1. PICK down \in RuntimeType : down = TornDown(rt[r])
    BY TornDownType DEF TypeOK
  <2>2. [down EXCEPT !.watchdog = FALSE, !.failures = 0] \in RuntimeType
    BY None \in Attempts \cup {None}, RuntimeUpdates
  <2>3. QED
    BY <2>1, <2>2
<1>2. \/ BeginLogin(r, was, TRUE)
      \/ rt' = [rt EXCEPT ![r] = was] /\ status' = s /\ UNCHANGED attempt
  BY <1>1 DEF Rebuild
<1>3. listening' \in SUBSET Attempts
  BY DEF Rebuild, TypeOK
<1>4. CASE BeginLogin(r, was, TRUE)
  BY <1>3, <1>4, BeginLoginType
<1>5. CASE rt' = [rt EXCEPT ![r] = was] /\ status' = s /\ UNCHANGED attempt
  BY <1>3, <1>5 DEF TypeOK
<1>6. QED
  BY <1>2, <1>4, <1>5

LEMMA InitType == Init => TypeOK
<1> SUFFICES ASSUME Init PROVE TypeOK
  OBVIOUS
<1>1. rt \in [Runtimes -> RuntimeType] /\ attempt \in [Attempts -> AttemptType]
  BY FreshRuntimeType, NoAttemptType DEF Init
<1>2. lock \in [mid : Mids \cup {None}, name : Names \cup {None}]
  BY DEF Init, NoLock
<1>3. token \in Mids \cup {None}
  BY DEF Init, NoLock
<1>4. QED
  BY <1>1, <1>2, <1>3 DEF Init, TypeOK

LEMMA OperatorType == TypeOK /\ (Operator \/ Rename) => TypeOK'
<1> SUFFICES ASSUME TypeOK, Operator \/ Rename PROVE TypeOK'
  OBVIOUS
<1>1. CASE Stop
  BY <1>1, StopBotType DEF Stop, TypeOK
<1>2. CASE Start
  <2>1. PICK r \in Runtimes, was \in {FreshRuntime} \cup {rt[q] : q \in Runtimes} :
          /\ Registered(r, was)
          /\ runtime' = r
          /\ LET ready == [was EXCEPT !.stopRequested = FALSE, !.retry = 0] IN
                \/ CanBegin(ready) /\ BeginLogin(r, ready, TRUE)
                \/ /\ ~ CanBegin(ready)
                   /\ rt' = [rt EXCEPT ![r] = ready]
                   /\ UNCHANGED <<attempt, status>>
    BY <1>2 DEF Start
  <2>2. PICK ready \in RuntimeType : ready = [was EXCEPT !.stopRequested = FALSE, !.retry = 0]
    BY <2>1, RegisteredType, None \in Attempts \cup {None}, RuntimeUpdates
  <2>3. CASE BeginLogin(r, ready, TRUE)
    BY <1>2, <2>1, <2>3, BeginLoginType DEF Start, TypeOK
  <2>4. CASE rt' = [rt EXCEPT ![r] = ready] /\ UNCHANGED <<attempt, status>>
    BY <1>2, <2>1, <2>4 DEF Start, TypeOK
  <2>5. QED
    BY <2>1, <2>2, <2>3, <2>4
<1>3. CASE ResetIdLock
  BY <1>3, LogOffType DEF ResetIdLock, TypeOK, NoLock
<1>4. CASE ForceRelogin
  BY <1>4, LogOffType DEF ForceRelogin, TypeOK
<1>5. CASE LowerQuota
  BY <1>5, StopBotType DEF LowerQuota, TypeOK
<1>6. CASE RaiseQuota
  BY <1>6 DEF RaiseQuota, memory, TypeOK
<1>7. CASE DeleteBotSession
  BY <1>7, StopBotType DEF DeleteBotSession, TypeOK
<1>8. CASE Rename
  BY <1>8 DEF Rename, memory, TypeOK
<1>9. CASE SetExemption
  BY <1>9 DEF SetExemption, memory, TypeOK
<1>10. QED
  BY <1>1, <1>2, <1>3, <1>4, <1>5, <1>6, <1>7, <1>8, <1>9 DEF Operator

LEMMA LoginStepType ==
    ASSUME TypeOK, NEW a \in Attempts, LoginStep(a)
    PROVE  TypeOK'
<1>1. PICK r \in Runtimes : r = attempt[a].rt
  BY DEF TypeOK, AttemptType
<1>2. rt[r] \in RuntimeType /\ attempt[a].mid \in Mids \cup {None} /\ attempt[a].gen \in Nat
  BY DEF TypeOK, AttemptType
<1>3. CASE ResumeAccepted(a)
  <2>1. PICK m \in Mids : LoggedIn(a, m)
    BY <1>3 DEF ResumeAccepted
  <2>2. QED
    BY <1>3, <2>1, LoggedInType DEF ResumeAccepted, TypeOK
<1>4. CASE ResumeRejected(a)
  <2>1. CASE Return(a, rt[attempt[a].rt]) /\ status' = "offline"
    BY <1>1, <1>2, <1>4, <2>1, ReturnType DEF ResumeRejected, TypeOK
  <2>2. CASE attempt' = [attempt EXCEPT ![a].pc = "qr"] /\ UNCHANGED <<rt, status>>
    <3>1. PICK at \in AttemptType : at = attempt[a]
      BY DEF TypeOK
    <3>2. [at EXCEPT !.pc = "qr"] \in AttemptType
      BY DEF AttemptType
    <3>3. QED
      BY <1>4, <2>2, <3>1, <3>2 DEF ResumeRejected, TypeOK
  <2>3. QED
    BY <1>4, <2>1, <2>2 DEF ResumeRejected
<1>5. CASE QrScanned(a)
  <2>1. PICK m \in Mids : LoggedIn(a, m)
    BY <1>5 DEF QrScanned
  <2>2. QED
    BY <1>5, <2>1, LoggedInType DEF QrScanned, TypeOK
<1>6. CASE Prepared(a)
  <2>1. [rt[r] EXCEPT !.listenAbort = a, !.watchdog = TRUE] \in RuntimeType
    BY <1>2, a \in Attempts \cup {None}, RuntimeUpdates
  <2>2. QED
    BY <1>1, <1>6, <2>1, ReturnType DEF Prepared, TypeOK
<1>7. CASE LoginFails(a)
  <2>1. PICK was \in RuntimeType : was = TornDown(rt[r])
    BY <1>2, TornDownType
  <2>2. [was EXCEPT !.retry = attempt[a].gen] \in RuntimeType
    BY <1>2, None \in Attempts \cup {None}, RuntimeUpdates
  <2>3. Return(a, was) \/ Return(a, [was EXCEPT !.retry = attempt[a].gen])
    BY <1>1, <1>7, <2>1 DEF LoginFails, Caught
  <2>4. rt' \in [Runtimes -> RuntimeType] /\ attempt' \in [Attempts -> AttemptType]
    BY <2>2, <2>3, ReturnType
  <2>5. QED
    BY <1>7, <2>4 DEF LoginFails, TypeOK
<1>8. CASE StaleReturns(a)
  BY <1>1, <1>2, <1>8, ReturnType DEF StaleReturns, TypeOK
<1>9. QED
  BY <1>3, <1>4, <1>5, <1>6, <1>7, <1>8 DEF LoginStep

LEMMA TimerType ==
    ASSUME TypeOK, NEW r \in Runtimes, RetryFires(r) \/ WatchdogFires(r)
    PROVE  TypeOK'
<1>1. CASE RetryFires(r)
  <2>1. PICK was \in RuntimeType : was = [rt[r] EXCEPT !.retry = 0]
    BY None \in Attempts \cup {None}, RuntimeUpdates DEF TypeOK
  <2>2. \/ BeginLogin(r, was, TRUE)
        \/ rt' = [rt EXCEPT ![r] = was] /\ UNCHANGED <<attempt, status>>
    BY <1>1, <2>1 DEF RetryFires
  <2>3. rt' \in [Runtimes -> RuntimeType] /\ attempt' \in [Attempts -> AttemptType]
        /\ status' \in {"offline", "connecting", "online"}
    BY <2>2, BeginLoginType DEF TypeOK
  <2>4. QED
    BY <1>1, <2>3 DEF RetryFires, TypeOK
<1>2. CASE WatchdogFires(r)
  <2>1. rt[r].client \in Attempts
    BY <1>2 DEF WatchdogFires, TypeOK, RuntimeType
  <2>2. QED
    BY <1>2, <2>1 DEF WatchdogFires, TypeOK
<1>3. QED
  BY <1>1, <1>2

LEMMA SessionType ==
    ASSUME TypeOK, NEW c \in Attempts,
           ProbeAnswered(c) \/ ListenerLost(c) \/ TokenRotates(c) \/ LastAnswer(c)
    PROVE  TypeOK'
<1>1. PICK r \in Runtimes : r = attempt[c].rt
  BY DEF TypeOK, AttemptType
<1>2. rt[r] \in RuntimeType /\ status \in {"offline", "connecting", "online"}
  BY DEF TypeOK
<1>3. CASE ProbeSucceeds(c)
  <2>1. \/ NoStop \/ StopBot
        \/ rt' = [rt EXCEPT ![r].failures = 0] /\ UNCHANGED <<runtime, listening, status>>
    BY <1>1, <1>3 DEF ProbeSucceeds
  <2>2. [rt[r] EXCEPT !.failures = 0] \in RuntimeType
    BY <1>2, None \in Attempts \cup {None}, RuntimeUpdates
  <2>3. /\ runtime' \in Runtimes \cup {None}
        /\ rt' \in [Runtimes -> RuntimeType]
        /\ listening' \in SUBSET Attempts
        /\ status' \in {"offline", "connecting", "online"}
    BY <2>1, <2>2, StopBotType DEF NoStop, TypeOK
  <2>4. QED
    BY <1>3, <2>3 DEF ProbeSucceeds, TypeOK
<1>4. CASE ProbeFails(c)
  <2>1. \/ UNCHANGED <<rt, attempt, listening, status>>
        \/ /\ rt[r].failures + 1 < 2
           /\ rt' = [rt EXCEPT ![r].failures = @ + 1]
           /\ UNCHANGED <<attempt, listening, status>>
        \/ Rebuild(r, "offline")
    <3>1. rt[r].failures \in Nat
      BY <1>2 DEF RuntimeType
    <3>2. QED
      BY <1>1, <1>4, <3>1 DEF ProbeFails, WATCHDOG_FAILURES_BEFORE_RECOVERY
  <2>2. ASSUME rt[r].failures + 1 < 2
        PROVE  [rt[r] EXCEPT !.failures = @ + 1] \in RuntimeType
    <3>1. rt[r].failures \in {0, 1}
      BY <1>2 DEF RuntimeType
    <3>2. rt[r].failures + 1 \in {0, 1}
      BY <2>2, <3>1
    <3>3. PICK n \in {0, 1} : n = rt[r].failures + 1
      BY <3>2, Zenon
    <3>4. [rt[r] EXCEPT !.failures = n] \in RuntimeType
      BY <1>2, None \in Attempts \cup {None}, RuntimeUpdates
    <3>5. QED
      BY <3>3, <3>4
  <2>3. /\ rt' \in [Runtimes -> RuntimeType]
        /\ attempt' \in [Attempts -> AttemptType]
        /\ status' \in {"offline", "connecting", "online"}
        /\ listening' \in SUBSET Attempts
    BY <2>1, <2>2, RebuildType DEF TypeOK
  <2>4. QED
    BY <1>4, <2>3 DEF ProbeFails, TypeOK
<1>5. CASE ListenerLost(c)
  <2>1. Rebuild(r, status)
    BY <1>1, <1>5 DEF ListenerLost
  <2>2. QED
    BY <1>2, <1>5, <2>1, RebuildType DEF ListenerLost, TypeOK
<1>6. CASE TokenRotates(c)
  <2>1. attempt[c].mid \in Mids \cup {None}
    BY DEF TypeOK, AttemptType
  <2>2. QED
    BY <1>6, <2>1 DEF TokenRotates, memory, TypeOK
<1>7. CASE LastAnswer(c)
  BY <1>7 DEF LastAnswer, TypeOK
<1>8. QED
  BY <1>3, <1>4, <1>5, <1>6, <1>7 DEF ProbeAnswered

LEMMA BootType == TypeOK /\ (CrashAndBoot \/ SweepLegacyIdLockNames \/ ResumePreviouslyRunning) => TypeOK'
<1> SUFFICES ASSUME TypeOK, CrashAndBoot \/ SweepLegacyIdLockNames \/ ResumePreviouslyRunning
             PROVE  TypeOK'
  OBVIOUS
<1>1. CASE CrashAndBoot
  <2>1. rt' \in [Runtimes -> RuntimeType] /\ attempt' \in [Attempts -> AttemptType]
    BY <1>1, FreshRuntimeType, NoAttemptType DEF CrashAndBoot
  <2>2. QED
    BY <1>1, <2>1 DEF CrashAndBoot, TypeOK
<1>2. CASE SweepLegacyIdLockNames
  <2>1. LogOff \/ NoStop
    BY <1>2 DEF SweepLegacyIdLockNames
  <2>2. /\ runtime' \in Runtimes \cup {None}
        /\ rt' \in [Runtimes -> RuntimeType]
        /\ listening' \in SUBSET Attempts
        /\ status' \in {"offline", "connecting", "online"}
    BY <2>1, LogOffType DEF NoStop, TypeOK
  <2>3. QED
    BY <1>2, <2>2 DEF SweepLegacyIdLockNames, TypeOK
<1>3. CASE ResumePreviouslyRunning
  <2>1. CASE UNCHANGED <<runtime, rt, attempt, status>>
    BY <1>3, <2>1 DEF ResumePreviouslyRunning, TypeOK
  <2>2. CASE ~ UNCHANGED <<runtime, rt, attempt, status>>
    <3>1. PICK r \in Runtimes, was \in {FreshRuntime} \cup {rt[q] : q \in Runtimes} :
            /\ Registered(r, was)
            /\ runtime' = r
            /\ LET ready == [was EXCEPT !.stopRequested = FALSE] IN
                  \/ CanBegin(ready) /\ BeginLogin(r, ready, FALSE)
                  \/ /\ ~ CanBegin(ready)
                     /\ rt' = [rt EXCEPT ![r] = ready]
                     /\ UNCHANGED <<attempt, status>>
      BY <1>3, <2>2 DEF ResumePreviouslyRunning
    <3>2. PICK ready \in RuntimeType : ready = [was EXCEPT !.stopRequested = FALSE]
      BY <3>1, RegisteredType, None \in Attempts \cup {None}, RuntimeUpdates
    <3>3. CASE BeginLogin(r, ready, FALSE)
      BY <1>3, <3>1, <3>3, BeginLoginType DEF ResumePreviouslyRunning, TypeOK
    <3>4. CASE rt' = [rt EXCEPT ![r] = ready] /\ UNCHANGED <<attempt, status>>
      BY <1>3, <3>1, <3>4 DEF ResumePreviouslyRunning, TypeOK
    <3>5. QED
      BY <3>1, <3>2, <3>3, <3>4
  <2>3. QED
    BY <2>1, <2>2
<1>4. QED
  BY <1>1, <1>2, <1>3

\* Type correctness: every variable holds what the code keeps there, for any
\* numbers of runtimes, attempts, accounts and names.
THEOREM TypeCorrect == Spec => []TypeOK
<1>1. TypeOK /\ [Next]_vars => TypeOK'
  <2>1. TypeOK /\ UNCHANGED vars => TypeOK'
    BY DEF TypeOK, vars, memory
  <2>2. QED
    BY <2>1, OperatorType, LoginStepType, TimerType, SessionType, BootType DEF Next
<1>2. QED
  BY <1>1, InitType, PTL DEF Spec

-----------------------------------------------------------------------------
\* The inductive invariant, in parts.
OutsideMapIsIdle ==
    \A r \in Runtimes \ {runtime} :
        /\ rt[r].client = None /\ ~ rt[r].watchdog
        /\ rt[r].retry = 0 /\ ~ rt[r].active

\* The four situations of the registered runtime.
Idle(now) ==
    /\ now.client = None /\ now.listenAbort = None /\ now.loginRun = None
    /\ ~ now.watchdog /\ ~ now.active
    /\ status = "offline"

OpenLogin(now, a) ==
    /\ now.loginRun = a /\ now.active /\ now.gen = attempt[a].gen
    /\ now.listenAbort = None /\ ~ now.watchdog
    /\ attempt[a].rt = runtime
    /\ status = "connecting"

LoggingIn(now) ==
    \E a \in Attempts :
        OpenLogin(now, a) /\ now.client = None /\ attempt[a].pc \in {"resuming", "qr"}

Preparing(now) ==
    \E a \in Attempts :
        OpenLogin(now, a) /\ now.client = a /\ attempt[a].pc = "preparing"

Online(now) ==
    /\ now.client \in Attempts /\ now.listenAbort = now.client
    /\ now.watchdog /\ ~ now.active /\ now.loginRun = None
    /\ attempt[now.client].rt = runtime /\ attempt[now.client].pc = "done"
    /\ status = "online"

RuntimeIsSound ==
    IF runtime = None THEN status = "offline" ELSE
        /\ ~ rt[runtime].stopRequested
        /\ \/ Idle(rt[runtime]) \/ LoggingIn(rt[runtime])
           \/ Preparing(rt[runtime]) \/ Online(rt[runtime])

ListeningIsRegistered ==
    listening = IF runtime = None THEN {} ELSE {rt[runtime].listenAbort} \ {None}

\* A login still waiting under the registered runtime is the one it waits for.
OpenAttempts ==
    \A a \in Attempts :
        attempt[a].pc # "done" /\ attempt[a].rt = runtime => rt[runtime].loginRun = a

ProbesAreSettled == \A c \in probes : attempt[c].pc = "done"

Core == OutsideMapIsIdle /\ RuntimeIsSound /\ ListeningIsRegistered /\ OpenAttempts

IInv == TypeOK /\ Core /\ ProbesAreSettled /\ LiveSessionMatchesLock /\ OverQuotaNeverRuns

\* Only the registered runtime has a client, an open login or a timer.
LEMMA OnlyRegistered ==
    ASSUME TypeOK, Core, NEW r \in Runtimes,
           rt[r].client # None \/ rt[r].active \/ rt[r].watchdog \/ rt[r].retry # 0
    PROVE  r = runtime /\ runtime # None
BY LifecycleAssumption DEF Core, OutsideMapIsIdle

\* An attempt that still counts is the open login of the registered runtime.
LEMMA CurrentAttempt ==
    ASSUME TypeOK, Core, NEW a \in Attempts, attempt[a].pc # "done", Current(a)
    PROVE  /\ runtime \in Runtimes /\ runtime # None
           /\ attempt[a].rt = runtime /\ ~ rt[runtime].stopRequested
           /\ OpenLogin(rt[runtime], a)
           /\ rt[runtime].client = IF attempt[a].pc = "preparing" THEN a ELSE None
           /\ listening = {}
<1>1. attempt[a].rt \in Runtimes
  BY DEF TypeOK, AttemptType
<1>2. attempt[a].rt = runtime /\ runtime # None /\ rt[runtime].active
  BY <1>1, OnlyRegistered DEF Current
<1>3. rt[runtime].loginRun = a
  BY <1>2 DEF Core, OpenAttempts
<1>4. LoggingIn(rt[runtime]) \/ Preparing(rt[runtime])
  BY <1>2 DEF Core, RuntimeIsSound, Idle, Online
<1>5. PICK b \in Attempts :
         /\ OpenLogin(rt[runtime], b)
         /\ \/ rt[runtime].client = None /\ attempt[b].pc \in {"resuming", "qr"}
            \/ rt[runtime].client = b /\ attempt[b].pc = "preparing"
  BY <1>4 DEF LoggingIn, Preparing
<1>6. b = a
  BY <1>3, <1>5 DEF OpenLogin
<1>7. listening = {}
  BY <1>2, <1>5 DEF Core, ListeningIsRegistered, OpenLogin
<1>8. QED
  BY <1>1, <1>2, <1>5, <1>6, <1>7 DEF Core, RuntimeIsSound

\* An attempt that no longer counts belongs to a runtime that left the map.
LEMMA StaleAttempt ==
    ASSUME TypeOK, Core, NEW a \in Attempts, attempt[a].pc # "done", ~ Current(a)
    PROVE  attempt[a].rt # runtime
<1> SUFFICES ASSUME attempt[a].rt = runtime PROVE FALSE
  OBVIOUS
<1>1. runtime \in Runtimes /\ runtime # None /\ a # None
  BY LifecycleAssumption DEF TypeOK, AttemptType
<1>2. rt[runtime].loginRun = a /\ ~ rt[runtime].stopRequested
  BY <1>1 DEF Core, OpenAttempts, RuntimeIsSound
<1>3. PICK b \in Attempts : OpenLogin(rt[runtime], b)
  BY <1>1, <1>2 DEF Core, RuntimeIsSound, Idle, Online, LoggingIn, Preparing
<1>4. QED
  BY <1>2, <1>3 DEF OpenLogin, Current

\* Stopping leaves no registered runtime and nothing behind in the old one.
LEMMA StopBotCore ==
    ASSUME TypeOK, Core, StopBot, UNCHANGED attempt
    PROVE  Core' /\ Live' = None /\ status' = "offline"
<1>1. runtime' = None /\ status' = "offline"
  BY DEF StopBot
<1>2. listening' = {}
  BY DEF StopBot, Core, ListeningIsRegistered
<1>3. ASSUME NEW r \in Runtimes
      PROVE  rt'[r].client = None /\ ~ rt'[r].watchdog /\ rt'[r].retry = 0 /\ ~ rt'[r].active
  <2>1. CASE r # runtime
    <3>1. rt'[r] = rt[r]
      BY <2>1 DEF StopBot, TypeOK
    <3>2. QED
      BY <2>1, <3>1 DEF Core, OutsideMapIsIdle
  <2>2. CASE r = runtime
    <3>1. rt[r] \in RuntimeType /\ rt'[r] = Stopped(rt[r])
      BY <2>2, LifecycleAssumption DEF StopBot, TypeOK
    <3>2. QED
      BY <3>1 DEF Stopped, TornDown, RuntimeType
  <2>3. QED
    BY <2>1, <2>2
<1>4. \A a \in Attempts : attempt'[a].rt # None
  BY LifecycleAssumption DEF TypeOK, AttemptType
<1>5. QED
  BY <1>1, <1>2, <1>3, <1>4
     DEF Core, OutsideMapIsIdle, RuntimeIsSound, ListeningIsRegistered, OpenAttempts, Live

\* A login begun on a quiet runtime leaves it logging in.
Quiet(was) ==
    /\ was.client = None /\ was.listenAbort = None /\ was.loginRun = None
    /\ ~ was.watchdog /\ ~ was.active /\ ~ was.stopRequested

LEMMA BeginLoginCore ==
    ASSUME TypeOK, NEW r \in Runtimes, NEW was \in RuntimeType, NEW qrFallback, Quiet(was),
           BeginLogin(r, was, qrFallback), runtime' = r, listening' = {},
           \A q \in Runtimes \ {r} :
               rt[q].client = None /\ ~ rt[q].watchdog /\ rt[q].retry = 0 /\ ~ rt[q].active,
           \A a \in Attempts : attempt[a].pc # "done" => attempt[a].rt # r,
           probes' \subseteq probes, ProbesAreSettled
    PROVE  Core' /\ ProbesAreSettled' /\ Live' = None
<1>1. PICK n \in Nat : n = was.gen + 1
  BY NextGen
<1>2. PICK a \in Attempts :
          /\ ~ Referenced(a)
          /\ rt' = [rt EXCEPT ![r] = [was EXCEPT !.gen = n, !.active = TRUE, !.loginRun = a]]
          /\ attempt' = [attempt EXCEPT ![a] =
                [pc |-> IF token # None THEN "resuming" ELSE "qr", rt |-> r,
                 gen |-> n, qrFallback |-> qrFallback,
                 mid |-> token, name |-> None]]
  BY <1>1 DEF BeginLogin
<1>3. status' = "connecting" /\ r # None
  BY LifecycleAssumption DEF BeginLogin
<1>4. PICK now : now = rt'[r]
  OBVIOUS
<1>5. /\ now.gen = n /\ now.active = TRUE /\ now.loginRun = a
      /\ now.client = None /\ now.listenAbort = None /\ ~ now.watchdog /\ ~ now.stopRequested
  BY <1>2, <1>4 DEF TypeOK, RuntimeType, Quiet
<1>6. attempt'[a].rt = r /\ attempt'[a].gen = n /\ attempt'[a].pc \in {"resuming", "qr"}
  BY <1>2 DEF TypeOK
<1>7. \A b \in Attempts \ {a} : attempt'[b] = attempt[b]
  BY <1>2 DEF TypeOK
<1>8. \A q \in Runtimes \ {r} : rt'[q] = rt[q]
  BY <1>2 DEF TypeOK
<1>9. OutsideMapIsIdle'
  BY <1>8 DEF OutsideMapIsIdle
<1>10. RuntimeIsSound'
  BY <1>3, <1>4, <1>5, <1>6 DEF RuntimeIsSound, LoggingIn, OpenLogin
<1>11. ListeningIsRegistered'
  BY <1>3, <1>4, <1>5 DEF ListeningIsRegistered
<1>12. OpenAttempts'
  BY <1>4, <1>5, <1>7 DEF OpenAttempts
<1>13. ProbesAreSettled'
  <2>1. a \notin probes
    BY <1>2 DEF Referenced
  <2>2. QED
    BY <1>7, <2>1 DEF ProbesAreSettled, TypeOK
<1>14. QED
  BY <1>3, <1>4, <1>5, <1>9, <1>10, <1>11, <1>12, <1>13 DEF Core, Live

\* A current attempt that returns with the session torn down leaves it idle.
LEMMA ReturnIdle ==
    ASSUME TypeOK, Core, NEW a \in Attempts, attempt[a].pc # "done", Current(a),
           NEW was \in RuntimeType, Return(a, was),
           was.client = None, was.listenAbort = None, ~ was.watchdog, ~ was.stopRequested,
           was.gen = rt[runtime].gen, was.loginRun = a,
           status' = "offline", listening' = {}, UNCHANGED <<runtime, probes>>, ProbesAreSettled
    PROVE  Core' /\ ProbesAreSettled' /\ Live' = None
<1>1. /\ runtime \in Runtimes /\ runtime # None /\ attempt[a].rt = runtime
      /\ OpenLogin(rt[runtime], a)
  BY CurrentAttempt
<1>2. PICK now : now = rt'[runtime]
  OBVIOUS
<1>3. now = Settled(was, a) /\ was.gen = attempt[a].gen
  BY <1>1, <1>2 DEF Return, TypeOK, OpenLogin
<1>4. /\ now.client = None /\ now.listenAbort = None /\ now.loginRun = None
      /\ ~ now.watchdog /\ now.active = FALSE /\ ~ now.stopRequested
  BY <1>3 DEF Settled, RuntimeType
<1>5. \A q \in Runtimes \ {runtime} : rt'[q] = rt[q]
  BY <1>1 DEF Return, TypeOK
<1>6. /\ \A b \in Attempts \ {a} : attempt'[b] = attempt[b]
      /\ attempt'[a].pc = "done"
  BY DEF Return, TypeOK, AttemptType
<1>7. OutsideMapIsIdle'
  BY <1>5 DEF OutsideMapIsIdle, Core
<1>8. RuntimeIsSound'
  BY <1>1, <1>2, <1>4 DEF RuntimeIsSound, Idle
<1>9. ListeningIsRegistered'
  BY <1>1, <1>2, <1>4 DEF ListeningIsRegistered
<1>10. \A b \in Attempts : ~ (attempt'[b].pc # "done" /\ attempt'[b].rt = runtime)
  BY <1>1, <1>6 DEF Core, OpenAttempts, OpenLogin
<1>11. OpenAttempts'
  BY <1>10 DEF OpenAttempts
<1>12. ProbesAreSettled'
  BY <1>6 DEF ProbesAreSettled, TypeOK
<1>13. QED
  BY <1>1, <1>2, <1>4, <1>7, <1>8, <1>9, <1>11, <1>12 DEF Core, Live

\* The two properties besides Core hold by themselves in an idle bot.
LEMMA NothingRuns ==
    ASSUME status' = "offline" \/ UNCHANGED <<bot, status>>, Live' = None, OverQuotaNeverRuns
    PROVE  LiveSessionMatchesLock' /\ OverQuotaNeverRuns'
BY DEF LiveSessionMatchesLock, OverQuotaNeverRuns

\* A login LINE accepted: let in under the lock, or thrown out again.
LEMMA LoggedInInv ==
    ASSUME IInv, NEW a \in Attempts, NEW m \in Mids,
           attempt[a].pc \in {"resuming", "qr"}, Current(a), LoggedIn(a, m),
           UNCHANGED <<runtime, probes, bot>>
    PROVE  Core' /\ ProbesAreSettled' /\ LiveSessionMatchesLock' /\ OverQuotaNeverRuns'
<1> USE DEF IInv
<1>1. /\ runtime \in Runtimes /\ runtime # None /\ attempt[a].rt = runtime
      /\ ~ rt[runtime].stopRequested
      /\ OpenLogin(rt[runtime], a) /\ rt[runtime].client = None /\ listening = {}
  BY CurrentAttempt
<1>2. PICK o : o = IdLockOutcome(m, nameOf[m])
  OBVIOUS
<1>3. PICK was \in RuntimeType : was = rt[runtime]
  BY <1>1 DEF TypeOK
<1>4. CASE Refused(o)
  <2>1. Return(a, TornDown(was)) /\ status' = "offline" /\ listening' = {}
    BY <1>1, <1>2, <1>3, <1>4 DEF LoggedIn
  <2>2. PICK down \in RuntimeType : down = TornDown(was)
    BY TornDownType
  <2>3. /\ down.client = None /\ down.listenAbort = None /\ ~ down.watchdog
        /\ ~ down.stopRequested /\ down.gen = rt[runtime].gen /\ down.loginRun = a
    BY <1>1, <1>3, <2>2 DEF TornDown, RuntimeType, OpenLogin
  <2>4. Core' /\ ProbesAreSettled' /\ Live' = None
    BY <2>1, <2>2, <2>3, ReturnIdle
  <2>5. QED
    BY <2>1, <2>4, NothingRuns
<1>5. CASE ~ Refused(o)
  <2>1. /\ rt' = [rt EXCEPT ![runtime].client = a, ![runtime].failures = 0,
                             ![runtime].excused = (o = "exempt")]
        /\ attempt' = [attempt EXCEPT ![a].pc = "preparing", ![a].mid = m, ![a].name = nameOf[m]]
        /\ lock' = CASE o = "exempt" -> lock
                     [] o = "first_login" -> [mid |-> m, name |-> nameOf[m]]
                     [] OTHER -> [lock EXCEPT !.name = IF @ = None THEN nameOf[m] ELSE @]
        /\ UNCHANGED <<status, listening>>
    BY <1>1, <1>2, <1>5 DEF LoggedIn
  <2>2. PICK now : now = rt'[runtime]
    OBVIOUS
  <2>3. now = [was EXCEPT !.client = a, !.failures = 0, !.excused = (o = "exempt")]
    BY <1>1, <1>3, <2>1, <2>2 DEF TypeOK
  <2>4. /\ now.client = a /\ now.listenAbort = None /\ now.loginRun = a /\ ~ now.watchdog
        /\ now.active /\ ~ now.stopRequested /\ now.gen = attempt[a].gen
        /\ now.excused = (o = "exempt")
    BY <1>1, <1>3, <2>3 DEF RuntimeType, OpenLogin
  <2>5. PICK at \in AttemptType : at = attempt[a]
    BY DEF TypeOK
  <2>6. attempt'[a] = [at EXCEPT !.pc = "preparing", !.mid = m, !.name = nameOf[m]]
    BY <2>1, <2>5 DEF TypeOK
  <2>7. /\ attempt'[a].pc = "preparing" /\ attempt'[a].mid = m /\ attempt'[a].name = nameOf[m]
        /\ attempt'[a].rt = runtime /\ attempt'[a].gen = attempt[a].gen
    BY <1>1, <2>5, <2>6 DEF AttemptType
  <2>8. \A b \in Attempts \ {a} : attempt'[b] = attempt[b]
    BY <2>1 DEF TypeOK
  <2>9. \A q \in Runtimes \ {runtime} : rt'[q] = rt[q]
    BY <2>1 DEF TypeOK
  <2>10. OutsideMapIsIdle'
    BY <2>9 DEF OutsideMapIsIdle, Core
  <2>11. RuntimeIsSound'
    BY <1>1, <2>1, <2>2, <2>4, <2>7 DEF RuntimeIsSound, Preparing, OpenLogin
  <2>12. ListeningIsRegistered'
    BY <1>1, <2>1, <2>2, <2>4 DEF ListeningIsRegistered
  <2>13. OpenAttempts'
    <3>1. \A b \in Attempts \ {a} : ~ (attempt[b].pc # "done" /\ attempt[b].rt = runtime)
      BY <1>1 DEF Core, OpenAttempts, OpenLogin
    <3>2. QED
      BY <2>2, <2>4, <2>8, <3>1 DEF OpenAttempts
  <2>14. ProbesAreSettled'
    <3>1. a \notin probes
      BY DEF ProbesAreSettled
    <3>2. QED
      BY <2>8, <3>1 DEF ProbesAreSettled, TypeOK
  <2>15. Live' = a
    BY <1>1, <2>2, <2>4 DEF Live
  <2>16. LiveSessionMatchesLock'
    <3>1. SUFFICES ASSUME o # "exempt" PROVE lock' = [mid |-> m, name |-> nameOf[m]]
      BY <1>1, <2>2, <2>4, <2>7, <2>15 DEF LiveSessionMatchesLock
    <3>2. bot.exists
      BY <1>1 DEF OverQuotaNeverRuns, OpenLogin
    <3>3. CASE lock.mid = None
      <4>1. o = "first_login"
        BY <1>2, <3>1, <3>2, <3>3 DEF IdLockOutcome
      <4>2. QED
        BY <2>1, <4>1
    <3>4. CASE lock.mid # None
      <4>1. o = "match" /\ lock.mid = m /\ lock.name \in {None, nameOf[m]}
        BY <1>2, <1>5, <3>1, <3>2, <3>4 DEF IdLockOutcome, Refused
      <4>2. lock' = [lock EXCEPT !.name = nameOf[m]]
        BY <2>1, <4>1 DEF TypeOK
      <4>3. PICK l \in [mid : Mids \cup {None}, name : Names \cup {None}], n \in Names :
               l = lock /\ n = nameOf[m]
        BY DEF TypeOK
      <4>4. [l EXCEPT !.name = n] = [mid |-> l.mid, name |-> n]
        OBVIOUS
      <4>5. QED
        BY <4>1, <4>2, <4>3, <4>4
    <3>5. QED
      BY <3>3, <3>4
  <2>17. OverQuotaNeverRuns'
    BY <2>1 DEF OverQuotaNeverRuns
  <2>18. QED
    BY <2>10, <2>11, <2>12, <2>13, <2>14, <2>16, <2>17 DEF Core
<1>6. QED
  BY <1>4, <1>5

-----------------------------------------------------------------------------
\* The steps, grouped as in Next.
LEMMA LoginStepInv ==
    ASSUME IInv, TypeOK', NEW a \in Attempts, LoginStep(a)
    PROVE  IInv'
<1> USE DEF IInv
<1>1. PICK r \in Runtimes : r = attempt[a].rt
  BY DEF TypeOK, AttemptType
<1>2. PICK was \in RuntimeType : was = rt[r]
  BY DEF TypeOK
<1>3. CASE ResumeAccepted(a)
  <2>1. PICK m \in Mids : LoggedIn(a, m)
    BY <1>3 DEF ResumeAccepted
  <2>2. QED
    BY <1>3, <2>1, LoggedInInv DEF ResumeAccepted
<1>4. CASE QrScanned(a)
  <2>1. PICK m \in Mids : LoggedIn(a, m)
    BY <1>4 DEF QrScanned
  <2>2. QED
    BY <1>4, <2>1, LoggedInInv DEF QrScanned
<1>5. ASSUME Current(a), attempt[a].pc # "done"
      PROVE  /\ runtime # None /\ r = runtime /\ ~ was.stopRequested /\ OpenLogin(was, a)
             /\ was.client = (IF attempt[a].pc = "preparing" THEN a ELSE None)
             /\ listening = {}
  BY <1>1, <1>2, <1>5, CurrentAttempt
<1>6. CASE ResumeRejected(a)
  <2>1. CASE Return(a, was) /\ status' = "offline"
    <3>1. /\ was.client = None /\ was.listenAbort = None /\ ~ was.watchdog
          /\ ~ was.stopRequested /\ was.gen = rt[runtime].gen /\ was.loginRun = a
      BY <1>2, <1>5, <1>6 DEF ResumeRejected, OpenLogin
    <3>2. Core' /\ ProbesAreSettled' /\ Live' = None
      BY <1>5, <1>6, <2>1, <3>1, ReturnIdle DEF ResumeRejected
    <3>3. QED
      BY <2>1, <3>2, NothingRuns
  <2>2. CASE attempt' = [attempt EXCEPT ![a].pc = "qr"] /\ UNCHANGED <<rt, status>>
    <3>1. /\ attempt'[a].pc = "qr" /\ attempt'[a].rt = attempt[a].rt /\ attempt'[a].gen = attempt[a].gen
          /\ \A b \in Attempts \ {a} : attempt'[b] = attempt[b]
      BY <2>2 DEF TypeOK, AttemptType
    <3>2. UNCHANGED <<runtime, rt, status, listening, probes, bot, lock>> /\ Live' = Live
      BY <1>6, <2>2 DEF ResumeRejected, Live
    <3>3. was.client = None /\ Live = None
      BY <1>2, <1>5, <1>6 DEF ResumeRejected, Live
    <3>4. OutsideMapIsIdle' /\ ListeningIsRegistered'
      BY <3>2 DEF Core, OutsideMapIsIdle, ListeningIsRegistered
    <3>5. LoggingIn(was)'
      BY <1>1, <1>5, <1>6, <3>1, <3>2, <3>3 DEF LoggingIn, OpenLogin, ResumeRejected
    <3>6. RuntimeIsSound'
      BY <1>2, <1>5, <1>6, <3>2, <3>5 DEF RuntimeIsSound, ResumeRejected
    <3>7. OpenAttempts'
      BY <1>6, <3>1, <3>2 DEF Core, OpenAttempts, ResumeRejected
    <3>8. ProbesAreSettled'
      BY <1>6, <3>1, <3>2 DEF ProbesAreSettled, ResumeRejected, TypeOK
    <3>9. QED
      BY <3>2, <3>3, <3>4, <3>6, <3>7, <3>8, NothingRuns DEF Core
  <2>3. QED
    BY <1>1, <1>2, <1>6, <2>1, <2>2 DEF ResumeRejected
<1>7. CASE Prepared(a)
  <2>1. /\ Return(a, [was EXCEPT !.listenAbort = a, !.watchdog = TRUE])
        /\ attempt[a].pc = "preparing" /\ listening' = {a} /\ status' = "online"
        /\ UNCHANGED <<runtime, probes, lock, bot>>
    BY <1>1, <1>2, <1>5, <1>7 DEF Prepared
  <2>2. PICK now : now = rt'[runtime]
    OBVIOUS
  <2>3. now = Settled([was EXCEPT !.listenAbort = a, !.watchdog = TRUE], a)
    BY <1>1, <1>2, <1>5, <1>7, <2>1, <2>2 DEF Return, TypeOK, Prepared
  <2>4. /\ now.client = a /\ now.listenAbort = a /\ now.loginRun = None /\ now.watchdog
        /\ now.active = FALSE /\ ~ now.stopRequested /\ now.excused = was.excused
    BY <1>5, <1>7, <2>3 DEF Settled, RuntimeType, OpenLogin, Prepared
  <2>5. /\ attempt'[a].pc = "done" /\ attempt'[a].rt = attempt[a].rt
        /\ attempt'[a].mid = attempt[a].mid /\ attempt'[a].name = attempt[a].name
        /\ \A b \in Attempts \ {a} : attempt'[b] = attempt[b]
    BY <2>1 DEF Return, TypeOK, AttemptType
  <2>6. \A q \in Runtimes \ {runtime} : rt'[q] = rt[q]
    BY <1>1, <1>5, <1>7, <2>1 DEF Return, TypeOK, Prepared
  <2>7. OutsideMapIsIdle'
    BY <2>1, <2>6 DEF OutsideMapIsIdle, Core
  <2>8. RuntimeIsSound'
    BY <1>1, <1>5, <1>7, <2>1, <2>2, <2>4, <2>5 DEF RuntimeIsSound, Online, Prepared
  <2>9. ListeningIsRegistered'
    BY <1>5, <1>7, <2>1, <2>2, <2>4, LifecycleAssumption DEF ListeningIsRegistered, Prepared
  <2>10. OpenAttempts'
    <3>1. \A b \in Attempts \ {a} : ~ (attempt[b].pc # "done" /\ attempt[b].rt = runtime)
      BY <1>1, <1>2, <1>5, <1>7 DEF Core, OpenAttempts, OpenLogin, Prepared
    <3>2. QED
      BY <2>1, <2>5, <3>1 DEF OpenAttempts
  <2>11. ProbesAreSettled'
    BY <2>1, <2>5 DEF ProbesAreSettled, TypeOK
  <2>12. LiveSessionMatchesLock'
    <3>1. Live = a /\ Live' = a
      BY <1>1, <1>2, <1>5, <1>7, <2>1, <2>2, <2>4 DEF Live, Prepared
    <3>2. a # None
      BY LifecycleAssumption
    <3>3. QED
      BY <1>1, <1>2, <1>5, <1>7, <2>1, <2>2, <2>4, <2>5, <3>1, <3>2
         DEF LiveSessionMatchesLock, Prepared
  <2>13. OverQuotaNeverRuns'
    BY <1>5, <1>7, <2>1 DEF OverQuotaNeverRuns, OpenLogin, Prepared
  <2>14. QED
    BY <2>7, <2>8, <2>9, <2>10, <2>11, <2>12, <2>13 DEF Core
<1>8. CASE LoginFails(a)
  <2>1. PICK down \in RuntimeType : down = TornDown(was)
    BY TornDownType
  <2>2. PICK kept \in RuntimeType :
           /\ kept = IF attempt[a].qrFallback THEN [down EXCEPT !.retry = attempt[a].gen] ELSE down
    <3>1. attempt[a].gen \in Nat
      BY DEF TypeOK, AttemptType
    <3>2. [down EXCEPT !.retry = attempt[a].gen] \in RuntimeType
      BY <3>1, None \in Attempts \cup {None}, RuntimeUpdates
    <3>3. QED
      BY <3>2
  <2>3. Return(a, kept) /\ status' = "offline" /\ listening' = {}
    BY <1>1, <1>2, <1>5, <1>8, <2>1, <2>2 DEF LoginFails, Caught
  <2>4. /\ down.client = None /\ down.listenAbort = None /\ ~ down.watchdog
        /\ ~ down.stopRequested /\ down.gen = rt[runtime].gen /\ down.loginRun = a
    BY <1>2, <1>5, <1>8, <2>1 DEF TornDown, RuntimeType, OpenLogin, LoginFails
  <2>5. /\ kept.client = None /\ kept.listenAbort = None /\ ~ kept.watchdog
        /\ ~ kept.stopRequested /\ kept.gen = rt[runtime].gen /\ kept.loginRun = a
    BY <2>2, <2>4 DEF RuntimeType
  <2>6. Core' /\ ProbesAreSettled' /\ Live' = None
    BY <1>8, <2>3, <2>5, ReturnIdle DEF LoginFails
  <2>7. QED
    BY <2>3, <2>6, NothingRuns
<1>9. CASE StaleReturns(a)
  <2>1. r # runtime
    BY <1>1, <1>9, StaleAttempt DEF StaleReturns
  <2>2. /\ Return(a, was) /\ UNCHANGED <<runtime, listening, probes, status, lock, bot>>
    BY <1>1, <1>2, <1>9 DEF StaleReturns
  <2>3. rt'[r] = Settled(was, a) /\ \A q \in Runtimes \ {r} : rt'[q] = rt[q]
    BY <1>1, <2>2 DEF Return, TypeOK
  <2>4. rt'[r].client = None /\ ~ rt'[r].watchdog /\ rt'[r].retry = 0 /\ ~ rt'[r].active
    <3>1. was.client = None /\ ~ was.watchdog /\ was.retry = 0 /\ ~ was.active
      BY <1>2, <2>1 DEF Core, OutsideMapIsIdle
    <3>2. QED
      BY <2>3, <3>1 DEF Settled, RuntimeType
  <2>5. /\ attempt'[a].pc = "done" /\ attempt'[a].rt = attempt[a].rt
        /\ \A b \in Attempts \ {a} : attempt'[b] = attempt[b]
    BY <2>2 DEF Return, TypeOK, AttemptType
  <2>6. OutsideMapIsIdle'
    BY <2>2, <2>3, <2>4 DEF Core, OutsideMapIsIdle
  <2>7. runtime \in Runtimes => rt'[runtime] = rt[runtime]
    BY <2>1, <2>3
  <2>8. /\ runtime # None => runtime \in Runtimes
    BY DEF TypeOK
  <2>9. ListeningIsRegistered'
    BY <2>2, <2>7, <2>8 DEF Core, ListeningIsRegistered
  <2>10. RuntimeIsSound'
    <3>1. CASE runtime = None
      BY <2>2, <3>1 DEF Core, RuntimeIsSound
    <3>2. CASE runtime # None
      <4>1. ~ rt[runtime].stopRequested
        BY <3>2 DEF Core, RuntimeIsSound
      <4>2. CASE Idle(rt[runtime])
        BY <2>2, <2>7, <2>8, <3>2, <4>1, <4>2 DEF RuntimeIsSound, Idle
      <4>3. CASE LoggingIn(rt[runtime]) \/ Preparing(rt[runtime])
        <5>1. PICK b \in Attempts :
                 /\ OpenLogin(rt[runtime], b)
                 /\ \/ rt[runtime].client = None /\ attempt[b].pc \in {"resuming", "qr"}
                    \/ rt[runtime].client = b /\ attempt[b].pc = "preparing"
          BY <4>3 DEF LoggingIn, Preparing
        <5>2. attempt'[b] = attempt[b]
          BY <1>1, <2>1, <2>5, <5>1 DEF OpenLogin
        <5>3. QED
          BY <2>2, <2>7, <2>8, <3>2, <4>1, <5>1, <5>2
             DEF RuntimeIsSound, LoggingIn, Preparing, OpenLogin
      <4>4. CASE Online(rt[runtime])
        <5>1. attempt'[rt[runtime].client] = attempt[rt[runtime].client]
          BY <1>1, <2>1, <2>5, <4>4 DEF Online
        <5>2. QED
          BY <2>2, <2>7, <2>8, <3>2, <4>1, <4>4, <5>1 DEF RuntimeIsSound, Online
      <4>5. QED
        BY <3>2, <4>2, <4>3, <4>4 DEF Core, RuntimeIsSound
    <3>3. QED
      BY <3>1, <3>2
  <2>11. OpenAttempts'
    BY <2>2, <2>5, <2>7, <2>8, LifecycleAssumption DEF Core, OpenAttempts, TypeOK, AttemptType
  <2>12. ProbesAreSettled'
    BY <2>2, <2>5 DEF ProbesAreSettled, TypeOK
  <2>13. Live' = Live
    BY <2>2, <2>7, <2>8 DEF Live
  <2>14. LiveSessionMatchesLock'
    <3>1. Live \in Attempts \cup {None}
      BY <2>8 DEF Live, TypeOK, RuntimeType
    <3>2. Live # None => Live # a
      <4>1. SUFFICES ASSUME Live = a, Live # None PROVE FALSE
        OBVIOUS
      <4>2. runtime # None /\ rt[runtime].client = a
        BY <4>1 DEF Live
      <4>3. attempt[a].rt = runtime
        BY <4>2, <4>1 DEF Core, RuntimeIsSound, Idle, LoggingIn, Preparing, Online, OpenLogin
      <4>4. QED
        BY <1>1, <2>1, <4>3
    <3>3. QED
      BY <2>2, <2>5, <2>7, <2>8, <2>13, <3>1, <3>2 DEF LiveSessionMatchesLock, Live
  <2>15. QED
    BY <2>2, <2>6, <2>9, <2>10, <2>11, <2>12, <2>14 DEF Core, OverQuotaNeverRuns
<1>10. QED
  BY <1>3, <1>4, <1>6, <1>7, <1>8, <1>9 DEF LoginStep

\* Every step that stops the bot.
LEMMA StoppingInv ==
    ASSUME IInv, TypeOK', StopBot, UNCHANGED attempt, probes' \subseteq probes
    PROVE  IInv'
<1>1. Core' /\ Live' = None /\ status' = "offline"
  BY StopBotCore DEF IInv
<1>2. ProbesAreSettled'
  BY DEF IInv, ProbesAreSettled, TypeOK
<1>3. QED
  BY <1>1, <1>2 DEF IInv, LiveSessionMatchesLock, OverQuotaNeverRuns

\* A step that leaves the runtimes, the attempts and the session alone.
LEMMA BystandingInv ==
    ASSUME IInv, TypeOK', UNCHANGED <<runtime, rt, attempt, listening, status>>,
           ProbesAreSettled',
           Live = None \/ UNCHANGED lock,
           status = "offline" \/ bot' = bot \/ (~ bot'.overQuota /\ bot'.exists)
    PROVE  IInv'
<1>1. Core' /\ Live' = Live
  BY DEF IInv, Core, OutsideMapIsIdle, RuntimeIsSound, ListeningIsRegistered, OpenAttempts, Live,
         Idle, LoggingIn, Preparing, Online, OpenLogin
<1>2. LiveSessionMatchesLock'
  BY <1>1 DEF IInv, LiveSessionMatchesLock
<1>3. OverQuotaNeverRuns'
  BY DEF IInv, OverQuotaNeverRuns
<1>4. QED
  BY <1>1, <1>2, <1>3 DEF IInv

\* An offline bot has no client.
LEMMA OfflineIsIdle ==
    ASSUME TypeOK, Core, status = "offline", runtime # None
    PROVE  Idle(rt[runtime]) /\ Live = None /\ ~ rt[runtime].stopRequested
BY DEF Core, RuntimeIsSound, LoggingIn, Preparing, Online, OpenLogin, Idle, Live

LEMMA LoggedOffInv ==
    ASSUME IInv, TypeOK', LogOff, UNCHANGED <<attempt, probes, bot>>
    PROVE  IInv'
<1>1. CASE StopBot
  BY <1>1, StoppingInv
<1>2. CASE status = "offline" /\ NoStop
  <2>1. Live = None
    BY <1>2, OfflineIsIdle DEF IInv, Live
  <2>2. ProbesAreSettled'
    BY DEF IInv, ProbesAreSettled
  <2>3. QED
    BY <1>2, <2>1, <2>2, BystandingInv DEF NoStop
<1>3. QED
  BY <1>1, <1>2 DEF LogOff

\* A runtime that startBot or the resume may use is quiet.
LEMMA RegisteredIsQuiet ==
    ASSUME IInv, NEW r \in Runtimes, NEW was, Registered(r, was), was.client = None,
           NEW ready \in RuntimeType, ready.active = was.active, ready.client = was.client,
           ready.listenAbort = was.listenAbort, ready.loginRun = was.loginRun,
           ready.watchdog = was.watchdog, ~ ready.stopRequested, ~ ready.active
    PROVE  /\ Quiet(ready) /\ Idle(ready) /\ listening = {}
           /\ \A q \in Runtimes \ {r} :
                rt[q].client = None /\ ~ rt[q].watchdog /\ rt[q].retry = 0 /\ ~ rt[q].active
           /\ \A a \in Attempts : attempt[a].pc # "done" => attempt[a].rt # r
<1> USE DEF IInv
<1>1. CASE runtime = None
  <2>1. was = FreshRuntime /\ FreeRuntime(r)
    BY <1>1 DEF Registered
  <2>2. was.client = None /\ was.listenAbort = None /\ was.loginRun = None /\ was.watchdog = FALSE
        /\ was.active = FALSE
    BY <2>1 DEF FreshRuntime
  <2>3. Quiet(ready) /\ Idle(ready) /\ listening = {}
    BY <1>1, <2>2 DEF Quiet, Idle, Core, RuntimeIsSound, ListeningIsRegistered
  <2>4. \A q \in Runtimes : rt[q].client = None /\ ~ rt[q].watchdog /\ rt[q].retry = 0 /\ ~ rt[q].active
    BY <1>1, LifecycleAssumption DEF Core, OutsideMapIsIdle
  <2>5. \A a \in Attempts : attempt[a].pc # "done" => attempt[a].rt # r
    BY <2>1 DEF FreeRuntime, Referenced
  <2>6. QED
    BY <2>3, <2>4, <2>5
<1>2. CASE runtime # None
  <2>1. r = runtime /\ was = rt[r]
    BY <1>2 DEF Registered
  <2>2. Idle(rt[runtime])
    BY <1>2, <2>1, LifecycleAssumption
       DEF Core, RuntimeIsSound, LoggingIn, Preparing, Online, OpenLogin
  <2>3. Quiet(ready) /\ Idle(ready) /\ listening = {}
    BY <1>2, <2>1, <2>2 DEF Quiet, Idle, Core, ListeningIsRegistered
  <2>4. \A a \in Attempts : attempt[a].pc # "done" => attempt[a].rt # r
    BY <2>1, <2>2, LifecycleAssumption DEF Core, OpenAttempts, Idle
  <2>5. QED
    BY <2>1, <2>3, <2>4 DEF Core, OutsideMapIsIdle
<1>3. QED
  BY <1>1, <1>2

\* startBot and the resume: a login is begun, or the runtime is registered idle.
LEMMA StartedInv ==
    ASSUME IInv, TypeOK', NEW r \in Runtimes, NEW was, NEW ready \in RuntimeType, NEW qr \in BOOLEAN,
           Registered(r, was), was.client = None, runtime' = r,
           ready.active = was.active, ready.client = was.client,
           ready.listenAbort = was.listenAbort, ready.loginRun = was.loginRun,
           ready.watchdog = was.watchdog, ~ ready.stopRequested, ~ ready.active,
           \/ CanBegin(ready) /\ BeginLogin(r, ready, qr)
           \/ rt' = [rt EXCEPT ![r] = ready] /\ UNCHANGED <<attempt, status>>,
           bot.exists, UNCHANGED <<listening, probes, lock, bot>>
    PROVE  IInv'
<1> USE DEF IInv
<1>1. /\ Quiet(ready) /\ Idle(ready) /\ listening' = {}
      /\ \A q \in Runtimes \ {r} :
           rt[q].client = None /\ ~ rt[q].watchdog /\ rt[q].retry = 0 /\ ~ rt[q].active
      /\ \A a \in Attempts : attempt[a].pc # "done" => attempt[a].rt # r
  BY RegisteredIsQuiet
<1>2. CASE CanBegin(ready) /\ BeginLogin(r, ready, qr)
  <2>1. Core' /\ ProbesAreSettled' /\ Live' = None
    BY <1>1, <1>2, BeginLoginCore
  <2>2. LiveSessionMatchesLock'
    BY <2>1 DEF LiveSessionMatchesLock
  <2>3. OverQuotaNeverRuns'
    BY <1>2 DEF CanBegin, OverQuotaNeverRuns
  <2>4. QED
    BY <2>1, <2>2, <2>3
<1>3. CASE rt' = [rt EXCEPT ![r] = ready] /\ UNCHANGED <<attempt, status>>
  <2>1. rt'[r] = ready /\ \A q \in Runtimes \ {r} : rt'[q] = rt[q]
    BY <1>3 DEF TypeOK
  <2>2. r # None
    BY LifecycleAssumption
  <2>3. OutsideMapIsIdle'
    BY <1>1, <2>1 DEF OutsideMapIsIdle
  <2>4. RuntimeIsSound'
    BY <1>1, <1>3, <2>1, <2>2 DEF RuntimeIsSound, Idle
  <2>5. ListeningIsRegistered'
    BY <1>1, <2>1, <2>2 DEF ListeningIsRegistered, Quiet
  <2>6. OpenAttempts'
    BY <1>1, <1>3 DEF OpenAttempts
  <2>7. ProbesAreSettled'
    BY <1>3 DEF ProbesAreSettled
  <2>8. LiveSessionMatchesLock'
    BY <1>1, <2>1, <2>2 DEF LiveSessionMatchesLock, Live, Quiet
  <2>9. OverQuotaNeverRuns'
    BY <1>3 DEF OverQuotaNeverRuns
  <2>10. QED
    BY <2>3, <2>4, <2>5, <2>6, <2>7, <2>8, <2>9 DEF Core
<1>4. QED
  BY <1>2, <1>3

\* The runtime of a client nobody dropped, its login long returned, is online.
LEMMA SettledIsOnline ==
    ASSUME IInv, NEW c \in Attempts, attempt[c].pc = "done", rt[attempt[c].rt].client = c
    PROVE  /\ runtime \in Runtimes /\ attempt[c].rt = runtime /\ Online(rt[runtime]) /\ Live = c
<1>1. attempt[c].rt \in Runtimes /\ c # None
  BY LifecycleAssumption DEF IInv, TypeOK, AttemptType
<1>2. attempt[c].rt = runtime /\ runtime # None
  BY <1>1, OnlyRegistered DEF IInv
<1>3. Online(rt[runtime])
  BY <1>1, <1>2 DEF IInv, Core, RuntimeIsSound, Idle, LoggingIn, Preparing
<1>4. QED
  BY <1>1, <1>2, <1>3 DEF Live

\* A dead session is dropped and the login begun again.
LEMMA RebuildInv ==
    ASSUME IInv, TypeOK', runtime \in Runtimes, Online(rt[runtime]), NEW s, Rebuild(runtime, s),
           UNCHANGED <<runtime, lock, bot>>, probes' \subseteq probes
    PROVE  IInv'
<1> USE DEF IInv
<1>1. PICK was \in RuntimeType : was = rt[runtime]
  BY DEF TypeOK
<1>2. PICK down \in RuntimeType : down = TornDown(was)
  BY TornDownType
<1>3. PICK clean \in RuntimeType : clean = [down EXCEPT !.watchdog = FALSE, !.failures = 0]
  BY None \in Attempts \cup {None}, RuntimeUpdates
<1>4. runtime # None /\ ~ was.stopRequested
  BY <1>1, LifecycleAssumption DEF Core, RuntimeIsSound
<1>5. Quiet(clean)
  <2>1. /\ down.client = None /\ down.listenAbort = None /\ down.loginRun = None
        /\ ~ down.active /\ ~ down.stopRequested
    BY <1>1, <1>2, <1>4 DEF TornDown, RuntimeType, Online
  <2>2. QED
    BY <1>3, <2>1 DEF Quiet, RuntimeType
<1>6. CanBegin(clean)
  BY <1>5 DEF Quiet, CanBegin, Online, OverQuotaNeverRuns
<1>7. BeginLogin(runtime, clean, TRUE) /\ listening' = listening \ {was.listenAbort}
  BY <1>1, <1>2, <1>3, <1>6 DEF Rebuild
<1>8. listening' = {}
  BY <1>1, <1>4, <1>7 DEF Core, ListeningIsRegistered
<1>9. \A a \in Attempts : attempt[a].pc # "done" => attempt[a].rt # runtime
  BY LifecycleAssumption DEF Core, OpenAttempts, Online
<1>10. Core' /\ ProbesAreSettled' /\ Live' = None
  <2>1. ProbesAreSettled /\ \A q \in Runtimes \ {runtime} :
            rt[q].client = None /\ ~ rt[q].watchdog /\ rt[q].retry = 0 /\ ~ rt[q].active
    BY DEF Core, OutsideMapIsIdle
  <2>2. runtime' = runtime
    OBVIOUS
  <2>3. QED
    BY <1>5, <1>7, <1>8, <1>9, <2>1, <2>2, BeginLoginCore
<1>11. QED
  BY <1>10 DEF LiveSessionMatchesLock, OverQuotaNeverRuns, Online

LEMMA InitIInv == Init => IInv
<1> SUFFICES ASSUME Init PROVE IInv
  OBVIOUS
<1>1. TypeOK
  BY InitType
<1>2. runtime = None /\ Live = None /\ listening = {} /\ probes = {} /\ status = "offline"
  BY DEF Init, Live
<1>3. \A r \in Runtimes : rt[r] = FreshRuntime
  BY DEF Init
<1>4. OutsideMapIsIdle
  <2>1. FreshRuntime.client = None /\ ~ FreshRuntime.watchdog /\ FreshRuntime.retry = 0
        /\ ~ FreshRuntime.active
    BY Zenon DEF FreshRuntime
  <2>2. QED
    BY <1>3, <2>1 DEF OutsideMapIsIdle
<1>5. OpenAttempts
  BY <1>2, LifecycleAssumption, <1>1 DEF OpenAttempts, TypeOK, AttemptType
<1>6. QED
  BY <1>1, <1>2, <1>4, <1>5
     DEF IInv, Core, RuntimeIsSound, ListeningIsRegistered, ProbesAreSettled,
         LiveSessionMatchesLock, OverQuotaNeverRuns

LEMMA OperatorInv ==
    ASSUME IInv, TypeOK', Operator \/ Rename
    PROVE  IInv'
<1>1. CASE Start
  <2>1. PICK r \in Runtimes, was \in {FreshRuntime} \cup {rt[q] : q \in Runtimes} :
          /\ Registered(r, was)
          /\ was.client = None /\ was.loginRun = None
          /\ runtime' = r
          /\ LET ready == [was EXCEPT !.stopRequested = FALSE, !.retry = 0] IN
                \/ CanBegin(ready) /\ BeginLogin(r, ready, TRUE)
                \/ /\ ~ CanBegin(ready)
                   /\ rt' = [rt EXCEPT ![r] = ready]
                   /\ UNCHANGED <<attempt, status>>
    BY <1>1 DEF Start
  <2>2. was \in RuntimeType
    BY <2>1, RegisteredType DEF IInv
  <2>3. PICK ready \in RuntimeType : ready = [was EXCEPT !.stopRequested = FALSE, !.retry = 0]
    BY <2>2, None \in Attempts \cup {None}, RuntimeUpdates
  <2>4. /\ ready.active = was.active /\ ready.client = was.client /\ ready.loginRun = was.loginRun
        /\ ready.listenAbort = was.listenAbort /\ ready.watchdog = was.watchdog
        /\ ~ ready.stopRequested
    BY <2>2, <2>3 DEF RuntimeType
  <2>5. ~ was.active
    BY <2>1, LifecycleAssumption
       DEF Registered, FreshRuntime, IInv, Core, RuntimeIsSound, Idle, LoggingIn, Preparing, Online,
           OpenLogin
  <2>6. \/ CanBegin(ready) /\ BeginLogin(r, ready, TRUE)
        \/ rt' = [rt EXCEPT ![r] = ready] /\ UNCHANGED <<attempt, status>>
    BY <2>1, <2>3
  <2>7. bot.exists /\ UNCHANGED <<listening, probes, lock, bot>>
    BY <1>1 DEF Start
  <2>8. QED
    BY <2>1, <2>4, <2>5, <2>6, <2>7, StartedInv
<1>2. CASE Stop
  BY <1>2, StoppingInv DEF Stop
<1>3. CASE LowerQuota
  BY <1>3, StoppingInv DEF LowerQuota
<1>4. CASE DeleteBotSession
  BY <1>4, StoppingInv DEF DeleteBotSession
<1>5. CASE ResetIdLock
  BY <1>5, LoggedOffInv DEF ResetIdLock
<1>6. CASE ForceRelogin
  BY <1>6, LoggedOffInv DEF ForceRelogin
<1>7. CASE RaiseQuota
  <2>1. UNCHANGED <<runtime, rt, attempt, listening, probes, status, lock>> /\ ProbesAreSettled'
    BY <1>7 DEF RaiseQuota, memory, IInv, ProbesAreSettled
  <2>2. status = "offline"
    BY <1>7 DEF RaiseQuota, IInv, OverQuotaNeverRuns
  <2>3. QED
    BY <2>1, <2>2, BystandingInv
<1>8. CASE Rename
  <2>1. UNCHANGED <<runtime, rt, attempt, listening, probes, status, lock, bot>> /\ ProbesAreSettled'
    BY <1>8 DEF Rename, memory, IInv, ProbesAreSettled
  <2>2. QED
    BY <2>1, BystandingInv
<1>9. CASE SetExemption
  <2>1. UNCHANGED <<runtime, rt, attempt, listening, probes, status, lock, bot>> /\ ProbesAreSettled'
    BY <1>9 DEF SetExemption, memory, IInv, ProbesAreSettled
  <2>2. QED
    BY <2>1, BystandingInv
<1>10. QED
  BY <1>1, <1>2, <1>3, <1>4, <1>5, <1>6, <1>7, <1>8, <1>9 DEF Operator

LEMMA TimerInv ==
    ASSUME IInv, TypeOK', NEW r \in Runtimes, RetryFires(r) \/ WatchdogFires(r)
    PROVE  IInv'
<1>1. CASE RetryFires(r)
  <2>1. rt[r] \in RuntimeType /\ rt[r].retry # 0
    BY <1>1 DEF RetryFires, IInv, TypeOK
  <2>2. PICK was \in RuntimeType : was = [rt[r] EXCEPT !.retry = 0]
    BY <2>1, None \in Attempts \cup {None}, RuntimeUpdates
  <2>3. /\ was.active = rt[r].active /\ was.client = rt[r].client /\ was.gen = rt[r].gen
        /\ was.loginRun = rt[r].loginRun /\ was.listenAbort = rt[r].listenAbort
        /\ was.watchdog = rt[r].watchdog /\ was.stopRequested = rt[r].stopRequested
        /\ was.excused = rt[r].excused
    BY <2>1, <2>2 DEF RuntimeType
  \* The timer asks for an active login gate and none that is: it never retries.
  <2>4. rt' = [rt EXCEPT ![r] = was] /\ UNCHANGED <<attempt, status>>
    BY <1>1, <2>2 DEF RetryFires, CanBegin
  <2>5. r = runtime /\ runtime # None
    BY <2>1, OnlyRegistered DEF IInv
  <2>6. rt'[r] = was /\ \A q \in Runtimes \ {r} : rt'[q] = rt[q]
    BY <2>4 DEF IInv, TypeOK
  <2>7. UNCHANGED <<runtime, listening, probes, lock, bot>>
    BY <1>1 DEF RetryFires
  <2>8. OutsideMapIsIdle' /\ ListeningIsRegistered' /\ OpenAttempts'
    BY <2>3, <2>4, <2>5, <2>6, <2>7
       DEF IInv, Core, OutsideMapIsIdle, ListeningIsRegistered, OpenAttempts
  <2>9. RuntimeIsSound'
    BY <2>3, <2>4, <2>5, <2>6, <2>7
       DEF IInv, Core, RuntimeIsSound, Idle, LoggingIn, Preparing, Online, OpenLogin
  <2>10. Live' = Live
    BY <2>3, <2>5, <2>6, <2>7 DEF Live
  <2>11. ProbesAreSettled' /\ LiveSessionMatchesLock' /\ OverQuotaNeverRuns'
    BY <2>3, <2>4, <2>5, <2>6, <2>7, <2>10 DEF IInv, ProbesAreSettled, LiveSessionMatchesLock, OverQuotaNeverRuns
  <2>12. QED
    BY <2>8, <2>9, <2>11 DEF IInv, Core
<1>2. CASE WatchdogFires(r)
  <2>1. rt[r].watchdog /\ rt[r].client # None /\ probes' = probes \cup {rt[r].client}
        /\ UNCHANGED <<runtime, rt, attempt, listening, lock, status, bot>>
    BY <1>2 DEF WatchdogFires
  <2>2. Online(rt[r])
    BY <2>1, OnlyRegistered
       DEF IInv, Core, RuntimeIsSound, Idle, LoggingIn, Preparing, OpenLogin
  <2>3. ProbesAreSettled'
    BY <2>1, <2>2 DEF Online, IInv, ProbesAreSettled
  <2>4. QED
    BY <2>1, <2>3, BystandingInv
<1>3. QED
  BY <1>1, <1>2

LEMMA SessionInv ==
    ASSUME IInv, TypeOK', NEW c \in Attempts,
           ProbeAnswered(c) \/ ListenerLost(c) \/ TokenRotates(c) \/ LastAnswer(c)
    PROVE  IInv'
<1>1. ASSUME NEW n \in {0, 1}, rt[attempt[c].rt].client = c, c \in probes,
             rt' = [rt EXCEPT ![attempt[c].rt].failures = n], probes' \subseteq probes,
             UNCHANGED <<runtime, attempt, listening, status, lock, bot>>
      PROVE  IInv'
  <2>1. runtime \in Runtimes /\ attempt[c].rt = runtime /\ Online(rt[runtime])
    BY <1>1, SettledIsOnline DEF IInv, ProbesAreSettled
  <2>2. PICK was \in RuntimeType : was = rt[runtime]
    BY <2>1 DEF IInv, TypeOK
  <2>3. PICK now : now = [was EXCEPT !.failures = n]
    OBVIOUS
  <2>4. /\ now.active = was.active /\ now.client = was.client /\ now.gen = was.gen
        /\ now.loginRun = was.loginRun /\ now.listenAbort = was.listenAbort
        /\ now.watchdog = was.watchdog /\ now.stopRequested = was.stopRequested
        /\ now.excused = was.excused
    BY <2>2, <2>3 DEF RuntimeType
  <2>5. rt'[runtime] = now /\ \A q \in Runtimes \ {runtime} : rt'[q] = rt[q]
    BY <1>1, <2>1, <2>2, <2>3 DEF IInv, TypeOK
  <2>6. OutsideMapIsIdle' /\ ListeningIsRegistered' /\ OpenAttempts'
    BY <1>1, <2>1, <2>2, <2>4, <2>5
       DEF IInv, Core, OutsideMapIsIdle, ListeningIsRegistered, OpenAttempts
  <2>7. RuntimeIsSound'
    BY <1>1, <2>1, <2>2, <2>4, <2>5 DEF IInv, Core, RuntimeIsSound, Online
  <2>8. Live' = Live
    BY <1>1, <2>1, <2>2, <2>4, <2>5 DEF Live
  <2>9. ProbesAreSettled' /\ LiveSessionMatchesLock' /\ OverQuotaNeverRuns'
    BY <1>1, <2>2, <2>4, <2>5, <2>8
       DEF IInv, ProbesAreSettled, LiveSessionMatchesLock, OverQuotaNeverRuns
  <2>10. QED
    BY <2>6, <2>7, <2>9 DEF IInv, Core
<1>2. ASSUME probes' \subseteq probes,
             UNCHANGED <<runtime, rt, attempt, listening, status, lock, bot>>
      PROVE  IInv'
  <2>1. ProbesAreSettled'
    BY <1>2 DEF IInv, ProbesAreSettled
  <2>2. QED
    BY <1>2, <2>1, BystandingInv
<1>3. CASE ProbeSucceeds(c)
  <2>1. CASE StopBot
    BY <1>3, <2>1, StoppingInv DEF ProbeSucceeds
  <2>2. CASE NoStop
    BY <1>2, <1>3, <2>2 DEF ProbeSucceeds, NoStop
  <2>3. CASE rt[attempt[c].rt].client = c /\ rt' = [rt EXCEPT ![attempt[c].rt].failures = 0]
             /\ UNCHANGED <<runtime, listening, status>>
    BY <1>1, <1>3, <2>3 DEF ProbeSucceeds
  <2>4. QED
    BY <1>3, <2>1, <2>2, <2>3 DEF ProbeSucceeds
<1>4. CASE ProbeFails(c)
  <2>1. CASE UNCHANGED <<rt, attempt, listening, status>>
    BY <1>2, <1>4, <2>1 DEF ProbeFails
  <2>2. CASE rt[attempt[c].rt].client = c /\ Rebuild(attempt[c].rt, "offline")
    <3>1. runtime \in Runtimes /\ attempt[c].rt = runtime /\ Online(rt[runtime])
      BY <1>4, <2>2, SettledIsOnline DEF ProbeFails, IInv, ProbesAreSettled
    <3>2. QED
      BY <1>4, <2>2, <3>1, RebuildInv DEF ProbeFails
  <2>3. CASE /\ rt[attempt[c].rt].client = c
             /\ ~ (rt[attempt[c].rt].failures + 1 >= WATCHDOG_FAILURES_BEFORE_RECOVERY)
             /\ rt' = [rt EXCEPT ![attempt[c].rt].failures = rt[attempt[c].rt].failures + 1]
             /\ UNCHANGED <<attempt, listening, status>>
    <3>1. rt[attempt[c].rt].failures \in {0, 1}
      BY DEF IInv, TypeOK, RuntimeType, AttemptType
    <3>2. rt[attempt[c].rt].failures + 1 \in {0, 1}
      BY <2>3, <3>1 DEF WATCHDOG_FAILURES_BEFORE_RECOVERY
    <3>3. PICK n \in {0, 1} : n = rt[attempt[c].rt].failures + 1
      BY <3>2, Zenon
    <3>4. QED
      BY <1>1, <1>4, <2>3, <3>3 DEF ProbeFails
  <2>4. QED
    BY <1>4, <2>1, <2>2, <2>3 DEF ProbeFails
<1>5. CASE ListenerLost(c)
  <2>1. c \in listening /\ rt[attempt[c].rt].client = c /\ rt[attempt[c].rt].loginRun = None
        /\ Rebuild(attempt[c].rt, status) /\ UNCHANGED <<runtime, probes, lock, bot>>
    BY <1>5 DEF ListenerLost
  <2>2. attempt[c].rt \in Runtimes /\ c # None
    BY LifecycleAssumption DEF IInv, TypeOK, AttemptType
  <2>3. attempt[c].rt = runtime /\ runtime # None
    BY <2>1, <2>2, OnlyRegistered DEF IInv
  <2>4. Online(rt[runtime])
    BY <2>1, <2>2, <2>3, LifecycleAssumption
       DEF IInv, Core, RuntimeIsSound, Idle, LoggingIn, Preparing, OpenLogin
  <2>5. QED
    BY <2>1, <2>2, <2>3, <2>4, RebuildInv
<1>6. CASE TokenRotates(c) \/ LastAnswer(c)
  BY <1>2, <1>6 DEF TokenRotates, LastAnswer, memory
<1>7. QED
  BY <1>3, <1>4, <1>5, <1>6 DEF ProbeAnswered

LEMMA BootInv ==
    ASSUME IInv, TypeOK', CrashAndBoot \/ SweepLegacyIdLockNames \/ ResumePreviouslyRunning
    PROVE  IInv'
<1>1. CASE CrashAndBoot
  <2>1. runtime' = None /\ listening' = {} /\ probes' = {} /\ status' = "offline"
        /\ rt' = [r \in Runtimes |-> FreshRuntime]
    BY <1>1 DEF CrashAndBoot
  <2>2. FreshRuntime.client = None /\ ~ FreshRuntime.watchdog /\ FreshRuntime.retry = 0
        /\ ~ FreshRuntime.active
    BY Zenon DEF FreshRuntime
  <2>3. OutsideMapIsIdle'
    BY <2>1, <2>2 DEF OutsideMapIsIdle
  <2>4. OpenAttempts'
    BY <2>1, LifecycleAssumption DEF OpenAttempts, TypeOK, AttemptType
  <2>5. QED
    BY <2>1, <2>3, <2>4
       DEF IInv, Core, RuntimeIsSound, ListeningIsRegistered, ProbesAreSettled,
           LiveSessionMatchesLock, OverQuotaNeverRuns, Live
<1>2. CASE SweepLegacyIdLockNames
  <2>1. UNCHANGED <<attempt, probes, lock, bot>> /\ (LogOff \/ NoStop)
    BY <1>2 DEF SweepLegacyIdLockNames
  <2>2. CASE LogOff
    BY <2>1, <2>2, LoggedOffInv
  <2>3. CASE NoStop
    <3>1. ProbesAreSettled'
      BY <2>1 DEF IInv, ProbesAreSettled
    <3>2. QED
      BY <2>1, <2>3, <3>1, BystandingInv DEF NoStop
  <2>4. QED
    BY <2>1, <2>2, <2>3
<1>3. CASE ResumePreviouslyRunning
  <2>1. UNCHANGED <<listening, probes, lock, bot>>
    BY <1>3 DEF ResumePreviouslyRunning
  <2>2. CASE UNCHANGED <<runtime, rt, attempt, status>>
    <3>1. ProbesAreSettled'
      BY <2>1, <2>2 DEF IInv, ProbesAreSettled
    <3>2. QED
      BY <2>1, <2>2, <3>1, BystandingInv
  <2>3. CASE ~ UNCHANGED <<runtime, rt, attempt, status>>
    <3>1. Resumable
      BY <1>3, <2>3 DEF ResumePreviouslyRunning
    <3>2. PICK r \in Runtimes, was \in {FreshRuntime} \cup {rt[q] : q \in Runtimes} :
            /\ Registered(r, was)
            /\ runtime' = r
            /\ LET ready == [was EXCEPT !.stopRequested = FALSE] IN
                  \/ CanBegin(ready) /\ BeginLogin(r, ready, FALSE)
                  \/ /\ ~ CanBegin(ready)
                     /\ rt' = [rt EXCEPT ![r] = ready]
                     /\ UNCHANGED <<attempt, status>>
      BY <1>3, <2>3 DEF ResumePreviouslyRunning
    <3>3. was \in RuntimeType
      BY <3>2, RegisteredType DEF IInv
    <3>4. PICK ready \in RuntimeType : ready = [was EXCEPT !.stopRequested = FALSE]
      BY <3>3, None \in Attempts \cup {None}, RuntimeUpdates
    <3>5. /\ ready.active = was.active /\ ready.client = was.client /\ ready.loginRun = was.loginRun
          /\ ready.listenAbort = was.listenAbort /\ ready.watchdog = was.watchdog
          /\ ~ ready.stopRequested
      BY <3>3, <3>4 DEF RuntimeType
    <3>6. \/ CanBegin(ready) /\ BeginLogin(r, ready, FALSE)
          \/ ~ CanBegin(ready) /\ rt' = [rt EXCEPT ![r] = ready] /\ UNCHANGED <<attempt, status>>
      BY <3>2, <3>4
    <3>7. was.client = None
      BY <3>1, <3>2 DEF Registered, Resumable, Live, FreshRuntime
    <3>8. CASE ~ was.active
      <4>1. bot.exists
        BY <3>1 DEF Resumable
      <4>2. QED
        BY <2>1, <3>2, <3>5, <3>6, <3>7, <3>8, <4>1, StartedInv
    \* A login is already under way: beginLogin refuses and nothing moved.
    <3>9. CASE was.active
      <4>1. rt' = [rt EXCEPT ![r] = ready] /\ UNCHANGED <<attempt, status>>
        BY <3>5, <3>6, <3>9 DEF CanBegin
      <4>2. r = runtime /\ was = rt[r] /\ runtime # None
        BY <3>2, <3>9 DEF Registered, FreshRuntime
      <4>3. was.stopRequested = FALSE
        BY <3>3, <4>2 DEF IInv, Core, RuntimeIsSound, RuntimeType
      <4>4. ready = was
        BY <3>3, <3>4, <4>3 DEF RuntimeType
      <4>5. UNCHANGED <<runtime, rt, attempt, status>>
        BY <3>2, <4>1, <4>2, <4>4 DEF IInv, TypeOK
      <4>6. QED
        BY <2>3, <4>5
    <3>10. QED
      BY <3>8, <3>9
  <2>4. QED
    BY <2>2, <2>3
<1>4. QED
  BY <1>1, <1>2, <1>3

LEMMA Invariance == Spec => []IInv
<1>1. IInv /\ TypeOK' /\ [Next]_vars => IInv'
  <2>1. IInv /\ TypeOK' /\ UNCHANGED vars => IInv'
    <3> SUFFICES ASSUME IInv, TypeOK', UNCHANGED vars PROVE IInv'
      OBVIOUS
    <3>1. UNCHANGED <<runtime, rt, attempt, listening, probes, status, lock, bot>>
          /\ ProbesAreSettled'
      BY DEF vars, memory, IInv, ProbesAreSettled
    <3>2. QED
      BY <3>1, BystandingInv
  <2>2. QED
    BY <2>1, OperatorInv, LoginStepInv, TimerInv, SessionInv, BootInv DEF Next
<1>2. QED
  BY <1>1, InitIInv, TypeCorrect, PTL DEF Spec

\* Only the registered runtime's session listens, and a runtime that left the
\* map holds no client, no timer and no open login.
THEOREM OneSession == Spec => []SingleSession
<1>1. IInv => SingleSession
  <2> SUFFICES ASSUME IInv PROVE SingleSession
    OBVIOUS
  <2>1. listening \subseteq {Live}
    BY DEF IInv, Core, ListeningIsRegistered, RuntimeIsSound, Live,
           Idle, LoggingIn, Preparing, Online, OpenLogin
  <2>2. QED
    BY <2>1 DEF IInv, Core, OutsideMapIsIdle, SingleSession
<1>2. QED
  BY <1>1, Invariance, PTL

\* The status the dashboard shows is what the runtime really does.
THEOREM StatusHonest == Spec => []StatusIsTrue
<1>1. IInv => StatusIsTrue
  <2> SUFFICES ASSUME IInv PROVE StatusIsTrue
    OBVIOUS
  <2>1. CASE runtime = None
    BY <2>1 DEF IInv, Core, RuntimeIsSound, ListeningIsRegistered, StatusIsTrue, Live
  <2>2. CASE runtime # None
    <3>1. status = "online" => Live # None /\ Live \in listening /\ rt[runtime].watchdog
      BY <2>2, LifecycleAssumption
         DEF IInv, Core, RuntimeIsSound, ListeningIsRegistered, Live,
             Idle, LoggingIn, Preparing, Online, OpenLogin
    <3>2. status = "connecting" =>
             \E a \in Attempts : attempt[a].pc # "done" /\ attempt[a].rt = runtime /\ Current(a)
      BY <2>2 DEF IInv, Core, RuntimeIsSound, Current, Idle, LoggingIn, Preparing, Online, OpenLogin
    <3>3. status = "offline" => Live = None /\ listening = {} /\ rt[runtime].loginRun = None
      BY <2>2 DEF IInv, Core, RuntimeIsSound, ListeningIsRegistered, Live,
                  Idle, LoggingIn, Preparing, Online, OpenLogin
    <3>4. QED
      BY <3>1, <3>2, <3>3 DEF StatusIsTrue
  <2>3. QED
    BY <2>1, <2>2
<1>2. QED
  BY <1>1, Invariance, PTL

\* The session a bot holds is of the account and the name it is locked to, whatever
\* becomes of its owner's exemption, unless the lock was passed over at its login.
THEOREM LockHolds == Spec => []LiveSessionMatchesLock
<1>1. IInv => LiveSessionMatchesLock
  BY DEF IInv
<1>2. QED
  BY <1>1, Invariance, PTL

\* A bot past its owner's quota, or deleted, is offline.
THEOREM QuotaHolds == Spec => []OverQuotaNeverRuns
<1>1. IInv => OverQuotaNeverRuns
  BY DEF IInv
<1>2. QED
  BY <1>1, Invariance, PTL

\* A login begun elsewhere takes none of the attempts still waiting.
LEMMA BeginLoginSpares ==
    ASSUME TypeOK, NEW r, NEW was, NEW qrFallback, BeginLogin(r, was, qrFallback),
           NEW a \in Attempts, attempt[a].pc # "done"
    PROVE  attempt'[a] = attempt[a]
<1>1. PICK b \in Attempts : ~ Referenced(b) /\ \E v : attempt' = [attempt EXCEPT ![b] = v]
  BY DEF BeginLogin
<1>2. b # a
  BY <1>1 DEF Referenced
<1>3. QED
  BY <1>1, <1>2 DEF TypeOK

\* A login whose runtime was dropped while it waited returns without touching
\* whatever was started after it.
THEOREM StaleInert == Spec => StaleAttemptsAreInert
<1> DEFINE Inert == \A a \in Attempts :
          attempt[a].pc # "done" /\ attempt'[a].pc # attempt[a].pc /\ attempt[a].rt # runtime
          /\ crashes' = crashes
              => UNCHANGED <<runtime, listening, status, lock, inflight>>
<1>1. IInv /\ [Next]_vars => [Inert]_vars
  <2> SUFFICES ASSUME IInv, Next, NEW a \in Attempts, attempt[a].pc # "done",
                      attempt'[a].pc # attempt[a].pc, attempt[a].rt # runtime, crashes' = crashes
               PROVE  UNCHANGED <<runtime, listening, status, lock, inflight>>
    OBVIOUS
  <2>1. ~ UNCHANGED attempt
    OBVIOUS
  <2>2. \A r, was, qr : ~ BeginLogin(r, was, qr)
    BY BeginLoginSpares DEF IInv
  <2>3. ~ Operator /\ ~ Rename
    BY <2>1, <2>2 DEF Operator, Start, Stop, ResetIdLock, ForceRelogin, LowerQuota, RaiseQuota,
                      SetExemption, DeleteBotSession, Rename, memory
  <2>4. ~ \E r \in Runtimes : RetryFires(r) \/ WatchdogFires(r)
    BY <2>1, <2>2 DEF RetryFires, WatchdogFires
  <2>5. ~ \E c \in Attempts : ProbeAnswered(c) \/ ListenerLost(c) \/ TokenRotates(c) \/ LastAnswer(c)
    BY <2>1, <2>2 DEF ProbeAnswered, ProbeSucceeds, ProbeFails, ListenerLost, Rebuild, TokenRotates,
                      LastAnswer, memory
  <2>6. ~ CrashAndBoot
    <3>1. \A n \in Nat : n + 1 # n
      OBVIOUS
    <3>2. QED
      BY <3>1 DEF CrashAndBoot, IInv, TypeOK
  <2>7. ~ SweepLegacyIdLockNames /\ ~ ResumePreviouslyRunning
    BY <2>1, <2>2 DEF SweepLegacyIdLockNames, ResumePreviouslyRunning
  <2>8. PICK b \in Attempts : LoginStep(b)
    BY <2>3, <2>4, <2>5, <2>6, <2>7 DEF Next
  <2>9. b = a
    <3>1. SUFFICES ASSUME b # a PROVE attempt'[a] = attempt[a]
      OBVIOUS
    <3>2. QED
      BY <2>8, <3>1 DEF LoginStep, ResumeAccepted, ResumeRejected, QrScanned, Prepared, LoginFails,
                        StaleReturns, LoggedIn, Caught, Return, IInv, TypeOK
  <2>10. ~ Current(a)
    BY CurrentAttempt DEF IInv
  <2>11. StaleReturns(a)
    BY <2>8, <2>9, <2>10
       DEF LoginStep, ResumeAccepted, ResumeRejected, QrScanned, Prepared, LoginFails
  <2>12. QED
    BY <2>11 DEF StaleReturns
<1>2. QED
  BY <1>1, Invariance, PTL DEF Spec, StaleAttemptsAreInert

-----------------------------------------------------------------------------
\* What the session service sees of a bot with no client, and of an offline one.
LEMMA NothingServes ==
    ASSUME IInv', Live' = None
    PROVE  Serving' = {} /\ Heard' = {}
<1>1. listening' = {}
  BY DEF IInv, Core, ListeningIsRegistered, RuntimeIsSound, Live, Idle, LoggingIn, Preparing,
         Online, OpenLogin
<1>2. QED
  BY <1>1 DEF Serving, Heard

LEMMA OfflineServesNobody ==
    ASSUME IInv', status' = "offline"
    PROVE  Service!GoesOffline
<1>1. Live' = None
  BY DEF IInv, Core, RuntimeIsSound, Live, Idle, LoggingIn, Preparing, Online, OpenLogin
<1>2. QED
  BY <1>1, NothingServes DEF Service!GoesOffline

\* A step that ends with the bot offline ends the service, one that leaves its
\* client alone is none of its business.
LEMMA Ends ==
    ASSUME IInv', status' = "offline", UNCHANGED <<lock, exempt, bot>>
    PROVE  Service!Next
<1>1. UNCHANGED Allowed
  BY DEF Allowed
<1>2. QED
  BY <1>1, OfflineServesNobody DEF Service!Next, Service!End

ServiceVars == <<status, Serving, Heard, lock, exempt, Allowed>>

LEMMA Unnoticed ==
    ASSUME IInv, IInv', Live' = Live, UNCHANGED <<listening, status, lock, exempt, bot>>,
           Live # None => /\ attempt'[Live].mid = attempt[Live].mid
                          /\ attempt'[Live].name = attempt[Live].name
    PROVE  UNCHANGED ServiceVars
<1>1. listening \subseteq {Live}
  BY DEF IInv, Core, ListeningIsRegistered, RuntimeIsSound, Live,
         Idle, LoggingIn, Preparing, Online, OpenLogin
<1>2. Live # None => AccountOf(Live)' = AccountOf(Live)
  BY DEF AccountOf
<1>3. None \notin listening
  BY LifecycleAssumption DEF IInv, TypeOK, Core, ListeningIsRegistered
<1>4. Serving' = Serving /\ Heard' = Heard
  BY <1>1, <1>2, <1>3 DEF Serving, Heard, AccountOf
<1>5. QED
  BY <1>4 DEF ServiceVars, Allowed

\* A login begun on a bot that has none is a connection.
LEMMA Connects ==
    ASSUME IInv, IInv', status # "connecting", status' = "connecting", Live' = None, Allowed,
           UNCHANGED <<lock, exempt, bot>>
    PROVE  Service!Next
<1>1. UNCHANGED Allowed
  BY DEF Allowed
<1>2. QED
  BY <1>1, NothingServes DEF Service!Next, Service!Connect

\* LINE accepted a login: the account is admitted, or turned away.
LEMMA AdmitsOrEnds ==
    ASSUME IInv, IInv', NEW a \in Attempts, NEW m \in Mids,
           attempt[a].pc \in {"resuming", "qr"}, Current(a), LoggedIn(a, m),
           UNCHANGED <<runtime, exempt, bot>>
    PROVE  Service!Next
<1>1. /\ runtime \in Runtimes /\ runtime # None /\ attempt[a].rt = runtime
      /\ OpenLogin(rt[runtime], a) /\ rt[runtime].client = None /\ listening = {}
  BY CurrentAttempt DEF IInv
<1>2. PICK o : o = IdLockOutcome(m, nameOf[m])
  OBVIOUS
<1>3. PICK was \in RuntimeType : was = rt[runtime]
  BY <1>1 DEF IInv, TypeOK
<1>4. CASE Refused(o)
  <2>1. status' = "offline" /\ lock' = lock
    BY <1>2, <1>4 DEF LoggedIn
  <2>2. QED
    BY <2>1, Ends
<1>5. CASE ~ Refused(o)
  <2>1. /\ rt' = [rt EXCEPT ![runtime].client = a, ![runtime].failures = 0,
                             ![runtime].excused = (o = "exempt")]
        /\ attempt' = [attempt EXCEPT ![a].pc = "preparing", ![a].mid = m, ![a].name = nameOf[m]]
        /\ o = "exempt" => lock' = lock
        /\ UNCHANGED <<status, listening>>
    BY <1>1, <1>2, <1>5 DEF LoggedIn
  <2>2. PICK n \in Names : n = nameOf[m]
    BY DEF IInv, TypeOK
  <2>3. PICK at \in AttemptType : at = attempt[a]
    BY DEF IInv, TypeOK
  <2>4. attempt'[a] = [at EXCEPT !.pc = "preparing", !.mid = m, !.name = n]
    BY <2>1, <2>2, <2>3 DEF IInv, TypeOK
  <2>5. attempt'[a].mid = m /\ attempt'[a].name = n
    BY <2>3, <2>4 DEF AttemptType
  <2>6. rt'[runtime] = [was EXCEPT !.client = a, !.failures = 0, !.excused = (o = "exempt")]
    BY <1>1, <1>3, <2>1 DEF IInv, TypeOK
  <2>7. Live = None /\ Live' = a /\ a # None
    BY <1>1, <1>3, <2>6, LifecycleAssumption DEF Live, RuntimeType
  <2>8. PICK account \in Service!Accounts : account = [mid |-> m, name |-> n]
    BY DEF Service!Accounts
  <2>9. Serving = {} /\ Serving' = {account}
    BY <2>5, <2>7, <2>8 DEF Serving, AccountOf
  <2>10. UNCHANGED Heard /\ UNCHANGED Allowed
    BY <1>1, <2>1 DEF Heard, Allowed
  <2>11. bot.exists
    BY <1>1 DEF IInv, OverQuotaNeverRuns, OpenLogin
  <2>12. Service!Fits(account)
    BY <1>2, <1>5, <2>2, <2>8, <2>11 DEF Service!Fits, IdLockOutcome, Refused
  <2>13. lock' = IF exempt THEN lock ELSE account
    <3>1. CASE exempt
      BY <1>2, <2>1, <3>1 DEF IdLockOutcome
    <3>2. CASE ~ exempt
      BY <1>1, <1>2, <1>3, <2>2, <2>5, <2>6, <2>7, <2>8, <2>11, <3>2
         DEF IInv, LiveSessionMatchesLock, IdLockOutcome, RuntimeType
    <3>3. QED
      BY <3>1, <3>2
  <2>14. status = "connecting"
    BY <1>1 DEF OpenLogin
  <2>15. Service!Admit
    BY <2>1, <2>9, <2>10, <2>12, <2>13, <2>14 DEF Service!Admit
  <2>16. QED
    BY <2>15 DEF Service!Next
<1>6. QED
  BY <1>4, <1>5

\* A login's steps.
LEMMA LoginStepMaps ==
    ASSUME IInv, IInv', NEW a \in Attempts, LoginStep(a)
    PROVE  Service!Next \/ UNCHANGED ServiceVars
<1>1. PICK r \in Runtimes : r = attempt[a].rt
  BY DEF IInv, TypeOK, AttemptType
<1>2. PICK was \in RuntimeType : was = rt[r]
  BY DEF IInv, TypeOK
<1>3. PICK at \in AttemptType : at = attempt[a]
  BY DEF IInv, TypeOK
<1>4. CASE ResumeAccepted(a) \/ QrScanned(a)
  <2>1. PICK m \in Mids : LoggedIn(a, m)
    BY <1>4 DEF ResumeAccepted, QrScanned
  <2>2. QED
    BY <1>4, <2>1, AdmitsOrEnds DEF ResumeAccepted, QrScanned
<1>5. CASE ResumeRejected(a)
  <2>1. CASE status' = "offline"
    BY <1>5, <2>1, Ends DEF ResumeRejected
  <2>2. CASE UNCHANGED <<rt, status>>
    <3>1. Live = None /\ Live' = None
      BY <1>5, <2>2, CurrentAttempt DEF IInv, ResumeRejected, Live
    <3>2. UNCHANGED <<listening, status, lock, exempt, bot>>
      BY <1>5, <2>2 DEF ResumeRejected
    <3>3. QED
      BY <3>1, <3>2, Unnoticed
  <2>3. QED
    BY <1>5, <2>1, <2>2 DEF ResumeRejected
<1>6. CASE Prepared(a)
  <2>1. /\ runtime = r /\ runtime # None /\ OpenLogin(rt[runtime], a) /\ rt[runtime].client = a
        /\ listening = {}
    BY <1>1, <1>6, CurrentAttempt DEF IInv, Prepared
  <2>2. PICK now \in RuntimeType : now = [was EXCEPT !.listenAbort = a, !.watchdog = TRUE]
    BY RuntimeUpdates
  <2>3. /\ attempt' = [attempt EXCEPT ![a].pc = "done", ![a].gen = 0, ![a].qrFallback = FALSE]
        /\ rt' = [rt EXCEPT ![r] = Settled(now, a)]
        /\ listening' = {a} /\ status' = "online" /\ UNCHANGED <<runtime, lock, exempt, bot>>
    BY <1>1, <1>2, <1>6, <2>1, <2>2 DEF Prepared, Return
  <2>4. now.client = a
    BY <1>2, <2>1, <2>2 DEF RuntimeType
  <2>5. Settled(now, a).client = a
    BY <2>2, <2>4 DEF Settled, RuntimeType
  <2>6. Live = a /\ Live' = a /\ a # None
    BY <2>1, <2>3, <2>5, LifecycleAssumption DEF Live, IInv, TypeOK
  <2>7. attempt'[a] = [at EXCEPT !.pc = "done", !.gen = 0, !.qrFallback = FALSE]
    BY <1>3, <2>3 DEF IInv, TypeOK
  <2>8. attempt'[a].mid = attempt[a].mid /\ attempt'[a].name = attempt[a].name
    BY <1>3, <2>7 DEF AttemptType
  <2>9. Serving' = Serving /\ Heard' = Serving /\ Serving # {}
    BY <2>3, <2>6, <2>8 DEF Serving, Heard, AccountOf
  <2>10. UNCHANGED Allowed
    BY <2>3 DEF Allowed
  <2>11. Service!Listen
    BY <2>1, <2>3, <2>9, <2>10 DEF Service!Listen, OpenLogin
  <2>12. QED
    BY <2>11 DEF Service!Next
<1>7. CASE LoginFails(a)
  BY <1>7, Ends DEF LoginFails
<1>8. CASE StaleReturns(a)
  <2>1. attempt[a].rt # runtime
    BY <1>8, StaleAttempt DEF IInv, StaleReturns
  <2>2. /\ attempt' = [attempt EXCEPT ![a].pc = "done", ![a].gen = 0, ![a].qrFallback = FALSE]
        /\ rt' = [rt EXCEPT ![r] = Settled(was, a)]
        /\ UNCHANGED <<runtime, listening, status, lock, exempt, bot>>
    BY <1>1, <1>2, <1>8 DEF StaleReturns, Return
  <2>3. Live' = Live
    BY <1>1, <2>1, <2>2 DEF Live, IInv, TypeOK
  <2>4. \A c \in Attempts : attempt'[c].mid = attempt[c].mid /\ attempt'[c].name = attempt[c].name
    <3>1. attempt'[a] = [at EXCEPT !.pc = "done", !.gen = 0, !.qrFallback = FALSE]
      BY <1>3, <2>2 DEF IInv, TypeOK
    <3>2. \A c \in Attempts \ {a} : attempt'[c] = attempt[c]
      BY <2>2 DEF IInv, TypeOK
    <3>3. QED
      BY <1>3, <3>1, <3>2 DEF AttemptType
  <2>5. Live # None => Live \in Attempts
    BY DEF Live, IInv, TypeOK, RuntimeType
  <2>6. QED
    BY <2>2, <2>3, <2>4, <2>5, Unnoticed
<1>9. QED
  BY <1>4, <1>5, <1>6, <1>7, <1>8 DEF LoginStep

\* startBot and the resume: a login is begun, or nothing is seen of it.
LEMMA StartedMaps ==
    ASSUME IInv, IInv', NEW r \in Runtimes, NEW was, NEW ready \in RuntimeType, NEW qr \in BOOLEAN,
           Registered(r, was), was.client = None, runtime' = r, ready.active = was.active,
           ready.client = was.client,
           \/ CanBegin(ready) /\ BeginLogin(r, ready, qr)
           \/ rt' = [rt EXCEPT ![r] = ready] /\ UNCHANGED <<attempt, status>>,
           bot.exists, UNCHANGED <<listening, lock, exempt, bot>>
    PROVE  Service!Next \/ UNCHANGED ServiceVars
<1>1. Live = None /\ r # None
  BY LifecycleAssumption DEF Live, Registered
<1>2. CASE CanBegin(ready) /\ BeginLogin(r, ready, qr)
  <2>1. status # "connecting"
    BY <1>2 DEF CanBegin, Registered, IInv, Core, RuntimeIsSound, LoggingIn, Preparing, OpenLogin,
                Idle, Online
  <2>2. status' = "connecting" /\ Allowed
    BY <1>2 DEF CanBegin, BeginLogin, Allowed
  <2>3. rt'[r].client = None
    <3>1. PICK n \in Nat : n = ready.gen + 1
      BY NextGen
    <3>2. PICK a \in Attempts :
             rt' = [rt EXCEPT ![r] = [ready EXCEPT !.gen = n, !.active = TRUE, !.loginRun = a]]
      BY <1>2, <3>1 DEF BeginLogin
    <3>3. rt'[r] = [ready EXCEPT !.gen = n, !.active = TRUE, !.loginRun = a]
      BY <3>2 DEF IInv, TypeOK
    <3>4. QED
      BY <3>3 DEF RuntimeType
  <2>4. Live' = None
    BY <2>3, <1>1 DEF Live
  <2>5. QED
    BY <2>1, <2>2, <2>4, Connects
<1>3. CASE rt' = [rt EXCEPT ![r] = ready] /\ UNCHANGED <<attempt, status>>
  <2>1. Live' = None
    BY <1>1, <1>3 DEF Live, IInv, TypeOK
  <2>2. QED
    BY <1>1, <1>3, <2>1, Unnoticed
<1>4. QED
  BY <1>2, <1>3

\* A session dropped by the watchdog or the listeners is begun again or ended.
LEMMA RebuildMaps ==
    ASSUME IInv, IInv', runtime \in Runtimes, Online(rt[runtime]), NEW s, Rebuild(runtime, s),
           UNCHANGED <<runtime, lock, exempt, bot>>
    PROVE  Service!Next
<1>1. PICK was \in RuntimeType : was = rt[runtime]
  BY DEF IInv, TypeOK
<1>2. PICK down \in RuntimeType : down = TornDown(was)
  BY TornDownType
<1>3. PICK clean \in RuntimeType : clean = [down EXCEPT !.watchdog = FALSE, !.failures = 0]
  BY None \in Attempts \cup {None}, RuntimeUpdates
<1>4. clean.client = None /\ ~ clean.active
  BY <1>1, <1>2, <1>3 DEF TornDown, RuntimeType, Online
<1>5. status = "online" /\ Allowed
  BY DEF Online, IInv, OverQuotaNeverRuns, Allowed
<1>6. BeginLogin(runtime, clean, TRUE)
  BY <1>1, <1>2, <1>3, <1>4, <1>5 DEF Rebuild, CanBegin, Allowed
<1>7. status' = "connecting"
  BY <1>6 DEF BeginLogin
<1>8. rt'[runtime].client = None
  <2>1. PICK n \in Nat : n = clean.gen + 1
    BY NextGen
  <2>2. PICK a \in Attempts :
           rt' = [rt EXCEPT ![runtime] = [clean EXCEPT !.gen = n, !.active = TRUE, !.loginRun = a]]
    BY <1>6, <2>1 DEF BeginLogin
  <2>3. rt'[runtime] = [clean EXCEPT !.gen = n, !.active = TRUE, !.loginRun = a]
    BY <2>2 DEF IInv, TypeOK
  <2>4. QED
    BY <1>4, <2>3 DEF RuntimeType
<1>9. Live' = None
  BY <1>8 DEF Live
<1>10. QED
  BY <1>5, <1>7, <1>9, Connects

\* Operators, admins and quotas.
LEMMA OperatorMaps ==
    ASSUME IInv, IInv', Operator \/ Rename
    PROVE  Service!Next \/ UNCHANGED ServiceVars
<1>1. CASE Start
  <2>1. PICK r \in Runtimes, was \in {FreshRuntime} \cup {rt[q] : q \in Runtimes} :
          /\ Registered(r, was)
          /\ was.client = None /\ was.loginRun = None
          /\ runtime' = r
          /\ LET ready == [was EXCEPT !.stopRequested = FALSE, !.retry = 0] IN
                \/ CanBegin(ready) /\ BeginLogin(r, ready, TRUE)
                \/ /\ ~ CanBegin(ready)
                   /\ rt' = [rt EXCEPT ![r] = ready]
                   /\ UNCHANGED <<attempt, status>>
    BY <1>1 DEF Start
  <2>2. was \in RuntimeType
    BY <2>1, RegisteredType DEF IInv
  <2>3. PICK ready \in RuntimeType : ready = [was EXCEPT !.stopRequested = FALSE, !.retry = 0]
    BY <2>2, None \in Attempts \cup {None}, RuntimeUpdates
  <2>4. ready.active = was.active /\ ready.client = was.client
    BY <2>2, <2>3 DEF RuntimeType
  <2>5. \/ CanBegin(ready) /\ BeginLogin(r, ready, TRUE)
        \/ rt' = [rt EXCEPT ![r] = ready] /\ UNCHANGED <<attempt, status>>
    BY <2>1, <2>3
  <2>6. bot.exists /\ UNCHANGED <<listening, lock, exempt, bot>>
    BY <1>1 DEF Start
  <2>7. QED
    BY <2>1, <2>3, <2>4, <2>5, <2>6, StartedMaps
<1>2. LogOff => status' = "offline"
  BY DEF LogOff, StopBot, NoStop
<1>3. CASE Stop
  BY <1>3, Ends DEF Stop, StopBot
<1>4. CASE ForceRelogin
  BY <1>2, <1>4, Ends DEF ForceRelogin
<1>5. CASE ResetIdLock
  <2>1. status' = "offline" /\ lock' = NoLock /\ UNCHANGED <<exempt, Allowed>>
    BY <1>2, <1>5 DEF ResetIdLock, Allowed
  <2>2. Service!Unlock
    BY <2>1, OfflineServesNobody DEF Service!Unlock, Service!NoLock, NoLock
  <2>3. QED
    BY <2>2 DEF Service!Next
<1>6. CASE LowerQuota \/ DeleteBotSession
  <2>1. status' = "offline" /\ UNCHANGED <<lock, exempt>>
    BY <1>6 DEF LowerQuota, DeleteBotSession, StopBot
  <2>2. Allowed' = FALSE
    <3>1. CASE LowerQuota
      BY <3>1 DEF LowerQuota, Allowed, IInv, TypeOK
    <3>2. CASE DeleteBotSession
      BY <3>2 DEF DeleteBotSession, Allowed
    <3>3. QED
      BY <1>6, <3>1, <3>2
  <2>3. Service!Forbid
    BY <2>1, <2>2, OfflineServesNobody DEF Service!Forbid
  <2>4. QED
    BY <2>3 DEF Service!Next
<1>7. CASE RaiseQuota
  <2>1. status = "offline" /\ UNCHANGED <<runtime, rt, attempt, listening, lock, exempt, status>>
    BY <1>7 DEF RaiseQuota, memory, IInv, OverQuotaNeverRuns
  <2>2. UNCHANGED <<Serving, Heard>>
    BY <2>1 DEF Serving, Heard, AccountOf, Live
  <2>3. CASE bot.exists
    <3>1. Allowed' = TRUE
      BY <1>7, <2>3 DEF RaiseQuota, Allowed, IInv, TypeOK
    <3>2. QED
      BY <2>1, <2>2, <3>1 DEF Service!Next, Service!Allow
  <2>4. CASE ~ bot.exists
    <3>1. UNCHANGED Allowed
      BY <1>7, <2>4 DEF RaiseQuota, Allowed, IInv, TypeOK
    <3>2. QED
      BY <2>1, <2>2, <3>1 DEF ServiceVars
  <2>5. QED
    BY <2>3, <2>4
<1>8. CASE Rename
  <2>1. UNCHANGED <<runtime, rt, attempt, listening, lock, exempt, status, bot>>
    BY <1>8 DEF Rename, memory
  <2>2. QED
    BY <2>1, Unnoticed DEF Live
<1>9. CASE SetExemption
  <2>1. UNCHANGED <<runtime, rt, attempt, listening, lock, status, bot>> /\ exempt' = ~ exempt
    BY <1>9 DEF SetExemption, memory
  <2>2. UNCHANGED <<Serving, Heard, Allowed>>
    BY <2>1 DEF Serving, Heard, AccountOf, Live, Allowed
  <2>3. QED
    BY <2>1, <2>2 DEF Service!Next, Service!Excuse
<1>10. QED
  BY <1>1, <1>3, <1>4, <1>5, <1>6, <1>7, <1>8, <1>9 DEF Operator

\* Timers and answers.
LEMMA SessionMaps ==
    ASSUME IInv, IInv', NEW c \in Attempts,
           ProbeAnswered(c) \/ ListenerLost(c) \/ TokenRotates(c) \/ LastAnswer(c)
    PROVE  Service!Next \/ UNCHANGED ServiceVars
<1>1. ASSUME UNCHANGED <<runtime, attempt, listening, status, lock, exempt, bot>>,
             \/ UNCHANGED rt
             \/ \E n : rt' = [rt EXCEPT ![attempt[c].rt].failures = n]
      PROVE  UNCHANGED ServiceVars
  <2>1. ASSUME NEW r \in Runtimes PROVE rt'[r].client = rt[r].client
    <3>1. PICK was \in RuntimeType : was = rt[r]
      BY DEF IInv, TypeOK
    <3>2. CASE rt'[r] = was
      BY <3>1, <3>2
    <3>3. CASE \E n : rt'[r] = [was EXCEPT !.failures = n]
      BY <3>1, <3>3 DEF RuntimeType
    <3>4. CASE \E n : rt' = [rt EXCEPT ![attempt[c].rt].failures = n]
      <4>1. PICK n : rt' = [rt EXCEPT ![attempt[c].rt] = [rt[attempt[c].rt] EXCEPT !.failures = n]]
        BY <3>4
      <4>2. rt'[r] = IF r = attempt[c].rt THEN [was EXCEPT !.failures = n] ELSE was
        BY <3>1, <4>1 DEF IInv, TypeOK
      <4>3. QED
        BY <3>2, <3>3, <4>2
    <3>5. QED
      BY <1>1, <3>1, <3>2, <3>4
  <2>2. Live' = Live
    BY <1>1, <2>1 DEF Live, IInv, TypeOK
  <2>3. QED
    BY <1>1, <2>2, Unnoticed
<1>2. CASE ProbeSucceeds(c)
  <2>1. CASE StopBot
    BY <1>2, <2>1, Ends DEF ProbeSucceeds, StopBot
  <2>2. CASE NoStop
    BY <1>1, <1>2, <2>2 DEF ProbeSucceeds, NoStop
  <2>3. CASE rt' = [rt EXCEPT ![attempt[c].rt].failures = 0] /\ UNCHANGED <<runtime, listening, status>>
    BY <1>1, <1>2, <2>3 DEF ProbeSucceeds
  <2>4. QED
    BY <1>2, <2>1, <2>2, <2>3 DEF ProbeSucceeds
<1>3. CASE ProbeFails(c)
  <2>1. CASE UNCHANGED <<rt, attempt, listening, status>>
    BY <1>1, <1>3, <2>1 DEF ProbeFails
  <2>2. CASE rt[attempt[c].rt].client = c /\ Rebuild(attempt[c].rt, "offline")
    <3>1. runtime \in Runtimes /\ attempt[c].rt = runtime /\ Online(rt[runtime])
      BY <1>3, <2>2, SettledIsOnline DEF ProbeFails, IInv, ProbesAreSettled
    <3>2. QED
      BY <1>3, <2>2, <3>1, RebuildMaps DEF ProbeFails
  <2>3. CASE rt' = [rt EXCEPT ![attempt[c].rt].failures = rt[attempt[c].rt].failures + 1]
             /\ UNCHANGED <<attempt, listening, status>>
    BY <1>1, <1>3, <2>3 DEF ProbeFails
  <2>4. QED
    BY <1>3, <2>1, <2>2, <2>3 DEF ProbeFails
<1>4. CASE ListenerLost(c)
  <2>1. c \in listening /\ rt[attempt[c].rt].client = c /\ rt[attempt[c].rt].loginRun = None
        /\ Rebuild(attempt[c].rt, status) /\ UNCHANGED <<runtime, lock, exempt, bot>>
    BY <1>4 DEF ListenerLost
  <2>2. attempt[c].rt \in Runtimes /\ c # None
    BY LifecycleAssumption DEF IInv, TypeOK, AttemptType
  <2>3. attempt[c].rt = runtime /\ runtime # None
    BY <2>1, <2>2, OnlyRegistered DEF IInv
  <2>4. Online(rt[runtime])
    BY <2>1, <2>2, <2>3, LifecycleAssumption
       DEF IInv, Core, RuntimeIsSound, Idle, LoggingIn, Preparing, OpenLogin
  <2>5. QED
    BY <2>1, <2>2, <2>3, <2>4, RebuildMaps
<1>5. CASE TokenRotates(c) \/ LastAnswer(c)
  BY <1>1, <1>5 DEF TokenRotates, LastAnswer, memory
<1>6. QED
  BY <1>2, <1>3, <1>4, <1>5 DEF ProbeAnswered

LEMMA TimerMaps ==
    ASSUME IInv, IInv', NEW r \in Runtimes, RetryFires(r) \/ WatchdogFires(r)
    PROVE  UNCHANGED ServiceVars
<1>1. /\ UNCHANGED <<runtime, attempt, listening, status, lock, exempt, bot>>
      /\ rt' = rt \/ rt' = [rt EXCEPT ![r].retry = 0]
  <2>1. CASE RetryFires(r)
    <3>1. PICK was \in RuntimeType : was = [rt[r] EXCEPT !.retry = 0]
      BY None \in Attempts \cup {None}, RuntimeUpdates DEF IInv, TypeOK
    <3>2. was.active = rt[r].active
      BY <3>1 DEF IInv, TypeOK, RuntimeType
    <3>3. rt' = [rt EXCEPT ![r] = was] /\ UNCHANGED <<attempt, status>>
      BY <2>1, <3>1, <3>2 DEF RetryFires, CanBegin
    <3>4. QED
      BY <2>1, <3>1, <3>3 DEF RetryFires, IInv, TypeOK
  <2>2. CASE WatchdogFires(r)
    BY <2>2 DEF WatchdogFires
  <2>3. QED
    BY <2>1, <2>2
<1>2. \A q \in Runtimes : rt'[q].client = rt[q].client
  BY <1>1 DEF IInv, TypeOK, RuntimeType
<1>3. Live' = Live
  BY <1>1, <1>2 DEF Live, IInv, TypeOK
<1>4. QED
  BY <1>1, <1>3, Unnoticed

\* Crash, boot and what is done once per boot.
LEMMA BootMaps ==
    ASSUME IInv, IInv', CrashAndBoot \/ SweepLegacyIdLockNames \/ ResumePreviouslyRunning
    PROVE  Service!Next \/ UNCHANGED ServiceVars
<1>1. CASE CrashAndBoot
  BY <1>1, Ends DEF CrashAndBoot
<1>2. ASSUME UNCHANGED <<runtime, rt, attempt, listening, status, lock, exempt, bot>>
      PROVE  UNCHANGED ServiceVars
  BY <1>2, Unnoticed DEF Live
<1>3. CASE SweepLegacyIdLockNames
  BY <1>2, <1>3, Ends DEF SweepLegacyIdLockNames, LogOff, StopBot, NoStop
<1>4. CASE ResumePreviouslyRunning
  <2>1. UNCHANGED <<listening, lock, exempt, bot>>
    BY <1>4 DEF ResumePreviouslyRunning
  <2>2. CASE UNCHANGED <<runtime, rt, attempt, status>>
    BY <1>2, <2>1, <2>2
  <2>3. CASE ~ UNCHANGED <<runtime, rt, attempt, status>>
    <3>1. Resumable
      BY <1>4, <2>3 DEF ResumePreviouslyRunning
    <3>2. PICK r \in Runtimes, was \in {FreshRuntime} \cup {rt[q] : q \in Runtimes} :
            /\ Registered(r, was)
            /\ runtime' = r
            /\ LET ready == [was EXCEPT !.stopRequested = FALSE] IN
                  \/ CanBegin(ready) /\ BeginLogin(r, ready, FALSE)
                  \/ /\ ~ CanBegin(ready)
                     /\ rt' = [rt EXCEPT ![r] = ready]
                     /\ UNCHANGED <<attempt, status>>
      BY <1>4, <2>3 DEF ResumePreviouslyRunning
    <3>3. was \in RuntimeType
      BY <3>2, RegisteredType DEF IInv
    <3>4. PICK ready \in RuntimeType : ready = [was EXCEPT !.stopRequested = FALSE]
      BY <3>3, None \in Attempts \cup {None}, RuntimeUpdates
    <3>5. ready.active = was.active /\ ready.client = was.client
      BY <3>3, <3>4 DEF RuntimeType
    <3>6. \/ CanBegin(ready) /\ BeginLogin(r, ready, FALSE)
          \/ rt' = [rt EXCEPT ![r] = ready] /\ UNCHANGED <<attempt, status>>
      BY <3>2, <3>4
    <3>7. was.client = None /\ bot.exists
      BY <3>1, <3>2 DEF Registered, Resumable, Live, FreshRuntime
    <3>8. QED
      BY <2>1, <3>2, <3>5, <3>6, <3>7, StartedMaps
  <2>4. QED
    BY <2>2, <2>3
<1>5. QED
  BY <1>1, <1>3, <1>4

\* Seen from outside, all the runtimes, attempts, timers and tokens of a bot are
\* one account served at a time: connect, admit, listen, end.
THEOREM ImplementsService == Spec => ServiceSpec
<1>1. Init => Service!Init
  <2> SUFFICES ASSUME Init PROVE Service!Init
    OBVIOUS
  <2>1. /\ status = "offline" /\ Serving = {} /\ Heard = {} /\ Allowed = TRUE
        /\ exempt \in BOOLEAN
    BY DEF Init, Serving, Heard, Live, Allowed
  <2>2. lock \in [mid : Mids \cup {None}, name : Names \cup {None}]
    BY InitType DEF TypeOK
  <2>3. QED
    BY <2>1, <2>2 DEF Service!Init
<1>2. IInv /\ IInv' /\ [Next]_vars => [Service!Next]_ServiceVars
  <2> SUFFICES ASSUME IInv, IInv', [Next]_vars PROVE Service!Next \/ UNCHANGED ServiceVars
    OBVIOUS
  <2>1. CASE UNCHANGED vars
    BY <2>1, Unnoticed DEF vars, memory, Live
  <2>2. CASE Next
    BY <2>2, OperatorMaps, LoginStepMaps, TimerMaps, SessionMaps, BootMaps DEF Next
  <2>3. QED
    BY <2>1, <2>2
<1>3. QED
  BY <1>1, <1>2, Invariance, PTL DEF Spec, ServiceSpec, Service!Spec, ServiceVars

=============================================================================
