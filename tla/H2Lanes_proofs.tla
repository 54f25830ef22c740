---------------------------- MODULE H2Lanes_proofs ----------------------------
(***************************************************************************)
(* The lanes for every number of lanes, sessions and requests.             *)
(*                                                                         *)
(* Most handlers do nothing to the lanes but retire some of them, so the   *)
(* argument is made about steps that only demote lanes (Demotes), and      *)
(* about the few that do more: a dial starts, a dial ends, a request       *)
(* starts.                                                                 *)
(***************************************************************************)
EXTENDS H2Lanes, FiniteSetTheorems, TLAPS

States == {"dead", "connecting", "ready", "draining"}

-----------------------------------------------------------------------------
(* Steps that demote lanes. *)

Retired(l) ==
    /\ state[l] # "dead" /\ state'[l] = "dead"
    /\ session'[l] = None
    /\ timer'[l] = (timer[l] \/ ~ disposed)
    /\ \A o \in alive' : o.lane = l => o.session # session[l]

Kept(l) == state'[l] = state[l] /\ session'[l] = session[l] /\ timer'[l] = timer[l]

Demotes(L) ==
    /\ state' \in [Lanes -> States]
    /\ session' \in [Lanes -> Sessions \cup {None}]
    /\ timer' \in [Lanes -> BOOLEAN]
    /\ \A l \in Lanes : Kept(l) \/ (l \in L /\ Retired(l))
    /\ alive' \subseteq alive
    /\ closing' \subseteq closing \cup alive

LEMMA RetireDemotes ==
    ASSUME TypeOK, NEW L \in SUBSET Lanes, NEW lost, NEW heard, Retire(L, lost, heard)
    PROVE  Demotes(L)
<1> DEFINE dying == {l \in L : state[l] # "dead"}
           gone == {o \in alive : o \in lost \/ (o.lane \in dying /\ o.session = session[o.lane])}
<1>1. /\ state' = [l \in Lanes |-> IF l \in dying THEN "dead" ELSE state[l]]
      /\ session' = [l \in Lanes |-> IF l \in dying THEN None ELSE session[l]]
      /\ timer' = [l \in Lanes |-> timer[l] \/ (l \in dying /\ ~ disposed)]
      /\ alive' = alive \ gone
      /\ closing' = (closing \ heard) \cup gone
  BY DEF Retire
<1>2. /\ state' \in [Lanes -> States]
      /\ session' \in [Lanes -> Sessions \cup {None}]
  <2>1. state \in [Lanes -> States] /\ session \in [Lanes -> Sessions \cup {None}]
    BY DEF TypeOK, States
  <2>2. QED
    BY <1>1, <2>1 DEF States
<1>3. timer' \in [Lanes -> BOOLEAN]
  BY <1>1, Zenon DEF TypeOK
<1>4. ASSUME NEW l \in Lanes, l \notin dying PROVE Kept(l)
  <2>1. timer'[l] = timer[l]
    BY <1>1, <1>4, Zenon DEF TypeOK
  <2>2. QED
    BY <1>1, <1>4, <2>1 DEF Kept
<1>5. ASSUME NEW l \in Lanes, l \in dying PROVE Retired(l)
  <2>1. timer'[l] = (timer[l] \/ ~ disposed)
    BY <1>1, <1>5, Zenon DEF TypeOK
  <2>2. \A o \in alive' : o.lane = l => o.session # session[l]
    BY <1>1, <1>5
  <2>3. QED
    BY <1>1, <1>5, <2>1, <2>2 DEF Retired
<1>6. QED
  BY <1>1, <1>2, <1>3, <1>4, <1>5 DEF Demotes

\* A step that leaves the lanes alone, whatever sessions it loses, demotes none.
LEMMA QuietDemotes ==
    ASSUME TypeOK, UNCHANGED laneVars, alive' \subseteq alive,
           closing' \subseteq closing \cup alive, NEW L
    PROVE  Demotes(L)
BY DEF TypeOK, Demotes, Kept, States, laneVars

\* What each of the handlers does to the lanes: it may demote some of them.
LEMMA DemotingSteps ==
    ASSUME TypeOK
    PROVE  /\ \A o \in alive : SessionLost(o) => Demotes({o.lane})
           /\ \A o \in alive : SessionFails(o) => Demotes({o.lane})
           /\ \A o \in closing : CloseEvent(o) => Demotes({o.lane})
           /\ Tick => Demotes(Usable)
           /\ \A st \in streams, ok \in BOOLEAN : SettleLane(st, ok) => Demotes({st.lane})
<1> USE DEF TypeOK, Owned
<1>1. ASSUME NEW o \in alive, SessionLost(o) PROVE Demotes({o.lane})
  BY <1>1, QuietDemotes DEF SessionLost
<1>2. ASSUME NEW o \in alive, SessionFails(o) PROVE Demotes({o.lane})
  <2>1. {o.lane} \in SUBSET Lanes
    OBVIOUS
  <2>2. QED
    BY <1>2, <2>1, RetireDemotes DEF SessionFails
<1>3. ASSUME NEW o \in closing, CloseEvent(o) PROVE Demotes({o.lane})
  <2>1. {o.lane} \in SUBSET Lanes
    OBVIOUS
  <2>2. QED
    BY <1>3, <2>1, RetireDemotes DEF CloseEvent
<1>4. ASSUME Tick PROVE Demotes(Usable)
  <2>1. PICK old \in SUBSET Lanes, worn \in SUBSET Lanes :
           /\ old \subseteq Usable /\ worn \subseteq Usable
           /\ Retire(old \cup worn, {}, {})
    BY <1>4 DEF Tick, Recyclable, Repairable
  <2>2. Demotes(old \cup worn)
    BY <2>1, RetireDemotes
  <2>3. QED
    BY <2>1, <2>2 DEF Demotes
<1>5. ASSUME NEW st \in streams, NEW ok \in BOOLEAN, SettleLane(st, ok) PROVE Demotes({st.lane})
  <2>1. {st.lane} \in SUBSET Lanes
    BY DEF Streams
  <2>2. QED
    BY <1>5, <2>1, RetireDemotes, QuietDemotes DEF SettleLane
<1>6. QED
  BY <1>1, <1>2, <1>3, <1>4, <1>5

-----------------------------------------------------------------------------
(* Steps that dial. *)

\* What openLane does to the set of attempts: each lane it opens gets one, with a
\* session that nothing else has.
LEMMA OpenDials ==
    ASSUME NEW L, Open(L)
    PROVE  /\ dials \subseteq dials'
           /\ \A o \in dials' \ dials :
                 o \in [lane : ToOpen(L), session : Sessions] /\ o.session \notin InUse
           /\ \A l \in ToOpen(L) : \E o \in dials' : o.lane = l
           /\ \A o, a \in dials' \ dials : o # a => o.lane # a.lane /\ o.session # a.session
<1>1. Dialled(ToOpen(L), InUse) \in Dialings(ToOpen(L), InUse)
  BY Zenon DEF Open, Dialled
<1>2. PICK new \in Dialings(ToOpen(L), InUse) : dials' = dials \cup new
  BY <1>1 DEF Open
<1>3. /\ new \subseteq [lane : ToOpen(L), session : Sessions \ InUse]
      /\ \A l \in ToOpen(L) : \E o \in new : o.lane = l
      /\ \A o, a \in new : o # a => o.lane # a.lane /\ o.session # a.session
  BY <1>2 DEF Dialings
<1>4. \A o \in new : o \in [lane : ToOpen(L), session : Sessions] /\ o.session \notin InUse
  BY <1>3
<1>5. QED
  BY <1>2, <1>3, <1>4

-----------------------------------------------------------------------------
(* The load of a lane. *)

Unsettled(l) == {st \in streams : st.lane = l /\ ~ st.settled}

Exact(l) == IsFiniteSet(Unsettled(l)) /\ inFlight[l] = Cardinality(Unsettled(l))

\* A request starts on each of the lanes L.
LEMMA Started ==
    ASSUME TypeOK, \A l \in Lanes : Exact(l), NEW L \in SUBSET Lanes, NEW f,
           \A l \in L : f[l].lane = l /\ ~ f[l].settled /\ f[l] \notin streams,
           streams' = streams \cup {f[l] : l \in L},
           inFlight' = [l \in Lanes |-> IF l \in L THEN inFlight[l] + 1 ELSE inFlight[l]]
    PROVE  inFlight' \in [Lanes -> Nat] /\ \A l \in Lanes : Exact(l)'
<1>1. inFlight \in [Lanes -> Nat]
  BY DEF TypeOK
<1>2. ASSUME NEW l \in Lanes, l \in L PROVE Exact(l)'
  <2>1. Unsettled(l)' = Unsettled(l) \cup {f[l]}
    BY <1>2 DEF Unsettled
  <2>2. f[l] \notin Unsettled(l)
    BY <1>2 DEF Unsettled
  <2>3. /\ IsFiniteSet(Unsettled(l) \cup {f[l]})
        /\ Cardinality(Unsettled(l) \cup {f[l]}) = Cardinality(Unsettled(l)) + 1
    BY <2>2, FS_AddElement DEF Exact
  <2>4. inFlight'[l] = inFlight[l] + 1
    BY <1>2
  <2>5. QED
    BY <2>1, <2>3, <2>4 DEF Exact
<1>3. ASSUME NEW l \in Lanes, l \notin L PROVE Exact(l)'
  <2>1. Unsettled(l)' = Unsettled(l)
    BY <1>3 DEF Unsettled
  <2>2. inFlight'[l] = inFlight[l]
    BY <1>3
  <2>3. QED
    BY <2>1, <2>2 DEF Exact
<1>4. QED
  BY <1>1, <1>2, <1>3

\* A request ends; an aborted one may stay until its stream closes.
LEMMA Ended ==
    ASSUME TypeOK, \A l \in Lanes : Exact(l), NEW st \in streams, ~ st.settled, NEW rest,
           \A r \in rest : r.settled,
           streams' = (streams \ {st}) \cup rest,
           inFlight' = [inFlight EXCEPT ![st.lane] = @ - 1]
    PROVE  /\ inFlight[st.lane] >= 1
           /\ inFlight' \in [Lanes -> Nat]
           /\ \A l \in Lanes : Exact(l)'
<1>1. inFlight \in [Lanes -> Nat] /\ st.lane \in Lanes
  BY DEF TypeOK, Streams
<1>2. st \in Unsettled(st.lane)
  BY DEF Unsettled
<1>3. /\ IsFiniteSet(Unsettled(st.lane) \ {st})
      /\ Cardinality(Unsettled(st.lane) \ {st}) = Cardinality(Unsettled(st.lane)) - 1
  BY <1>1, <1>2, FS_RemoveElement DEF Exact
<1>4. Unsettled(st.lane)' = Unsettled(st.lane) \ {st}
  BY DEF Unsettled
<1>5. inFlight[st.lane] >= 1
  <2>1. Cardinality(Unsettled(st.lane) \ {st}) \in Nat
    BY <1>3, FS_CardinalityType
  <2>2. QED
    BY <1>1, <1>3, <2>1 DEF Exact
<1>6. Exact(st.lane)'
  BY <1>1, <1>3, <1>4 DEF Exact
<1>7. ASSUME NEW l \in Lanes, l # st.lane PROVE Exact(l)'
  <2>1. Unsettled(l)' = Unsettled(l)
    BY <1>7 DEF Unsettled
  <2>2. inFlight'[l] = inFlight[l]
    BY <1>1, <1>7
  <2>3. QED
    BY <2>1, <2>2 DEF Exact
<1>8. QED
  BY <1>1, <1>5, <1>6, <1>7

LEMMA Untouched ==
    ASSUME \A l \in Lanes : Exact(l), UNCHANGED inFlight,
           \A st : ~ st.settled => (st \in streams' <=> st \in streams)
    PROVE  \A l \in Lanes : Exact(l)'
<1>1. ASSUME NEW l \in Lanes PROVE Exact(l)'
  <2>1. Unsettled(l)' = Unsettled(l)
    BY DEF Unsettled
  <2>2. QED
    BY <2>1 DEF Exact
<1>2. QED
  BY <1>1
-----------------------------------------------------------------------------
(* First invariant: loads are exact, and a session has one owner. *)

\* What a session under way will be is nobody's yet.
FreshDials ==
    /\ \A d \in dials, st \in streams : st.session # d.session
    /\ \A d \in dials, o \in alive : o.session # d.session
    /\ \A d, e \in dials : d # e => d.session # e.session

\* No HEAD of an earlier round is left when a round begins.
NoHeads == warmup = "opening" => \A st \in streams : st.kind # "head"

LoadInv ==
    /\ TypeOK
    /\ \A l \in Lanes : Exact(l)
    /\ FreshDials
    /\ NoHeads

LEMMA FreshKept ==
    ASSUME FreshDials, dials' \subseteq dials,
           \A o \in alive' : o \in alive \/ o \in dials \ dials',
           \A st \in streams' :
               \/ \E s \in streams : s.session = st.session
               \/ \E o \in alive : o.session = st.session
               \/ \E d \in dials \ dials' : d.session = st.session
    PROVE  FreshDials'
BY DEF FreshDials

LEMMA OpenLoad ==
    ASSUME LoadInv, NEW L \in SUBSET Lanes, Open(L),
           warmup' \in {"idle", "opening", "heads", "primed", "stopped"},
           timer' \in [Lanes -> BOOLEAN], awaited' \subseteq awaited \cup dials', NoHeads'
    PROVE  LoadInv'
<1> USE DEF LoadInv
<1>1. /\ dials \subseteq dials'
      /\ \A o \in dials' \ dials :
            o \in [lane : ToOpen(L), session : Sessions] /\ o.session \notin InUse
      /\ \A o, a \in dials' \ dials : o # a => o.lane # a.lane /\ o.session # a.session
  BY OpenDials
<1>2. dials' \subseteq Owned
  BY <1>1 DEF TypeOK, Owned, ToOpen
<1>3. /\ UNCHANGED <<session, inFlight, alive, closing, streams>>
      /\ redialed' \in BOOLEAN
      /\ state' \in [Lanes -> {"dead", "connecting", "ready", "draining"}]
      /\ measured' \in [Lanes -> BOOLEAN] /\ stale' \in [Lanes -> BOOLEAN]
  <2>1. redialed' \in BOOLEAN
    BY Zenon DEF Open, TypeOK
  <2>2. measured' \in [Lanes -> BOOLEAN] /\ stale' \in [Lanes -> BOOLEAN]
    BY Zenon DEF Open, TypeOK, StillMeasured
  <2>3. QED
    BY <2>1, <2>2 DEF Open, TypeOK
<1>4. TypeOK'
  BY <1>2, <1>3 DEF TypeOK
<1>5. \A l \in Lanes : Exact(l)'
  BY <1>3, Untouched
<1>6. FreshDials'
  BY <1>1, <1>3 DEF FreshDials, InUse
<1>7. QED
  BY <1>4, <1>5, <1>6

LEMMA DemoteLoad ==
    ASSUME LoadInv, NEW L, Demotes(L), UNCHANGED <<statVars, dials, streams, warmVars, redialed>>
    PROVE  LoadInv'
<1> USE DEF LoadInv
<1>1. TypeOK'
  BY DEF TypeOK, Demotes, statVars, warmVars, States
<1>2. \A l \in Lanes : Exact(l)'
  BY Untouched DEF statVars
<1>3. FreshDials'
  BY FreshKept DEF Demotes
<1>4. NoHeads'
  BY DEF NoHeads, warmVars
<1>5. QED
  BY <1>1, <1>2, <1>3, <1>4

LEMMA SettleWarmupTypes ==
    ASSUME TypeOK, NEW st \in streams, NEW ok \in BOOLEAN, SettleWarmup(st, ok)
    PROVE  /\ warmup' \in {"idle", "opening", "heads", "primed", "stopped"}
           /\ warmup' = "opening" <=> warmup = "opening"
           /\ warmup' = "stopped" <=> warmup = "stopped"
           /\ awaited' \subseteq awaited
BY DEF SettleWarmup, warmVars, TypeOK

LEMMA SettleLoad ==
    ASSUME LoadInv, NEW st \in streams, ~ st.settled, NEW ok \in BOOLEAN, Settle(st, ok),
           NEW rest \in SUBSET Streams, \A r \in rest : r.settled /\ r.session = st.session,
           \A r \in rest : r.kind = "send",
           streams' = (streams \ {st}) \cup rest
    PROVE  LoadInv'
<1> USE DEF LoadInv
<1>1. inFlight' = [inFlight EXCEPT ![st.lane] = @ - 1]
  BY DEF Settle, SettleLane
<1>2. inFlight' \in [Lanes -> Nat] /\ \A l \in Lanes : Exact(l)'
  BY <1>1, Ended
<1>3. Demotes({st.lane})
  BY DemotingSteps DEF Settle
<1>4. /\ warmup' \in {"idle", "opening", "heads", "primed", "stopped"}
      /\ warmup' = "opening" <=> warmup = "opening"
      /\ awaited' \subseteq awaited
  BY SettleWarmupTypes DEF Settle
<1>5. measured' \in [Lanes -> BOOLEAN] /\ stale' \in [Lanes -> BOOLEAN]
  <2>1. CASE UNCHANGED <<measured, stale>>
    BY <2>1 DEF TypeOK
  <2>2. CASE Record(st)
    <3>1. st.lane \in Lanes /\ measured \in [Lanes -> BOOLEAN] /\ stale \in [Lanes -> BOOLEAN]
      BY DEF TypeOK, Streams
    <3>2. (state[st.lane] = "connecting" \/ st.session # session[st.lane]) \in BOOLEAN
      BY Zenon
    <3>3. QED
      BY <2>2, <3>1, <3>2, Zenon DEF Record
  <2>3. QED
    BY <2>1, <2>2 DEF Settle
<1>6. TypeOK'
  BY <1>2, <1>3, <1>4, <1>5 DEF TypeOK, Demotes, States, Settle
<1>7. FreshDials'
  <2>1. dials' = dials /\ alive' \subseteq alive
    BY <1>3 DEF Settle, Demotes
  <2>2. \A s \in streams' : \E x \in streams : x.session = s.session
    OBVIOUS
  <2>3. QED
    BY <2>1, <2>2, FreshKept
<1>8. NoHeads'
  BY <1>4 DEF NoHeads
<1>9. QED
  BY <1>2, <1>6, <1>7, <1>8
LEMMA InitLoad == Init => LoadInv
<1> SUFFICES ASSUME Init PROVE LoadInv
  OBVIOUS
<1>1. /\ dials \subseteq [lane : Lanes, session : Sessions]
      /\ \A l \in Lanes : \E o \in dials : o.lane = l
      /\ \A o, a \in dials : o # a => o.lane # a.lane /\ o.session # a.session
  <2>1. dials \in Dialings(Lanes, {})
    BY SessionsSuffice, Zenon DEF Init, Dialled
  <2>2. QED
    BY <2>1 DEF Dialings
<1>2. TypeOK
  BY <1>1 DEF Init, TypeOK, Owned
<1>3. \A l \in Lanes : Exact(l)
  <2>1. \A l \in Lanes : Unsettled(l) = {}
    BY DEF Init, Unsettled
  <2>2. QED
    BY <2>1, FS_EmptySet DEF Init, Exact
<1>4. FreshDials /\ NoHeads
  BY <1>1 DEF Init, FreshDials, NoHeads
<1>5. QED
  BY <1>2, <1>3, <1>4 DEF LoadInv

LEMMA ConnectLoad ==
    ASSUME LoadInv, NEW d \in dials, DialSucceeds(d)
    PROVE  LoadInv'
<1> USE DEF LoadInv
<1>1. /\ dials' = dials \ {d} /\ awaited' = awaited \ {d}
      /\ UNCHANGED <<measured, stale, warmup, redialed, timer, closing>>
  BY DEF DialSucceeds, DialEnds, Connect
<1>2. d \in Owned /\ d.lane \in Lanes /\ d.session \in Sessions
  BY DEF TypeOK, Owned
<1>3. ASSUME UNCHANGED <<alive, state, session, inFlight, streams>> PROVE LoadInv'
  <2>1. TypeOK'
    BY <1>1, <1>3 DEF TypeOK
  <2>2. \A l \in Lanes : Exact(l)'
    BY <1>3, Untouched
  <2>3. FreshDials' /\ NoHeads'
    BY <1>1, <1>3 DEF FreshDials, NoHeads
  <2>4. QED
    BY <2>1, <2>2, <2>3
<1>4. ASSUME Ready(d), UNCHANGED <<inFlight, streams>> PROVE LoadInv'
  <2>1. TypeOK'
    BY <1>1, <1>2, <1>4 DEF TypeOK, Ready
  <2>2. \A l \in Lanes : Exact(l)'
    BY <1>4, Untouched
  <2>3. FreshDials' /\ NoHeads'
    BY <1>1, <1>4 DEF FreshDials, NoHeads, Ready
  <2>4. QED
    BY <2>1, <2>2, <2>3
<1>5. ASSUME Ready(d), warmup = "primed",
             NEW st, st = [lane |-> d.lane, session |-> d.session, request |-> None,
                           kind |-> "prime", settled |-> FALSE],
             inFlight' = [inFlight EXCEPT ![d.lane] = @ + 1],
             streams' = streams \cup {st}
      PROVE  LoadInv'
  <2>1. st \in Streams /\ st \notin streams
    BY <1>2, <1>5 DEF Streams, FreshDials
  <2> DEFINE f == [l \in {d.lane} |-> st]
  <2>2. /\ streams' = streams \cup {f[l] : l \in {d.lane}}
        /\ inFlight' = [l \in Lanes |-> IF l \in {d.lane} THEN inFlight[l] + 1 ELSE inFlight[l]]
        /\ \A l \in {d.lane} : f[l].lane = l /\ ~ f[l].settled /\ f[l] \notin streams
    BY <1>2, <1>5, <2>1 DEF TypeOK
  <2>3. inFlight' \in [Lanes -> Nat] /\ \A l \in Lanes : Exact(l)'
    <3> HIDE DEF f
    <3>1. {d.lane} \in SUBSET Lanes
      BY <1>2
    <3>2. QED
      BY <2>2, <3>1, Started
  <2>4. TypeOK'
    BY <1>1, <1>2, <1>5, <2>1, <2>3 DEF TypeOK, Ready
  <2>5. FreshDials' /\ NoHeads'
    BY <1>1, <1>5 DEF FreshDials, NoHeads, Ready
  <2>6. QED
    BY <2>3, <2>4, <2>5
<1>6. QED
  BY <1>3, <1>4, <1>5 DEF DialSucceeds, Connect

LEMMA SendLoad ==
    ASSUME LoadInv, NEW l \in Usable, NEW r \in Requests, Send(r, l)
    PROVE  LoadInv'
<1> USE DEF LoadInv
<1>1. /\ UNCHANGED <<measured, stale, dials, warmVars, redialed>>
      /\ \A st \in streams : st.request # r
  BY DEF Send
<1>2. l \in Lanes /\ [lane |-> l, session |-> session[l]] \in alive /\ session[l] \in Sessions
  BY DEF Usable, TypeOK, Owned
<1>3. CASE Retire({l}, {}, {}) /\ UNCHANGED <<streams, inFlight>>
  <2>1. Demotes({l})
    <3>1. {l} \in SUBSET Lanes
      BY <1>2
    <3>2. QED
      BY <1>3, <3>1, RetireDemotes
  <2>2. QED
    BY <1>1, <1>3, <2>1, DemoteLoad DEF statVars
<1>4. ASSUME streams' = streams \cup {Stream(l, r, "send")},
             inFlight' = [inFlight EXCEPT ![l] = @ + 1],
             UNCHANGED <<laneVars, alive, closing>>
      PROVE  LoadInv'
  <2> DEFINE st == Stream(l, r, "send")
             f == [k \in {l} |-> st]
  <2>1. /\ st \in Streams /\ st \notin streams /\ st.lane = l /\ ~ st.settled
        /\ st.session = session[l] /\ st.kind = "send"
    BY <1>1, <1>2 DEF Stream, Streams
  <2> HIDE DEF st
  <2>2. /\ streams' = streams \cup {f[k] : k \in {l}}
        /\ inFlight' = [k \in Lanes |-> IF k \in {l} THEN inFlight[k] + 1 ELSE inFlight[k]]
        /\ \A k \in {l} : f[k].lane = k /\ ~ f[k].settled /\ f[k] \notin streams
    BY <1>2, <1>4, <2>1 DEF TypeOK, st
  <2>3. inFlight' \in [Lanes -> Nat] /\ \A k \in Lanes : Exact(k)'
    <3> HIDE DEF f
    <3>1. {l} \in SUBSET Lanes
      BY <1>2
    <3>2. QED
      BY <2>2, <3>1, Started
  <2>4. streams' = streams \cup {st}
    BY <1>4 DEF st
  <2>5. TypeOK'
    BY <1>1, <1>4, <2>1, <2>3, <2>4 DEF TypeOK, laneVars, warmVars
  <2>6. FreshDials' /\ NoHeads'
    BY <1>1, <1>2, <1>4, <2>1, <2>4 DEF FreshDials, NoHeads, warmVars
  <2>7. QED
    BY <2>3, <2>5, <2>6
<1>5. QED
  BY <1>3, <1>4 DEF Send

LEMMA AllOpenedLoad ==
    ASSUME LoadInv, AllOpened
    PROVE  LoadInv'
<1> USE DEF LoadInv
<1> DEFINE f == [l \in Usable |-> Stream(l, None, "head")]
<1>1. \A l \in Usable : l \in Lanes /\ [lane |-> l, session |-> session[l]] \in alive
                        /\ session[l] \in Sessions
  BY DEF Usable, TypeOK, Owned
<1>2. \A l \in Usable : /\ f[l] \in Streams /\ f[l].lane = l /\ ~ f[l].settled
                        /\ f[l].session = session[l] /\ f[l].kind = "head"
                        /\ f[l] \notin streams
  BY <1>1 DEF Stream, Streams, AllOpened, NoHeads
<1>3. streams' = streams \cup {f[l] : l \in Usable}
  BY DEF AllOpened
<1> HIDE DEF f
<1>4. inFlight' \in [Lanes -> Nat] /\ \A l \in Lanes : Exact(l)'
  BY <1>1, <1>2, <1>3, Started DEF AllOpened
<1>5. /\ UNCHANGED <<laneVars, measured, stale, dials, alive, closing, redialed>>
      /\ warmup' \in {"idle", "heads"} /\ awaited' \subseteq alive
  BY DEF AllOpened
<1>6. TypeOK'
  BY <1>2, <1>3, <1>4, <1>5 DEF TypeOK, laneVars
<1>7. FreshDials' /\ NoHeads'
  <2>1. \A st \in streams' : \/ \E s \in streams : s.session = st.session
                            \/ \E o \in alive : o.session = st.session
    <3>1. \A l \in Usable : \E o \in alive : o.session = f[l].session
      BY <1>1, <1>2
    <3>2. QED
      BY <1>3, <3>1
  <2>2. FreshDials'
    BY <1>5, <2>1, FreshKept
  <2>3. QED
    BY <1>5, <2>2 DEF NoHeads
<1>8. QED
  BY <1>4, <1>6, <1>7
LEMMA StepLoad == LoadInv /\ [Next]_vars => LoadInv'
<1> SUFFICES ASSUME LoadInv, [Next]_vars PROVE LoadInv'
  OBVIOUS
<1> USE DEF LoadInv
<1>1. ASSUME NEW l \in Lanes, Reconnect(l) PROVE LoadInv'
  <2>1. NoHeads' /\ timer' \in [Lanes -> BOOLEAN]
    BY <1>1 DEF Reconnect, Open, NoHeads, warmVars, TypeOK
  <2>2. QED
    BY <1>1, <2>1, OpenLoad DEF Reconnect, warmVars, TypeOK
<1>2. ASSUME NEW d \in dials, DialFails(d) PROVE LoadInv'
  <2>1. /\ dials' = dials \ {d} /\ awaited' = awaited \ {d}
        /\ UNCHANGED <<inFlight, alive, closing, streams, measured, stale, warmup, redialed>>
    BY <1>2 DEF DialFails, DialEnds
  <2>2. /\ state' \in [Lanes -> {"dead", "connecting", "ready", "draining"}]
        /\ session' \in [Lanes -> Sessions \cup {None}]
    BY <1>2 DEF DialFails, TypeOK
  <2>3. timer' \in [Lanes -> BOOLEAN]
    BY <1>2, Zenon DEF DialFails, TypeOK
  <2>4. TypeOK'
    BY <2>1, <2>2, <2>3 DEF TypeOK
  <2>5. \A l \in Lanes : Exact(l)'
    BY <2>1, Untouched
  <2>6. FreshDials' /\ NoHeads'
    BY <2>1 DEF FreshDials, NoHeads
  <2>7. QED
    BY <2>4, <2>5, <2>6
<1>3. ASSUME NEW o \in alive, SessionLost(o) \/ SessionFails(o) PROVE LoadInv'
  <2>1. Demotes({o.lane})
    BY <1>3, DemotingSteps
  <2>2. QED
    BY <1>3, <2>1, DemoteLoad DEF SessionLost, SessionFails
<1>4. ASSUME NEW o \in closing, CloseEvent(o) PROVE LoadInv'
  <2>1. Demotes({o.lane})
    BY <1>4, DemotingSteps
  <2>2. QED
    BY <1>4, <2>1, DemoteLoad DEF CloseEvent
<1>5. ASSUME NEW o \in alive, Goaway(o) PROVE LoadInv'
  <2>1. {o.lane} \in SUBSET Lanes
    BY DEF TypeOK, Owned
  <2>2. CASE Retire({o.lane}, {}, {})
    BY <1>5, <2>1, <2>2, RetireDemotes, DemoteLoad DEF Goaway
  <2>3. CASE state' = [state EXCEPT ![o.lane] = "draining"] /\ UNCHANGED <<session, timer, alive, closing>>
    <3>1. UNCHANGED <<statVars, dials, streams, warmVars, redialed>>
      BY <1>5 DEF Goaway
    <3>2. TypeOK'
      BY <2>1, <2>3, <3>1 DEF TypeOK, statVars, warmVars
    <3>3. \A l \in Lanes : Exact(l)'
      BY <3>1, Untouched DEF statVars
    <3>4. FreshDials' /\ NoHeads'
      BY <2>3, <3>1 DEF FreshDials, NoHeads, warmVars
    <3>5. QED
      BY <3>2, <3>3, <3>4
  <2>4. QED
    BY <1>5, <2>2, <2>3 DEF Goaway
<1>6. ASSUME NEW st \in streams, CloseStream(st) PROVE LoadInv'
  <2>1. PICK rest \in SUBSET Streams : rest = {}
    OBVIOUS
  <2>2. ASSUME ~ st.settled, NEW ok \in BOOLEAN, Settle(st, ok) PROVE LoadInv'
    <3>1. streams' = (streams \ {st}) \cup rest
      BY <1>6, <2>1 DEF CloseStream
    <3>2. /\ \A r \in rest : r.settled /\ r.session = st.session
          /\ \A r \in rest : r.kind = "send"
      BY <2>1
    <3>3. QED
      BY <2>2, <3>1, <3>2, SettleLoad
  <2>3. ASSUME st.settled, UNCHANGED <<laneVars, statVars, dials, alive, closing, warmVars, redialed>>
        PROVE  LoadInv'
    <3>1. TypeOK'
      BY <1>6, <2>3 DEF CloseStream, TypeOK, laneVars, statVars, warmVars
    <3>2. \A l \in Lanes : Exact(l)'
      BY <1>6, <2>3, Untouched DEF CloseStream, statVars
    <3>3. FreshDials' /\ NoHeads'
      BY <1>6, <2>3 DEF CloseStream, FreshDials, NoHeads, warmVars
    <3>4. QED
      BY <3>1, <3>2, <3>3
  <2>4. QED
    BY <1>6, <2>2, <2>3 DEF CloseStream
<1>7. ASSUME NEW st \in streams, Abort(st) PROVE LoadInv'
  <2> DEFINE rest == {[st EXCEPT !.settled = TRUE] : k \in {st.kind} \cap {"send"}}
  <2>1. /\ rest \in SUBSET Streams
        /\ \A r \in rest : r.settled /\ r.session = st.session /\ r.kind = "send"
    BY DEF TypeOK, Streams
  <2>2. ~ st.settled /\ streams' = (streams \ {st}) \cup rest /\ Settle(st, FALSE)
    BY <1>7 DEF Abort
  <2> HIDE DEF rest
  <2>3. \A ok \in BOOLEAN : Settle(st, ok) => LoadInv'
    BY <2>1, <2>2, SettleLoad
  <2>4. QED
    BY <2>2, <2>3
<1>8. ASSUME Tick PROVE LoadInv'
  <2>1. Demotes(Usable)
    BY <1>8, DemotingSteps
  <2>2. QED
    BY <1>8, <2>1, DemoteLoad DEF Tick
<1>9. ASSUME Warm PROVE LoadInv'
  <2>1. NoHeads' /\ timer' \in [Lanes -> BOOLEAN]
    BY <1>9 DEF Warm, Open, NoHeads, TypeOK
  <2>2. Open(Lanes) /\ warmup' = "opening" /\ awaited' \subseteq awaited \cup dials'
    BY <1>9 DEF Warm
  <2>3. QED
    BY <2>1, <2>2, OpenLoad
<1>10. ASSUME Stop PROVE LoadInv'
  <2>1. TypeOK'
    BY <1>10 DEF Stop, TypeOK, statVars
  <2>2. \A l \in Lanes : Exact(l)'
    BY <1>10, Untouched DEF Stop, statVars
  <2>3. FreshDials' /\ NoHeads'
    BY <1>10 DEF Stop, FreshDials, NoHeads
  <2>4. QED
    BY <2>1, <2>2, <2>3
<1>11. CASE UNCHANGED vars
  <2>1. TypeOK'
    BY <1>11 DEF TypeOK, vars, laneVars, statVars, warmVars
  <2>2. \A l \in Lanes : Exact(l)'
    BY <1>11, Untouched DEF vars, statVars
  <2>3. FreshDials' /\ NoHeads'
    BY <1>11 DEF vars, warmVars, FreshDials, NoHeads
  <2>4. QED
    BY <2>1, <2>2, <2>3
<1>12. QED
  BY <1>1, <1>2, <1>3, <1>4, <1>5, <1>6, <1>7, <1>8, <1>9, <1>10, <1>11,
     ConnectLoad, SendLoad, AllOpenedLoad DEF Next

LEMMA LoadAlways == Spec => []LoadInv
BY InitLoad, StepLoad, PTL DEF Spec

THEOREM TypeCorrect == Spec => []TypeOK
<1>1. LoadInv => TypeOK
  BY DEF LoadInv
<1>2. QED
  BY <1>1, LoadAlways, PTL

\* Whatever order requests, aborts, closes and retirements come in, and whatever
\* sessions they belong to, the load of a lane is the number of its requests.
THEOREM LoadExact == Spec => []InFlightExact
<1>1. LoadInv => InFlightExact
  BY DEF LoadInv, Exact, Unsettled, InFlightExact
<1>2. QED
  BY <1>1, LoadAlways, PTL
-----------------------------------------------------------------------------
(* Second invariant: every lane has somebody who will see to it. *)

\* A lane drains only while something is on it: its last request, however it
\* ends, also ends the lane.
DrainingHasWork == \A l \in Lanes : state[l] = "draining" => inFlight[l] > 0

StoppedIsDead == disposed => \A l \in Lanes : state[l] = "dead" /\ ~ timer[l]

LaneInv == NoLaneIsForgotten /\ DrainingHasWork /\ StoppedIsDead

LEMMA DemoteLanes ==
    ASSUME TypeOK, LaneInv, NEW L, Demotes(L), dials' = dials,
           warmup' = "stopped" <=> warmup = "stopped",
           \A l \in Lanes : state'[l] = "draining" => inFlight'[l] > 0
    PROVE  LaneInv'
<1>1. disposed' <=> disposed
  BY DEF disposed
<1>2. \A l \in Lanes : Kept(l) \/ Retired(l)
  BY DEF Demotes
<1>3. NoLaneIsForgotten'
  <2>1. ASSUME NEW l \in Lanes, state'[l] = "dead", ~ disposed PROVE timer'[l]
    <3>1. CASE Kept(l)
      BY <2>1, <3>1 DEF Kept, LaneInv, NoLaneIsForgotten
    <3>2. CASE Retired(l)
      BY <2>1, <3>2, Zenon DEF Retired
    <3>3. QED
      BY <1>2, <3>1, <3>2
  <2>2. ASSUME NEW l \in Lanes, state'[l] = "connecting" PROVE \E d \in dials' : d.lane = l
    <3>1. Kept(l)
      BY <1>2, <2>2 DEF Retired
    <3>2. QED
      BY <2>2, <3>1 DEF Kept, LaneInv, NoLaneIsForgotten
  <2>3. QED
    BY <1>1, <2>1, <2>2 DEF NoLaneIsForgotten
<1>4. DrainingHasWork'
  BY DEF DrainingHasWork
<1>5. StoppedIsDead'
  <2>1. ASSUME disposed, NEW l \in Lanes PROVE state'[l] = "dead" /\ ~ timer'[l]
    <3>1. state[l] = "dead" /\ ~ timer[l]
      BY <2>1 DEF LaneInv, StoppedIsDead
    <3>2. Kept(l)
      BY <1>2, <3>1 DEF Retired
    <3>3. QED
      BY <3>1, <3>2 DEF Kept
  <2>2. QED
    BY <1>1, <2>1 DEF StoppedIsDead
<1>6. QED
  BY <1>3, <1>4, <1>5 DEF LaneInv

\* The same for a step that leaves the loads alone.
LEMMA DemoteLanesOnly ==
    ASSUME TypeOK, LaneInv, NEW L, Demotes(L),
           UNCHANGED <<statVars, dials, streams, warmVars, redialed>>
    PROVE  LaneInv'
<1>1. \A l \in Lanes : state'[l] = "draining" => inFlight'[l] > 0
  <2>1. \A l \in Lanes : state'[l] = "draining" => state[l] = "draining"
    BY DEF Demotes, Kept, Retired
  <2>2. QED
    BY <2>1 DEF LaneInv, DrainingHasWork, statVars
<1>2. QED
  BY <1>1, DemoteLanes DEF warmVars

LEMMA OpenLanes ==
    ASSUME TypeOK, LaneInv, NEW L \in SUBSET Lanes, Open(L), ~ disposed, ~ disposed',
           \A l \in Lanes : timer'[l] = timer[l] \/ l \in L
    PROVE  LaneInv'
<1>1. /\ dials \subseteq dials'
      /\ \A l \in ToOpen(L) : \E o \in dials' : o.lane = l
  BY OpenDials
<1>2. \A l \in Lanes : l \in ToOpen(L) => state'[l] = "connecting"
  BY DEF Open
<1>3. \A l \in Lanes : l \notin ToOpen(L) => state'[l] = state[l]
  BY DEF Open
<1>4. NoLaneIsForgotten'
  <2>1. ASSUME NEW l \in Lanes, state'[l] = "dead" PROVE timer'[l]
    <3>1. l \notin ToOpen(L) /\ state[l] = "dead"
      BY <1>2, <1>3, <2>1
    <3>2. l \notin L
      BY <3>1 DEF ToOpen, Usable
    <3>3. QED
      BY <3>1, <3>2 DEF LaneInv, NoLaneIsForgotten
  <2>2. ASSUME NEW l \in Lanes, state'[l] = "connecting" PROVE \E d \in dials' : d.lane = l
    BY <1>1, <1>3, <2>2 DEF LaneInv, NoLaneIsForgotten
  <2>3. QED
    BY <2>1, <2>2 DEF NoLaneIsForgotten
<1>5. DrainingHasWork'
  BY <1>2, <1>3 DEF LaneInv, DrainingHasWork, Open
<1>6. QED
  BY <1>4, <1>5 DEF LaneInv, StoppedIsDead

LEMMA SettleLanes ==
    ASSUME LoadInv, LaneInv, NEW st \in streams, ~ st.settled, NEW ok \in BOOLEAN,
           Settle(st, ok), NEW rest, \A r \in rest : r.settled,
           streams' = (streams \ {st}) \cup rest
    PROVE  LaneInv'
<1> USE DEF LoadInv
<1>1. inFlight' = [inFlight EXCEPT ![st.lane] = @ - 1] /\ st.lane \in Lanes
  BY DEF Settle, SettleLane, TypeOK, Streams
<1>2. inFlight[st.lane] >= 1 /\ inFlight \in [Lanes -> Nat]
  BY <1>1, Ended DEF TypeOK
<1>3. Demotes({st.lane})
  BY DemotingSteps DEF Settle
<1>4. ASSUME NEW l \in Lanes, state'[l] = "draining" PROVE inFlight'[l] > 0
  <2>1. state[l] = "draining"
    BY <1>3, <1>4 DEF Demotes, Kept, Retired
  <2>2. inFlight[l] > 0
    BY <2>1 DEF LaneInv, DrainingHasWork
  <2>3. CASE l # st.lane
    BY <1>1, <1>2, <2>2, <2>3
  <2>4. CASE l = st.lane
    <3>1. inFlight[l] # 1
      <4>1. SUFFICES ASSUME inFlight[l] = 1 PROVE FALSE
        OBVIOUS
      <4>2. Retire({st.lane}, {}, {})
        BY <2>1, <2>4, <4>1 DEF Settle, SettleLane
      <4>3. state'[l] = "dead"
        BY <2>1, <2>4, <4>2 DEF Retire
      <4>4. QED
        BY <1>4, <4>3
    <3>2. QED
      BY <1>1, <1>2, <2>2, <2>4, <3>1
  <2>5. QED
    BY <2>3, <2>4
<1>5. warmup' = "stopped" <=> warmup = "stopped"
  BY SettleWarmupTypes DEF Settle
<1>6. QED
  BY <1>3, <1>4, <1>5, DemoteLanes DEF Settle

LEMMA InitLanes == Init => LaneInv
<1> SUFFICES ASSUME Init PROVE LaneInv
  OBVIOUS
<1>1. \A l \in Lanes : \E o \in dials : o.lane = l
  <2>1. dials \in Dialings(Lanes, {})
    BY SessionsSuffice, Zenon DEF Init, Dialled
  <2>2. QED
    BY <2>1 DEF Dialings
<1>2. QED
  BY <1>1 DEF Init, LaneInv, NoLaneIsForgotten, DrainingHasWork, StoppedIsDead, disposed
LEMMA StepLanes == LoadInv /\ LaneInv /\ [Next]_vars => LaneInv'
<1> SUFFICES ASSUME LoadInv, LaneInv, [Next]_vars PROVE LaneInv'
  OBVIOUS
<1>t. TypeOK
  BY DEF LoadInv
<1>1. ASSUME NEW l \in Lanes, Reconnect(l) PROVE LaneInv'
  <2>1. ~ disposed
    BY <1>1 DEF Reconnect, LaneInv, StoppedIsDead
  <2>2. ~ disposed' /\ {l} \in SUBSET Lanes /\ Open({l})
    BY <1>1, <2>1 DEF Reconnect, warmVars, disposed
  <2>3. \A k \in Lanes : timer'[k] = timer[k] \/ k \in {l}
    BY <1>t, <1>1 DEF Reconnect, TypeOK
  <2>4. QED
    BY <1>t, <2>1, <2>2, <2>3, OpenLanes
<1>2. ASSUME NEW d \in dials, DialEnds(d), d.lane \in Lanes,
             \/ state'[d.lane] = "dead" /\ (timer'[d.lane] \/ disposed)
                   /\ (disposed => ~ timer'[d.lane])
             \/ state'[d.lane] = "ready" /\ ~ disposed
             \/ state'[d.lane] = state[d.lane] /\ timer'[d.lane] = timer[d.lane] /\ disposed,
             \A l \in Lanes \ {d.lane} : state'[l] = state[l] /\ timer'[l] = timer[l],
             \A l \in Lanes : inFlight'[l] = inFlight[l] \/ state'[l] = "ready"
      PROVE  LaneInv'
  <2>1. dials' = dials \ {d} /\ (disposed' <=> disposed)
    BY <1>2 DEF DialEnds, disposed
  <2>2. NoLaneIsForgotten'
    <3>1. ASSUME NEW l \in Lanes, state'[l] = "dead", ~ disposed PROVE timer'[l]
      BY <1>2, <3>1 DEF LaneInv, NoLaneIsForgotten
    <3>2. ASSUME NEW l \in Lanes, state'[l] = "connecting" PROVE \E e \in dials' : e.lane = l
      <4>1. l # d.lane
        BY <1>2, <3>2 DEF LaneInv, StoppedIsDead
      <4>2. QED
        BY <1>2, <2>1, <3>2, <4>1 DEF LaneInv, NoLaneIsForgotten
    <3>3. QED
      BY <2>1, <3>1, <3>2 DEF NoLaneIsForgotten
  <2>3. DrainingHasWork'
    BY <1>2 DEF LaneInv, DrainingHasWork
  <2>4. StoppedIsDead'
    BY <1>2, <2>1 DEF LaneInv, StoppedIsDead
  <2>5. QED
    BY <2>2, <2>3, <2>4 DEF LaneInv
<1>3. ASSUME NEW d \in dials, DialFails(d) PROVE LaneInv'
  <2>1. d.lane \in Lanes
    BY <1>t DEF TypeOK, Owned
  <2>2. timer'[d.lane] = (timer[d.lane] \/ ~ disposed)
    BY <1>t, <1>3, <2>1, Zenon DEF DialFails, TypeOK
  <2>3. disposed => ~ timer[d.lane]
    BY <2>1 DEF LaneInv, StoppedIsDead
  <2>4. /\ state'[d.lane] = "dead" /\ UNCHANGED inFlight /\ DialEnds(d)
        /\ \A l \in Lanes \ {d.lane} : state'[l] = state[l]
    BY <1>t, <1>3, <2>1 DEF DialFails, TypeOK
  <2>5. \A l \in Lanes \ {d.lane} : timer'[l] = timer[l]
    BY <1>t, <1>3, <2>1, Zenon DEF DialFails, TypeOK
  <2>6. QED
    BY <1>2, <2>1, <2>2, <2>3, <2>4, <2>5
<1>4. ASSUME NEW d \in dials, DialSucceeds(d) PROVE LaneInv'
  <2>1. d.lane \in Lanes /\ DialEnds(d) /\ UNCHANGED timer
    BY <1>t, <1>4 DEF TypeOK, Owned, DialSucceeds
  <2>2. CASE disposed /\ UNCHANGED <<alive, state, session, inFlight, streams>>
    BY <1>2, <2>1, <2>2
  <2>3. ASSUME ~ disposed, Ready(d),
               UNCHANGED inFlight \/ inFlight' = [inFlight EXCEPT ![d.lane] = @ + 1]
        PROVE  LaneInv'
    <3>1. state'[d.lane] = "ready" /\ \A l \in Lanes \ {d.lane} : state'[l] = state[l]
      BY <1>t, <2>1, <2>3 DEF Ready, TypeOK
    <3>2. \A l \in Lanes \ {d.lane} : inFlight'[l] = inFlight[l]
      BY <1>t, <2>1, <2>3 DEF TypeOK
    <3>3. QED
      BY <1>2, <2>1, <2>3, <3>1, <3>2
  <2>4. QED
    BY <1>4, <2>2, <2>3 DEF DialSucceeds, Connect, disposed
<1>5. ASSUME NEW o \in alive, SessionLost(o) \/ SessionFails(o) PROVE LaneInv'
  <2>1. Demotes({o.lane})
    BY <1>t, <1>5, DemotingSteps
  <2>2. QED
    BY <1>t, <1>5, <2>1, DemoteLanesOnly DEF SessionLost, SessionFails
<1>6. ASSUME NEW o \in closing, CloseEvent(o) PROVE LaneInv'
  <2>1. Demotes({o.lane})
    BY <1>t, <1>6, DemotingSteps
  <2>2. QED
    BY <1>t, <1>6, <2>1, DemoteLanesOnly DEF CloseEvent
<1>7. ASSUME NEW o \in alive, Goaway(o) PROVE LaneInv'
  <2>1. o.lane \in Lanes /\ {o.lane} \in SUBSET Lanes
    BY <1>t DEF TypeOK, Owned
  <2>2. CASE Retire({o.lane}, {}, {})
    <3>1. Demotes({o.lane})
      BY <1>t, <2>1, <2>2, RetireDemotes
    <3>2. QED
      BY <1>t, <1>7, <3>1, DemoteLanesOnly DEF Goaway
  <2>3. CASE /\ inFlight[o.lane] > 0
             /\ state' = [state EXCEPT ![o.lane] = "draining"]
             /\ UNCHANGED <<session, timer, alive, closing>>
    <3>1. state[o.lane] # "dead" /\ UNCHANGED <<dials, inFlight, warmup, timer>>
      BY <1>7, <2>3 DEF Goaway, statVars, warmVars
    <3>2. \A l \in Lanes : state'[l] = IF l = o.lane THEN "draining" ELSE state[l]
      BY <1>t, <2>1, <2>3 DEF TypeOK
    <3>3. ~ disposed
      BY <2>1, <3>1 DEF LaneInv, StoppedIsDead
    <3>4. QED
      BY <2>3, <3>1, <3>2, <3>3 DEF LaneInv, NoLaneIsForgotten, DrainingHasWork, StoppedIsDead, disposed
  <2>4. QED
    BY <1>7, <2>2, <2>3 DEF Goaway
<1>8. ASSUME NEW l \in Usable, NEW r \in Requests, Send(r, l) PROVE LaneInv'
  <2>1. l \in Lanes /\ {l} \in SUBSET Lanes
    BY DEF Usable
  <2>2. UNCHANGED <<measured, stale, dials, warmVars, redialed>>
    BY <1>8 DEF Send
  <2>3. CASE Retire({l}, {}, {}) /\ UNCHANGED <<streams, inFlight>>
    <3>1. Demotes({l})
      BY <1>t, <2>1, <2>3, RetireDemotes
    <3>2. QED
      BY <1>t, <2>2, <2>3, <3>1, DemoteLanesOnly DEF statVars
  <2>4. CASE inFlight' = [inFlight EXCEPT ![l] = @ + 1] /\ UNCHANGED <<laneVars, alive, closing>>
    <3>1. \A k \in Lanes : inFlight'[k] >= inFlight[k] /\ inFlight[k] \in Nat /\ inFlight'[k] \in Nat
      BY <1>t, <2>1, <2>4 DEF TypeOK
    <3>2. UNCHANGED <<state, timer, dials, warmup>>
      BY <2>2, <2>4 DEF laneVars, warmVars
    <3>3. DrainingHasWork'
      BY <3>1, <3>2 DEF LaneInv, DrainingHasWork
    <3>4. QED
      BY <3>2, <3>3 DEF LaneInv, NoLaneIsForgotten, StoppedIsDead, disposed
  <2>5. QED
    BY <1>8, <2>3, <2>4 DEF Send
<1>9. ASSUME NEW st \in streams, CloseStream(st) PROVE LaneInv'
  <2>1. PICK rest : rest = {}
    OBVIOUS
  <2>2. ASSUME ~ st.settled, NEW ok \in BOOLEAN, Settle(st, ok) PROVE LaneInv'
    <3>1. streams' = (streams \ {st}) \cup rest /\ \A r \in rest : r.settled
      BY <1>9, <2>1 DEF CloseStream
    <3>2. QED
      BY <2>2, <3>1, SettleLanes
  <2>3. ASSUME UNCHANGED <<laneVars, statVars, dials, alive, closing, warmVars, redialed>>
        PROVE  LaneInv'
    BY <2>3 DEF laneVars, statVars, warmVars,
       LaneInv, NoLaneIsForgotten, DrainingHasWork, StoppedIsDead, disposed
  <2>4. QED
    BY <1>9, <2>2, <2>3 DEF CloseStream
<1>10. ASSUME NEW st \in streams, Abort(st) PROVE LaneInv'
  <2> DEFINE rest == {[st EXCEPT !.settled = TRUE] : k \in {st.kind} \cap {"send"}}
  <2>1. \A r \in rest : r.settled
    BY <1>t DEF TypeOK, Streams
  <2>2. ~ st.settled /\ streams' = (streams \ {st}) \cup rest /\ Settle(st, FALSE)
    BY <1>10 DEF Abort
  <2> HIDE DEF rest
  <2>3. \A ok \in BOOLEAN : Settle(st, ok) => LaneInv'
    BY <2>1, <2>2, SettleLanes
  <2>4. QED
    BY <2>2, <2>3
<1>11. ASSUME Tick PROVE LaneInv'
  <2>1. Demotes(Usable)
    BY <1>t, <1>11, DemotingSteps
  <2>2. QED
    BY <1>t, <1>11, <2>1, DemoteLanesOnly DEF Tick
<1>12. ASSUME Warm PROVE LaneInv'
  <2>1. /\ ~ disposed /\ ~ disposed' /\ Open(Lanes)
        /\ \A k \in Lanes : timer'[k] = timer[k]
    BY <1>12 DEF Warm, disposed
  <2>2. QED
    BY <1>t, <2>1, OpenLanes
<1>13. ASSUME AllOpened PROVE LaneInv'
  <2>1. /\ UNCHANGED <<state, timer, dials>> /\ ~ disposed /\ ~ disposed'
    BY <1>13 DEF AllOpened, laneVars, disposed
  <2>2. \A k \in Lanes : inFlight'[k] >= inFlight[k] /\ inFlight[k] \in Nat /\ inFlight'[k] \in Nat
    BY <1>t, <1>13 DEF AllOpened, TypeOK
  <2>3. DrainingHasWork'
    BY <2>1, <2>2 DEF LaneInv, DrainingHasWork
  <2>4. QED
    BY <2>1, <2>3 DEF LaneInv, NoLaneIsForgotten, StoppedIsDead
<1>14. ASSUME Stop PROVE LaneInv'
  BY <1>14 DEF Stop, LaneInv, NoLaneIsForgotten, DrainingHasWork, StoppedIsDead, disposed
<1>15. CASE UNCHANGED vars
  BY <1>15 DEF vars, laneVars, statVars, warmVars,
     LaneInv, NoLaneIsForgotten, DrainingHasWork, StoppedIsDead, disposed
<1>16. QED
  BY <1>1, <1>3, <1>4, <1>5, <1>6, <1>7, <1>8, <1>9, <1>10, <1>11, <1>12, <1>13, <1>14, <1>15
     DEF Next

LEMMA LanesAlways == Spec => []LaneInv
BY InitLanes, StepLanes, LoadAlways, PTL DEF Spec

\* Whichever event brought a lane down, and whatever else was under way, its
\* timer is set or its dial is out.
THEOREM NoneForgotten == Spec => []NoLaneIsForgotten
<1>1. LaneInv => NoLaneIsForgotten
  BY DEF LaneInv
<1>2. QED
  BY <1>1, LanesAlways, PTL
-----------------------------------------------------------------------------
(* Third invariant: until a lane is dialled over a session it still has, what *)
(* is about a lane is about its present session.                              *)

DialsAreAlone ==
    \A d \in dials :
        /\ session[d.lane] = None
        /\ disposed \/ state[d.lane] = "connecting"
        /\ \A o \in closing : o.lane # d.lane
        /\ \A st \in streams : st.lane # d.lane
        /\ \A e \in dials : e # d => e.lane # d.lane

AliveIsOwned == \A o \in alive : session[o.lane] = o.session /\ ~ disposed

StreamsAreOwned ==
    \A l \in Lanes : state[l] \in {"ready", "draining"} =>
        \A st \in streams : st.lane = l => st.session = session[l]

FreshMeasures ==
    \A l \in Lanes : /\ state[l] = "connecting" => ~ measured[l]
                     /\ state[l] = "ready" => ~ (measured[l] /\ stale[l])

Links == DialsAreAlone /\ AliveIsOwned /\ StreamsAreOwned

Clean == redialed \/ (Links /\ FreshMeasures)

\* A lane with an established session, one that closes, or a stream is not being
\* dialled.
LEMMA NotDialled ==
    ASSUME TypeOK, Links, NEW d \in dials
    PROVE  /\ \A o \in alive : o.lane # d.lane
           /\ \A o \in closing : o.lane # d.lane
           /\ \A st \in streams : st.lane # d.lane
           /\ \A l \in Usable : l # d.lane
<1>1. session[d.lane] = None /\ None \notin Sessions
  BY LaneAssumption DEF Links, DialsAreAlone, Sessions
<1>2. ASSUME NEW o \in alive PROVE o.lane # d.lane
  BY <1>1 DEF Links, AliveIsOwned, TypeOK, Owned
<1>3. ASSUME NEW l \in Usable PROVE l # d.lane
  BY <1>1 DEF Usable, TypeOK, Owned
<1>4. QED
  BY <1>2, <1>3 DEF Links, DialsAreAlone

LEMMA DemoteLinks ==
    ASSUME TypeOK, Links, NEW L, Demotes(L), dials' = dials,
           warmup' = "stopped" <=> warmup = "stopped",
           \A d \in dials : d.lane \notin L,
           \A st \in streams' : \E s \in streams : s.lane = st.lane /\ s.session = st.session
    PROVE  Links'
<1>1. disposed' <=> disposed
  BY DEF disposed
<1>2. \A l \in Lanes : Kept(l) \/ (l \in L /\ Retired(l))
  BY DEF Demotes
<1>3. alive' \subseteq alive /\ closing' \subseteq closing \cup alive
  BY DEF Demotes
<1>4. DialsAreAlone'
  <2>1. ASSUME NEW d \in dials
        PROVE  /\ session'[d.lane] = None
               /\ disposed \/ state'[d.lane] = "connecting"
               /\ \A o \in closing' : o.lane # d.lane
               /\ \A st \in streams' : st.lane # d.lane
               /\ \A e \in dials : e # d => e.lane # d.lane
    <3>1. d.lane \in Lanes
      BY DEF TypeOK, Owned
    <3>2. Kept(d.lane)
      BY <1>2, <3>1
    <3>3. session'[d.lane] = None /\ (disposed \/ state'[d.lane] = "connecting")
      BY <3>2 DEF Kept, Links, DialsAreAlone
    <3>4. QED
      BY <1>3, <3>3, NotDialled DEF Links, DialsAreAlone
  <2>2. QED
    BY <1>1, <2>1 DEF DialsAreAlone
<1>5. AliveIsOwned'
  <2>1. ASSUME NEW o \in alive' PROVE session'[o.lane] = o.session /\ ~ disposed
    <3>1. o \in alive /\ o.lane \in Lanes /\ session[o.lane] = o.session /\ ~ disposed
      BY <1>3 DEF Links, AliveIsOwned, TypeOK, Owned
    <3>2. ~ Retired(o.lane)
      BY <2>1, <3>1 DEF Retired
    <3>3. QED
      BY <1>2, <3>1, <3>2 DEF Kept
  <2>2. QED
    BY <1>1, <2>1 DEF AliveIsOwned
<1>6. StreamsAreOwned'
  <2>1. ASSUME NEW l \in Lanes, state'[l] \in {"ready", "draining"},
               NEW st \in streams', st.lane = l
        PROVE  st.session = session'[l]
    <3>1. Kept(l)
      BY <1>2, <2>1 DEF Retired
    <3>2. PICK s \in streams : s.lane = st.lane /\ s.session = st.session
      OBVIOUS
    <3>3. QED
      BY <2>1, <3>1, <3>2 DEF Kept, Links, StreamsAreOwned
  <2>2. QED
    BY <2>1 DEF StreamsAreOwned
<1>7. QED
  BY <1>4, <1>5, <1>6 DEF Links

LEMMA DemoteMeasures ==
    ASSUME TypeOK, FreshMeasures, NEW L, Demotes(L), UNCHANGED <<measured, stale>>
    PROVE  FreshMeasures'
<1>1. ASSUME NEW l \in Lanes
      PROVE  /\ state'[l] = "connecting" => ~ measured'[l]
             /\ state'[l] = "ready" => ~ (measured'[l] /\ stale'[l])
  <2>1. CASE Kept(l)
    BY <2>1, Zenon DEF Kept, FreshMeasures
  <2>2. CASE Retired(l)
    BY <2>2 DEF Retired
  <2>3. QED
    BY <2>1, <2>2 DEF Demotes
<1>2. QED
  BY <1>1 DEF FreshMeasures

LEMMA DemoteClean ==
    ASSUME TypeOK, Clean, NEW L, Demotes(L),
           UNCHANGED <<statVars, dials, streams, warmVars, redialed>>,
           Links => \A d \in dials : d.lane \notin L
    PROVE  Clean'
<1>1. CASE redialed
  BY <1>1 DEF Clean
<1>2. CASE Links /\ FreshMeasures
  <2>1. Links'
    <3>1. /\ dials' = dials /\ streams' = streams /\ warmup' = warmup
      BY DEF warmVars
    <3>2. QED
      BY <1>2, <3>1, DemoteLinks
  <2>2. FreshMeasures'
    BY <1>2, DemoteMeasures DEF statVars
  <2>3. QED
    BY <2>1, <2>2 DEF Clean
<1>3. QED
  BY <1>1, <1>2 DEF Clean
LEMMA OpenClean ==
    ASSUME TypeOK, Clean, NEW L \in SUBSET Lanes, Open(L), ~ disposed, ~ disposed'
    PROVE  Clean'
<1> SUFFICES ASSUME ~ redialed' PROVE Clean'
  BY DEF Clean
<1>1. /\ UNCHANGED <<session, alive, closing, streams>>
      /\ ~ redialed
      /\ \A l \in ToOpen(L) : session[l] = None /\ ~ Unheard(l)
  BY DEF Open
<1>2. Links /\ FreshMeasures
  BY <1>1 DEF Clean
<1>3. /\ \A o \in dials' \ dials : o.lane \in ToOpen(L)
      /\ \A o, a \in dials' \ dials : o # a => o.lane # a.lane
  BY OpenDials
<1>4. /\ \A l \in Lanes : l \in ToOpen(L) => state'[l] = "connecting"
      /\ \A l \in Lanes : l \notin ToOpen(L) => state'[l] = state[l]
  BY DEF Open
<1>5. None \notin Sessions
  BY LaneAssumption DEF Sessions
<1>6. DialsAreAlone'
  <2>1. ASSUME NEW d \in dials', d \in dials
        PROVE  /\ session'[d.lane] = None
               /\ state'[d.lane] = "connecting"
               /\ \A o \in closing' : o.lane # d.lane
               /\ \A st \in streams' : st.lane # d.lane
               /\ \A e \in dials' : e # d => e.lane # d.lane
    <3>1. d.lane \in Lanes /\ state[d.lane] = "connecting" /\ d.lane \notin ToOpen(L)
      BY <1>2, <2>1 DEF TypeOK, Owned, Links, DialsAreAlone, ToOpen
    <3>2. QED
      BY <1>1, <1>2, <1>3, <1>4, <2>1, <3>1 DEF Links, DialsAreAlone
  <2>2. ASSUME NEW d \in dials' \ dials
        PROVE  /\ session'[d.lane] = None
               /\ state'[d.lane] = "connecting"
               /\ \A o \in closing' : o.lane # d.lane
               /\ \A st \in streams' : st.lane # d.lane
               /\ \A e \in dials' : e # d => e.lane # d.lane
    <3>1. d.lane \in ToOpen(L) /\ d.lane \in Lanes
      BY <1>3, <2>2 DEF ToOpen
    <3>2. ASSUME NEW st \in streams, st.lane = d.lane PROVE FALSE
      <4>1. [lane |-> d.lane, session |-> st.session] \in alive
        BY <1>1, <3>1, <3>2 DEF Unheard
      <4>2. session[d.lane] = st.session /\ st.session \in Sessions
        BY <1>2, <4>1 DEF Links, AliveIsOwned, TypeOK, Owned
      <4>3. QED
        BY <1>1, <1>5, <3>1, <4>2
    <3>3. \A e \in dials' : e # d => e.lane # d.lane
      <4>1. ASSUME NEW e \in dials PROVE e.lane # d.lane
        <5>1. state[e.lane] = "connecting"
          BY <1>2 DEF Links, DialsAreAlone
        <5>2. QED
          BY <3>1, <5>1 DEF ToOpen
      <4>2. QED
        BY <1>3, <4>1
    <3>4. QED
      BY <1>1, <1>4, <3>1, <3>2, <3>3 DEF Unheard
  <2>3. QED
    BY <2>1, <2>2 DEF DialsAreAlone
<1>7. AliveIsOwned' /\ StreamsAreOwned'
  BY <1>1, <1>2, <1>4 DEF Links, AliveIsOwned, StreamsAreOwned
<1>8. FreshMeasures'
  <2>1. ASSUME NEW l \in Lanes, l \in ToOpen(L)
        PROVE  /\ state'[l] = "connecting" => ~ measured'[l]
               /\ state'[l] = "ready" => ~ (measured'[l] /\ stale'[l])
    <3>1. ~ measured'[l]
      BY <2>1, Zenon DEF Open, StillMeasured
    <3>2. QED
      BY <3>1
  <2>2. ASSUME NEW l \in Lanes, l \notin ToOpen(L)
        PROVE  /\ state'[l] = "connecting" => ~ measured'[l]
               /\ state'[l] = "ready" => ~ (measured'[l] /\ stale'[l])
    <3>1. (measured'[l] <=> measured[l]) /\ (stale'[l] <=> stale[l])
      BY <2>2, Zenon DEF Open, StillMeasured
    <3>2. state'[l] = state[l]
      BY <1>4, <2>2
    <3>3. QED
      BY <1>2, <3>1, <3>2, Zenon DEF FreshMeasures
  <2>3. QED
    BY <2>1, <2>2 DEF FreshMeasures
<1>9. QED
  BY <1>6, <1>7, <1>8 DEF Clean, Links

LEMMA SettleClean ==
    ASSUME TypeOK, LaneInv, Clean, NEW st \in streams, NEW ok \in BOOLEAN, Settle(st, ok),
           NEW rest, \A r \in rest : r.lane = st.lane /\ r.session = st.session,
           streams' = (streams \ {st}) \cup rest
    PROVE  Clean'
<1>1. st.lane \in Lanes /\ redialed' = redialed
  BY DEF TypeOK, Streams, Settle
<1>2. CASE redialed
  BY <1>1, <1>2 DEF Clean
<1>3. CASE Links /\ FreshMeasures
  <2>1. Demotes({st.lane}) /\ dials' = dials
    BY DemotingSteps DEF Settle
  <2>2. warmup' = "stopped" <=> warmup = "stopped"
    BY SettleWarmupTypes DEF Settle
  <2>3. \A d \in dials : d.lane \notin {st.lane}
    BY <1>3, NotDialled
  <2>4. Links'
    <3>1. \A x \in streams' : \E s \in streams : s.lane = x.lane /\ s.session = x.session
      OBVIOUS
    <3>2. QED
      BY <1>3, <2>1, <2>2, <2>3, <3>1, DemoteLinks
  <2>5. CASE UNCHANGED <<measured, stale>>
    BY <1>3, <2>1, <2>4, <2>5, DemoteMeasures DEF Clean
  <2>6. CASE Record(st)
    <3>1. ASSUME NEW l \in Lanes, l # st.lane
          PROVE  /\ state'[l] = "connecting" => ~ measured'[l]
                 /\ state'[l] = "ready" => ~ (measured'[l] /\ stale'[l])
      <4>1. measured'[l] = measured[l] /\ stale'[l] = stale[l]
        BY <2>6, <3>1, Zenon DEF Record, TypeOK
      <4>2. state'[l] = state[l] \/ state'[l] = "dead"
        BY <2>1 DEF Demotes, Kept, Retired
      <4>3. CASE state'[l] = "dead"
        BY <4>3
      <4>4. CASE state'[l] = state[l]
        BY <1>3, <4>1, <4>4, Zenon DEF FreshMeasures
      <4>5. QED
        BY <4>2, <4>3, <4>4
    <3>2. /\ state'[st.lane] # "connecting"
          /\ state'[st.lane] = "ready" => ~ stale'[st.lane]
      <4>1. state[st.lane] # "connecting"
        BY <1>1, <1>3, NotDialled DEF LaneInv, NoLaneIsForgotten
      <4>2. state'[st.lane] = state[st.lane] \/ state'[st.lane] = "dead"
        BY <1>1, <2>1 DEF Demotes, Kept, Retired
      <4>3. ASSUME state'[st.lane] = "ready" PROVE ~ stale'[st.lane]
        <5>1. state[st.lane] = "ready"
          BY <4>2, <4>3
        <5>2. st.session = session[st.lane]
          BY <1>1, <1>3, <5>1 DEF Links, StreamsAreOwned
        <5>3. stale'[st.lane] <=> state[st.lane] = "connecting" \/ st.session # session[st.lane]
          BY <1>1, <2>6, Zenon DEF Record, TypeOK
        <5>4. QED
          BY <4>1, <5>2, <5>3
      <4>4. QED
        BY <4>1, <4>2, <4>3
    <3>3. FreshMeasures'
      BY <1>1, <3>1, <3>2, Zenon DEF FreshMeasures
    <3>4. QED
      BY <2>4, <3>3 DEF Clean
  <2>7. QED
    BY <2>5, <2>6 DEF Settle
<1>4. QED
  BY <1>2, <1>3 DEF Clean
LEMMA ConnectClean ==
    ASSUME TypeOK, Clean, NEW d \in dials, DialSucceeds(d) \/ DialFails(d)
    PROVE  Clean'
<1>1. /\ dials' = dials \ {d} /\ UNCHANGED <<measured, stale, warmup, redialed, closing>>
      /\ d.lane \in Lanes /\ d.session \in Sessions
  BY DEF DialSucceeds, DialFails, DialEnds, Connect, TypeOK, Owned
<1>2. CASE redialed
  BY <1>1, <1>2 DEF Clean
<1>3. ASSUME Links, FreshMeasures PROVE Clean'
  <2>1. /\ session[d.lane] = None /\ None \notin Sessions
        /\ \A e \in dials' : e.lane # d.lane
        /\ \A o \in alive : o.lane # d.lane
        /\ \A st \in streams : st.lane # d.lane
    BY <1>1, <1>3, NotDialled, LaneAssumption DEF Links, DialsAreAlone, Sessions
  <2>2. ASSUME DialFails(d) PROVE Clean'
    <3>1. /\ UNCHANGED <<alive, streams, closing, session>>
          /\ \A l \in Lanes : state'[l] = IF l = d.lane THEN "dead" ELSE state[l]
      BY <1>1, <2>1, <2>2 DEF DialFails, TypeOK
    <3>2. DialsAreAlone'
      BY <1>1, <1>3, <2>1, <3>1 DEF Links, DialsAreAlone, disposed, TypeOK, Owned
    <3>3. AliveIsOwned' /\ StreamsAreOwned'
      BY <1>1, <1>3, <3>1 DEF Links, AliveIsOwned, StreamsAreOwned, disposed
    <3>4. FreshMeasures'
      BY <1>1, <1>3, <3>1 DEF FreshMeasures
    <3>5. QED
      BY <3>2, <3>3, <3>4 DEF Clean, Links
  <2>3. ASSUME UNCHANGED <<alive, state, session, streams>> PROVE Clean'
    <3>1. DialsAreAlone'
      BY <1>1, <1>3, <2>1, <2>3 DEF Links, DialsAreAlone, disposed
    <3>2. AliveIsOwned' /\ StreamsAreOwned' /\ FreshMeasures'
      BY <1>1, <1>3, <2>3 DEF Links, AliveIsOwned, StreamsAreOwned, FreshMeasures, disposed
    <3>3. QED
      BY <3>1, <3>2 DEF Clean, Links
  <2>4. ASSUME Ready(d), ~ disposed,
               \A st \in streams' : st \in streams \/ (st.lane = d.lane /\ st.session = d.session)
        PROVE  Clean'
    <3>1. /\ state[d.lane] = "connecting"
          /\ alive' = alive \cup {d}
          /\ \A l \in Lanes : state'[l] = IF l = d.lane THEN "ready" ELSE state[l]
          /\ \A l \in Lanes : session'[l] = IF l = d.lane THEN d.session ELSE session[l]
      BY <1>1, <1>3, <2>4 DEF Ready, TypeOK, Links, DialsAreAlone
    <3>2. DialsAreAlone'
      BY <1>1, <1>3, <2>1, <2>4, <3>1 DEF Links, DialsAreAlone, disposed, TypeOK, Owned
    <3>3. AliveIsOwned'
      BY <1>1, <1>3, <2>1, <2>4, <3>1 DEF Links, AliveIsOwned, disposed, TypeOK, Owned
    <3>4. StreamsAreOwned'
      BY <1>1, <1>3, <2>1, <2>4, <3>1 DEF Links, StreamsAreOwned
    <3>5. FreshMeasures'
      BY <1>1, <1>3, <3>1 DEF FreshMeasures
    <3>6. QED
      BY <3>2, <3>3, <3>4, <3>5 DEF Clean, Links
  <2>5. ASSUME DialSucceeds(d) PROVE Clean'
    <3>1. CASE disposed /\ UNCHANGED <<alive, closing, state, session, inFlight, streams>>
      BY <2>3, <3>1
    <3>2. CASE ~ disposed /\ Ready(d) /\ UNCHANGED streams
      BY <2>4, <3>2
    <3>3. CASE /\ warmup = "primed" /\ Ready(d)
               /\ streams' = streams \cup {[lane |-> d.lane, session |-> d.session, request |-> None,
                                            kind |-> "prime", settled |-> FALSE]}
      BY <2>4, <3>3 DEF disposed
    <3>4. QED
      BY <2>5, <3>1, <3>2, <3>3 DEF DialSucceeds, Connect
  <2>6. QED
    BY <2>2, <2>5
<1>4. QED
  BY <1>2, <1>3 DEF Clean

\* Requests that start on usable lanes, on their present sessions.
LEMMA StartClean ==
    ASSUME TypeOK, Clean,
           UNCHANGED <<laneVars, measured, stale, dials, alive, closing, redialed>>,
           disposed' <=> disposed,
           \A st \in streams' : st \in streams
                                \/ (st.lane \in Usable /\ st.session = session[st.lane])
    PROVE  Clean'
<1>1. CASE redialed
  BY <1>1 DEF Clean
<1>2. CASE Links /\ FreshMeasures
  <2>1. DialsAreAlone'
    BY <1>2, NotDialled DEF Links, DialsAreAlone, laneVars
  <2>2. AliveIsOwned' /\ StreamsAreOwned' /\ FreshMeasures'
    BY <1>2 DEF Links, AliveIsOwned, StreamsAreOwned, FreshMeasures, laneVars
  <2>3. QED
    BY <2>1, <2>2 DEF Clean, Links
<1>3. QED
  BY <1>1, <1>2 DEF Clean

LEMMA StopClean ==
    ASSUME TypeOK, Clean, Stop
    PROVE  Clean'
<1>1. /\ alive' = {o \in alive : o.session # session[o.lane]} /\ closing' = {}
      /\ state' = [l \in Lanes |-> "dead"] /\ session' = [l \in Lanes |-> None]
      /\ disposed' /\ UNCHANGED <<dials, streams, measured, stale, redialed>>
  BY DEF Stop, disposed, statVars
<1>2. CASE redialed
  BY <1>1, <1>2 DEF Clean
<1>3. CASE Links /\ FreshMeasures
  <2>1. alive' = {}
    BY <1>1, <1>3 DEF Links, AliveIsOwned
  <2>2. DialsAreAlone'
    BY <1>1, <1>3 DEF Links, DialsAreAlone, TypeOK, Owned
  <2>3. AliveIsOwned' /\ StreamsAreOwned' /\ FreshMeasures'
    BY <1>1, <2>1 DEF AliveIsOwned, StreamsAreOwned, FreshMeasures
  <2>4. QED
    BY <2>2, <2>3 DEF Clean, Links
<1>4. QED
  BY <1>2, <1>3 DEF Clean

LEMMA GoawayClean ==
    ASSUME TypeOK, LaneInv, Clean, NEW o \in alive,
           state[o.lane] # "dead",
           state' = [state EXCEPT ![o.lane] = "draining"],
           UNCHANGED <<session, timer, alive, closing>>,
           UNCHANGED <<statVars, dials, streams, warmVars, redialed>>
    PROVE  Clean'
<1>1. CASE redialed
  BY <1>1 DEF Clean
<1>2. CASE Links /\ FreshMeasures
  <2>1. o.lane \in Lanes /\ \A d \in dials : d.lane # o.lane
    BY <1>2, NotDialled DEF TypeOK, Owned
  <2>2. state[o.lane] \in {"ready", "draining"}
    BY <2>1 DEF TypeOK, LaneInv, NoLaneIsForgotten
  <2>3. \A l \in Lanes : state'[l] = IF l = o.lane THEN "draining" ELSE state[l]
    BY <2>1 DEF TypeOK
  <2>4. DialsAreAlone'
    BY <1>2, <2>1, <2>3 DEF Links, DialsAreAlone, disposed, warmVars, TypeOK, Owned
  <2>5. AliveIsOwned' /\ StreamsAreOwned' /\ FreshMeasures'
    BY <1>2, <2>1, <2>2, <2>3 DEF Links, AliveIsOwned, StreamsAreOwned, FreshMeasures,
       disposed, warmVars, statVars
  <2>6. QED
    BY <2>4, <2>5 DEF Clean, Links
<1>3. QED
  BY <1>1, <1>2 DEF Clean
LEMMA InitClean == Init => Clean
<1> SUFFICES ASSUME Init PROVE Clean
  OBVIOUS
<1>1. /\ dials \subseteq [lane : Lanes, session : Sessions]
      /\ \A o, a \in dials : o # a => o.lane # a.lane
  <2>1. dials \in Dialings(Lanes, {})
    BY SessionsSuffice, Zenon DEF Init, Dialled
  <2>2. QED
    BY <2>1 DEF Dialings
<1>2. DialsAreAlone
  BY <1>1 DEF Init, DialsAreAlone
<1>3. AliveIsOwned /\ StreamsAreOwned /\ FreshMeasures
  BY DEF Init, AliveIsOwned, StreamsAreOwned, FreshMeasures
<1>4. QED
  BY <1>2, <1>3 DEF Clean, Links

LEMMA StepClean == LoadInv /\ LaneInv /\ Clean /\ [Next]_vars => Clean'
<1> SUFFICES ASSUME LoadInv, LaneInv, Clean, [Next]_vars PROVE Clean'
  OBVIOUS
<1>t. TypeOK
  BY DEF LoadInv
<1>1. ASSUME NEW l \in Lanes, Reconnect(l) PROVE Clean'
  <2>1. ~ disposed
    BY <1>1 DEF Reconnect, LaneInv, StoppedIsDead
  <2>2. ~ disposed' /\ {l} \in SUBSET Lanes /\ Open({l})
    BY <1>1, <2>1 DEF Reconnect, warmVars, disposed
  <2>3. QED
    BY <1>t, <2>1, <2>2, OpenClean
<1>2. ASSUME NEW o \in alive, SessionLost(o) \/ SessionFails(o) PROVE Clean'
  <2>1. Demotes({o.lane}) /\ UNCHANGED <<statVars, dials, streams, warmVars, redialed>>
    BY <1>t, <1>2, DemotingSteps DEF SessionLost, SessionFails
  <2>2. Links => \A d \in dials : d.lane \notin {o.lane}
    BY <1>t, NotDialled
  <2>3. QED
    BY <1>t, <2>1, <2>2, DemoteClean
<1>3. ASSUME NEW o \in closing, CloseEvent(o) PROVE Clean'
  <2>1. Demotes({o.lane}) /\ UNCHANGED <<statVars, dials, streams, warmVars, redialed>>
    BY <1>t, <1>3, DemotingSteps DEF CloseEvent
  <2>2. Links => \A d \in dials : d.lane \notin {o.lane}
    BY <1>t, NotDialled
  <2>3. QED
    BY <1>t, <2>1, <2>2, DemoteClean
<1>4. ASSUME NEW o \in alive, Goaway(o) PROVE Clean'
  <2>1. UNCHANGED <<statVars, dials, streams, warmVars, redialed>> /\ state[o.lane] # "dead"
    BY <1>4 DEF Goaway
  <2>2. CASE Retire({o.lane}, {}, {})
    <3>1. {o.lane} \in SUBSET Lanes
      BY <1>t DEF TypeOK, Owned
    <3>2. Demotes({o.lane})
      BY <1>t, <2>2, <3>1, RetireDemotes
    <3>3. Links => \A d \in dials : d.lane \notin {o.lane}
      BY <1>t, NotDialled
    <3>4. QED
      BY <1>t, <2>1, <3>2, <3>3, DemoteClean
  <2>3. CASE state' = [state EXCEPT ![o.lane] = "draining"] /\ UNCHANGED <<session, timer, alive, closing>>
    BY <1>t, <2>1, <2>3, GoawayClean
  <2>4. QED
    BY <1>4, <2>2, <2>3 DEF Goaway
<1>5. ASSUME NEW l \in Usable, NEW r \in Requests, Send(r, l) PROVE Clean'
  <2>1. UNCHANGED <<measured, stale, dials, warmVars, redialed>>
    BY <1>5 DEF Send
  <2>2. CASE Retire({l}, {}, {}) /\ UNCHANGED <<streams, inFlight>>
    <3>1. {l} \in SUBSET Lanes
      BY DEF Usable
    <3>2. Demotes({l})
      BY <1>t, <2>2, <3>1, RetireDemotes
    <3>3. Links => \A d \in dials : d.lane \notin {l}
      BY <1>t, NotDialled
    <3>4. QED
      BY <1>t, <2>1, <2>2, <3>2, <3>3, DemoteClean DEF statVars
  <2>3. CASE streams' = streams \cup {Stream(l, r, "send")} /\ UNCHANGED <<laneVars, alive, closing>>
    <3>1. Stream(l, r, "send").lane = l /\ Stream(l, r, "send").session = session[l]
      BY DEF Stream
    <3>2. disposed' <=> disposed
      BY <2>1 DEF warmVars, disposed
    <3>3. \A st \in streams' : st \in streams
                               \/ (st.lane \in Usable /\ st.session = session[st.lane])
      BY <2>3, <3>1
    <3>4. QED
      BY <1>t, <2>1, <2>3, <3>2, <3>3, StartClean
  <2>4. QED
    BY <1>5, <2>2, <2>3 DEF Send
<1>6. ASSUME NEW st \in streams, CloseStream(st) PROVE Clean'
  <2>1. PICK rest : rest = {}
    OBVIOUS
  <2>2. ASSUME NEW ok \in BOOLEAN, Settle(st, ok) PROVE Clean'
    <3>1. /\ streams' = (streams \ {st}) \cup rest
          /\ \A r \in rest : r.lane = st.lane /\ r.session = st.session
      BY <1>6, <2>1 DEF CloseStream
    <3>2. QED
      BY <1>t, <2>2, <3>1, SettleClean
  <2>3. ASSUME UNCHANGED <<laneVars, statVars, dials, alive, closing, warmVars, redialed>>
        PROVE  Clean'
    <3>1. \A x \in streams' : x \in streams
      BY <1>6 DEF CloseStream
    <3>2. QED
      BY <1>t, <2>3, <3>1, StartClean DEF statVars, warmVars, disposed
  <2>4. QED
    BY <1>6, <2>2, <2>3 DEF CloseStream
<1>7. ASSUME NEW st \in streams, Abort(st) PROVE Clean'
  <2> DEFINE rest == {[st EXCEPT !.settled = TRUE] : k \in {st.kind} \cap {"send"}}
  <2>1. \A r \in rest : r.lane = st.lane /\ r.session = st.session
    BY <1>t DEF TypeOK, Streams
  <2>2. streams' = (streams \ {st}) \cup rest /\ Settle(st, FALSE)
    BY <1>7 DEF Abort
  <2> HIDE DEF rest
  <2>3. \A ok \in BOOLEAN : Settle(st, ok) => Clean'
    BY <1>t, <2>1, <2>2, SettleClean
  <2>4. QED
    BY <2>2, <2>3
<1>8. ASSUME Tick PROVE Clean'
  <2>1. Demotes(Usable) /\ UNCHANGED <<statVars, dials, streams, warmVars, redialed>>
    BY <1>t, <1>8, DemotingSteps DEF Tick
  <2>2. Links => \A d \in dials : d.lane \notin Usable
    BY <1>t, NotDialled
  <2>3. QED
    BY <1>t, <2>1, <2>2, DemoteClean
<1>9. ASSUME Warm PROVE Clean'
  <2>1. ~ disposed /\ ~ disposed' /\ Open(Lanes)
    BY <1>9 DEF Warm, disposed
  <2>2. QED
    BY <1>t, <2>1, OpenClean
<1>10. ASSUME AllOpened PROVE Clean'
  <2>1. /\ UNCHANGED <<laneVars, measured, stale, dials, alive, closing, redialed>>
        /\ disposed' <=> disposed
    BY <1>10 DEF AllOpened, disposed
  <2>2. \A st \in streams' : st \in streams
                             \/ (st.lane \in Usable /\ st.session = session[st.lane])
    BY <1>10 DEF AllOpened, Stream
  <2>3. QED
    BY <1>t, <2>1, <2>2, StartClean
<1>11. CASE UNCHANGED vars
  <2>1. /\ UNCHANGED <<laneVars, measured, stale, dials, alive, closing, redialed, streams>>
        /\ disposed' <=> disposed
    BY <1>11 DEF vars, statVars, warmVars, disposed
  <2>2. QED
    BY <1>t, <2>1, StartClean
<1>12. QED
  BY <1>t, <1>1, <1>2, <1>3, <1>4, <1>5, <1>6, <1>7, <1>8, <1>9, <1>10, <1>11,
     ConnectClean, StopClean DEF Next

LEMMA CleanAlways == Spec => []Clean
BY InitClean, StepClean, LoadAlways, LanesAlways, PTL DEF Spec

\* Late closes, failed dials, maintenance and a stop in the middle of a dial leave
\* no connection behind that no lane owns.
THEOREM NoLeaks == Spec => []NoSocketLeaks
<1>1. Clean => NoSocketLeaks
  BY DEF Clean, Links, AliveIsOwned, NoSocketLeaks
<1>2. QED
  BY <1>1, CleanAlways, PTL

\* No answer of an earlier connection is taken for a measurement of this one.
THEOREM OwnMeasures == Spec => []MeasuredOnThisRoute
<1>1. Clean => MeasuredOnThisRoute
  BY DEF Clean, FreshMeasures, MeasuredOnThisRoute
<1>2. QED
  BY <1>1, CleanAlways, PTL
-----------------------------------------------------------------------------
(* Maintenance. *)

LEMMA AtMostOne ==
    ASSUME NEW S, IsFiniteSet(S), Cardinality(S) <= 1
    PROVE  S = {} \/ \E x : S = {x}
<1>1. Cardinality(S) \in Nat
  BY FS_CardinalityType
<1>2. Cardinality(S) = 0 \/ Cardinality(S) = 1
  BY <1>1
<1>3. QED
  BY <1>2, FS_EmptySet, FS_Singleton

\* Lanes that are not retired stay usable, and so do their sessions.
LEMMA RetireSpares ==
    ASSUME NEW L \in SUBSET Lanes, Retire(L, {}, {})
    PROVE  /\ Usable \ L \subseteq Usable'
           /\ \A o \in alive : o.lane \notin L => o \in alive'
<1>1. \A o \in alive : o.lane \notin L => o \in alive'
  BY DEF Retire
<1>2. ASSUME NEW l \in Usable \ L PROVE l \in Usable'
  <2>1. l \in Lanes /\ state'[l] = state[l] /\ session'[l] = session[l]
    BY <1>2 DEF Usable, Retire
  <2>2. QED
    BY <1>1, <1>2, <2>1 DEF Usable
<1>3. QED
  BY <1>1, <1>2

LEMMA TickServes ==
    ASSUME LoadInv, Tick
    PROVE  /\ Usable # {} => Usable' # {}
           /\ \A st \in streams :
                 ~ st.settled /\ [lane |-> st.lane, session |-> st.session] \in alive
                     => [lane |-> st.lane, session |-> st.session] \in alive'
<1>1. PICK old \in SUBSET Lanes, worn \in SUBSET Lanes :
         /\ Cardinality(old) <= 1 /\ old \subseteq Recyclable
         /\ Cardinality(worn) <= 1 /\ worn \subseteq Repairable(Usable \ old)
         /\ Retire(old \cup worn, {}, {})
  BY DEF Tick
<1>2. /\ Usable \ (old \cup worn) \subseteq Usable'
      /\ \A o \in alive : o.lane \notin old \cup worn => o \in alive'
  <2>1. old \cup worn \in SUBSET Lanes
    OBVIOUS
  <2>2. QED
    BY <1>1, <2>1, RetireSpares
<1>3. /\ old = {} \/ \E x : old = {x}
      /\ worn = {} \/ \E x : worn = {x}
  <2>1. IsFiniteSet(old) /\ IsFiniteSet(worn)
    BY FS_Subset, LaneAssumption
  <2>2. QED
    BY <1>1, <2>1, AtMostOne
<1>4. ASSUME Usable # {} PROVE Usable' # {}
  <2>1. CASE worn # {}
    <3>1. PICK l : worn = {l}
      BY <1>3, <2>1
    <3>2. PICK k \in (Usable \ old) \ {l} : TRUE
      BY <1>1, <3>1 DEF Repairable
    <3>3. QED
      BY <1>2, <3>1, <3>2
  <2>2. CASE worn = {} /\ old # {}
    <3>1. PICK l : old = {l}
      BY <1>3, <2>2
    <3>2. PICK k \in Usable \ {l} : TRUE
      BY <1>1, <3>1 DEF Recyclable
    <3>3. QED
      BY <1>2, <2>2, <3>1, <3>2
  <2>3. CASE worn = {} /\ old = {}
    BY <1>2, <1>4, <2>3
  <2>4. QED
    BY <2>1, <2>2, <2>3
<1>5. ASSUME NEW st \in streams, ~ st.settled PROVE st.lane \notin old \cup worn
  <2>1. st.lane \in Lanes /\ st \in Unsettled(st.lane)
    BY <1>5 DEF LoadInv, TypeOK, Streams, Unsettled
  <2>2. Exact(st.lane)
    BY <2>1 DEF LoadInv
  <2>3. inFlight[st.lane] # 0
    BY <2>1, <2>2, FS_EmptySet DEF Exact
  <2>4. QED
    BY <1>1, <2>3 DEF Recyclable, Repairable
<1>6. ASSUME NEW st \in streams, ~ st.settled,
             [lane |-> st.lane, session |-> st.session] \in alive
      PROVE  [lane |-> st.lane, session |-> st.session] \in alive'
  BY <1>2, <1>5, <1>6
<1>7. QED
  BY <1>4, <1>6

\* Recycling and repairing lanes, in one tick, costs neither a request nor the
\* last usable lane, however many lanes there are and whatever state they are in.
THEOREM ServesThroughout == Spec => MaintenanceKeepsServing
<1>1. LoadInv /\ [Next]_vars =>
        [Tick => /\ Usable # {} => Usable' # {}
                 /\ \A st \in streams :
                       ~ st.settled /\ [lane |-> st.lane, session |-> st.session] \in alive
                           => [lane |-> st.lane, session |-> st.session] \in alive']_vars
  BY TickServes
<1>2. QED
  BY <1>1, LoadAlways, PTL DEF Spec, MaintenanceKeepsServing
===============================================================================
