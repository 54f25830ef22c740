--------------------------- MODULE Receiving_proofs ---------------------------
(***************************************************************************)
(* How bots hear OpenChats.                                                *)
(*                                                                         *)
(* The chain (SquareReceive), for every number of events, breaks and       *)
(* chains and every timing of the watch.  No event is skipped because      *)
(* nothing that asks LINE, and nothing LINE has answered, starts beyond    *)
(* what has been heard (HeardInOrder).  The chain survives because each    *)
(* step of the client that takes its link away puts the next one in place. *)
(* The silence is bounded by what the watch has tried: each of its closes  *)
(* accounts for one cooldown (Ladder).                                     *)
(*                                                                         *)
(* The polls (FastPollSlots), for every set of bots, owners and rooms and  *)
(* every size of the pool.  One call of syncFastSquarePollers leads out of *)
(* none of a few sets of pools (Stable), so neither do the calls that      *)
(* follow from it nor a run of calls, in whatever order it takes the bots; *)
(* and the call for a bot leads into the set that settles it.  A handler   *)
(* changes what the calls read for the bots it then calls for.             *)
(***************************************************************************)
EXTENDS SquareReceive, FastPollSlots, FiniteSetTheorems, WellFoundedInduction, TLAPS

Job == [kind : {"reply"}, after : Tokens, upto : Tokens] \cup [kind : {"notice"}]

ChainTypes ==
    /\ posted \in Tokens /\ token \in Tokens
    /\ queue \in Seq(Job)
    /\ fetching \in Tokens \cup {None}
    /\ BagToSet(requests) \subseteq Tokens
    /\ BagToSet(delayed) \subseteq Tokens

\* All events up to the n-th have been heard, and nothing under way starts later.
HeardUpTo(n) ==
    /\ n <= posted
    /\ heard = 1..n
    /\ token <= n
    /\ \A t \in BagToSet(requests) \cup BagToSet(delayed) : t <= n
    /\ fetching # None => fetching <= n
    /\ \A i \in DOMAIN queue : queue[i].kind = "reply" =>
          queue[i].after <= n /\ queue[i].upto <= posted

HeardInOrder == \E n \in Tokens : HeardUpTo(n)

ChainInv == ChainTypes /\ HeardInOrder

-----------------------------------------------------------------------------
(* Bags and queues. *)

\* A bag that gains or loses a copy, as far as its elements go.
LEMMA BagFacts ==
    ASSUME NEW B, NEW t
    PROVE  /\ BagToSet(B (+) SetToBag({t})) = BagToSet(B) \cup {t}
           /\ BagToSet(B (-) SetToBag({t})) \subseteq BagToSet(B)
           /\ B (+) SetToBag({t}) # EmptyBag
           /\ BagToSet(SetToBag({t})) = {t}
           /\ SetToBag({t}) # EmptyBag
           /\ BagToSet(EmptyBag) = {}
<1>1. /\ BagToSet(B (+) SetToBag({t})) = BagToSet(B) \cup {t}
      /\ BagToSet(SetToBag({t})) = {t}
      /\ BagToSet(EmptyBag) = {}
  BY DEF BagToSet, SetToBag, (+), EmptyBag
<1>2. BagToSet(B (-) SetToBag({t})) \subseteq BagToSet(B)
  BY DEF BagToSet, (-)
<1>3. /\ B (+) SetToBag({t}) # EmptyBag
      /\ SetToBag({t}) # EmptyBag
  BY <1>1 DEF BagToSet
<1>4. QED
  BY <1>1, <1>2, <1>3

\* A queue after its head is taken, and with a job put at its end.
LEMMA QueueFacts ==
    ASSUME NEW q \in Seq(Job), NEW job \in Job
    PROVE  /\ Append(q, job) \in Seq(Job)
           /\ \A i \in DOMAIN Append(q, job) :
                 (i \in DOMAIN q /\ Append(q, job)[i] = q[i]) \/ Append(q, job)[i] = job
           /\ \A i \in DOMAIN q : i \in DOMAIN Append(q, job) /\ Append(q, job)[i] = q[i]
           /\ Len(q) + 1 \in DOMAIN Append(q, job) /\ Append(q, job)[Len(q) + 1] = job
<1>1. Len(q) \in Nat /\ DOMAIN q = 1..Len(q)
  OBVIOUS
<1>2. /\ Append(q, job) \in Seq(Job)
      /\ Len(Append(q, job)) = Len(q) + 1
      /\ DOMAIN Append(q, job) = 1 .. Len(q) + 1
      /\ \A i \in 1..Len(q) : Append(q, job)[i] = q[i]
      /\ Append(q, job)[Len(q) + 1] = job
  BY <1>1
<1>3. QED
  BY <1>1, <1>2

LEMMA TailFacts ==
    ASSUME NEW q \in Seq(Job), q # <<>>
    PROVE  /\ Tail(q) \in Seq(Job)
           /\ Head(q) = q[1] /\ 1 \in DOMAIN q /\ Head(q) \in Job
           /\ \A i \in DOMAIN Tail(q) : i + 1 \in DOMAIN q /\ Tail(q)[i] = q[i + 1]
           /\ \A i \in DOMAIN q : i = 1 \/ (i - 1 \in DOMAIN Tail(q) /\ Tail(q)[i - 1] = q[i])
<1>1. Len(q) \in Nat \ {0} /\ DOMAIN q = 1..Len(q)
  OBVIOUS
<1>2. /\ Tail(q) \in Seq(Job)
      /\ Len(Tail(q)) = Len(q) - 1
      /\ DOMAIN Tail(q) = 1 .. Len(q) - 1
      /\ \A i \in 1 .. Len(q) - 1 : Tail(q)[i] = q[i + 1]
  BY <1>1
<1>3. QED
  BY <1>1, <1>2

\* What an answer adds to the events heard.
LEMMA StreamedFacts ==
    ASSUME NEW n \in Nat, NEW after \in Nat, NEW upto \in Nat, after <= n
    PROVE  (1..n) \cup Streamed(after, upto) = 1 .. (IF upto > n THEN upto ELSE n)
BY DEF Streamed

-----------------------------------------------------------------------------
(* NothingSkipped. *)

\* A step that hears nothing: what it puts under way starts from a token that was
\* under way already, or from the one stored.
LEMMA QuietStep ==
    ASSUME ChainInv,
           heard' = heard, token' = token,
           posted' \in Tokens, posted <= posted',
           BagToSet(requests)' \subseteq BagToSet(requests) \cup BagToSet(delayed) \cup {token},
           BagToSet(delayed)' \subseteq BagToSet(delayed) \cup {token},
           fetching' \in {fetching, None, token},
           queue' \in Seq(Job),
           \A i \in DOMAIN queue' : queue'[i].kind = "reply" =>
              \E j \in DOMAIN queue : queue[j] = queue'[i]
    PROVE  ChainInv'
<1>1. ChainTypes'
  BY DEF ChainInv, ChainTypes
<1>2. PICK n \in Tokens : HeardUpTo(n)
  BY DEF ChainInv, HeardInOrder
<1>3. n <= posted' /\ heard' = 1..n /\ token' <= n
  BY <1>2, ReceiveAssumption DEF HeardUpTo, ChainInv, ChainTypes, Tokens
<1>4. \A t \in BagToSet(requests)' \cup BagToSet(delayed)' : t <= n
  BY <1>2 DEF HeardUpTo
<1>5. fetching' # None => fetching' <= n
  BY <1>2 DEF HeardUpTo
<1>6. ASSUME NEW i \in DOMAIN queue', queue'[i].kind = "reply"
      PROVE  queue'[i].after <= n /\ queue'[i].upto <= posted'
  <2>1. PICK j \in DOMAIN queue : queue[j] = queue'[i]
    BY <1>6
  <2>2. queue[j].after <= n /\ queue[j].upto <= posted
    BY <1>2, <1>6, <2>1 DEF HeardUpTo
  <2>3. queue[j] \in Job
    BY <2>1 DEF ChainInv, ChainTypes
  <2>4. queue[j].upto \in Tokens
    BY <1>6, <2>1, <2>3 DEF Job
  <2>5. QED
    BY <2>1, <2>2, <2>4, ReceiveAssumption DEF ChainInv, ChainTypes, Tokens
<1>7. HeardUpTo(n)'
  BY <1>3, <1>4, <1>5, <1>6 DEF HeardUpTo
<1>8. QED
  BY <1>1, <1>7 DEF ChainInv, HeardInOrder

\* A request is sent, or lost for want of a connection.
LEMMA SendFacts ==
    ASSUME NEW t, Send(t)
    PROVE  BagToSet(requests)' \subseteq BagToSet(requests) \cup {t}
<1>1. CASE requests' = requests (+) SetToBag({t})
  BY <1>1, BagFacts DEF BagToSet
<1>2. CASE requests' = requests
  BY <1>2 DEF BagToSet
<1>3. QED
  BY <1>1, <1>2 DEF Send

\* A session ends or begins: there is nothing to hear yet.
LEMMA FreshChain ==
    ASSUME requests' = EmptyBag, delayed' = EmptyBag, queue' = <<>>, fetching' = None,
           token' = 0, posted' = 0, heard' = {}
    PROVE  ChainInv'
<1>1. 0 \in Tokens
  BY ReceiveAssumption DEF Tokens
<1>2. BagToSet(requests)' = {} /\ BagToSet(delayed)' = {}
  BY DEF BagToSet, EmptyBag, SetToBag
<1>3. queue' \in Seq(Job) /\ DOMAIN queue' = {}
  OBVIOUS
<1>4. ChainTypes'
  BY <1>1, <1>2, <1>3 DEF ChainTypes
<1>5. HeardUpTo(0)'
  BY <1>2, <1>3 DEF HeardUpTo
<1>6. QED
  BY <1>1, <1>4, <1>5 DEF ChainInv, HeardInOrder

\* A job of the queue is known by its kind.
LEMMA JobFacts ==
    ASSUME NEW job \in Job
    PROVE  job.kind = "reply" => job.after \in Tokens /\ job.upto \in Tokens
BY DEF Job

LEMMA AnswerKeepsChain ==
    ASSUME ChainInv, NEW t \in Tokens, Answer(t)
    PROVE  ChainInv'
<1> DEFINE job == [kind |-> "reply", after |-> t, upto |-> posted]
<1>1. PICK n \in Tokens : HeardUpTo(n)
  BY DEF ChainInv, HeardInOrder
<1>2. /\ t \in BagToSet(requests)
      /\ BagToSet(requests)' \subseteq BagToSet(requests)
      /\ queue' = Append(queue, job)
      /\ UNCHANGED <<posted, delayed, fetching, token, heard>>
  BY BagFacts DEF Answer, chainVars, lineVars, BagToSet
<1>3. job \in Job /\ queue \in Seq(Job)
  BY DEF Job, ChainInv, ChainTypes
<1>4. /\ queue' \in Seq(Job)
      /\ \A i \in DOMAIN queue' : (i \in DOMAIN queue /\ queue'[i] = queue[i]) \/ queue'[i] = job
  BY <1>2, <1>3, QueueFacts
<1>5. ChainTypes'
  BY <1>2, <1>4 DEF ChainInv, ChainTypes, BagToSet
<1>6. t <= n /\ posted \in Nat
  BY <1>1, <1>2, ReceiveAssumption DEF HeardUpTo, ChainInv, ChainTypes, Tokens
<1>7. \A i \in DOMAIN queue' : queue'[i].kind = "reply" =>
         queue'[i].after <= n /\ queue'[i].upto <= posted
  BY <1>1, <1>4, <1>6 DEF HeardUpTo
<1>8. HeardUpTo(n)'
  BY <1>1, <1>2, <1>7 DEF HeardUpTo, BagToSet
<1>9. QED
  BY <1>5, <1>8 DEF ChainInv, HeardInOrder

LEMMA ReplyKeepsChain ==
    ASSUME ChainInv, ProcessReply
    PROVE  ChainInv'
<1> DEFINE reply == Head(queue)
<1>1. PICK n \in Tokens : HeardUpTo(n)
  BY DEF ChainInv, HeardInOrder
<1>2. /\ queue # <<>> /\ reply.kind = "reply"
      /\ heard' = heard \cup Streamed(reply.after, reply.upto)
      /\ token' = reply.upto
      /\ delayed' = delayed (+) SetToBag({reply.upto})
      /\ queue' = Tail(queue)
      /\ UNCHANGED <<posted, requests, fetching>>
  BY DEF ProcessReply, nextJob, Rearmed, lineVars
<1>3. queue \in Seq(Job)
  BY DEF ChainInv, ChainTypes
<1>4. /\ queue' \in Seq(Job)
      /\ reply = queue[1] /\ 1 \in DOMAIN queue /\ reply \in Job
      /\ \A i \in DOMAIN queue' : i + 1 \in DOMAIN queue /\ queue'[i] = queue[i + 1]
  BY <1>2, <1>3, TailFacts
<1>5. /\ reply.after \in Tokens /\ reply.upto \in Tokens
      /\ reply.after <= n /\ reply.upto <= posted
  BY <1>1, <1>2, <1>4, JobFacts DEF HeardUpTo
<1>6. BagToSet(delayed)' = BagToSet(delayed) \cup {reply.upto}
  BY <1>2, BagFacts DEF BagToSet
<1>7. ChainTypes'
  BY <1>2, <1>4, <1>5, <1>6 DEF ChainInv, ChainTypes, BagToSet
<1>m. PICK m \in Tokens : m = IF reply.upto > n THEN reply.upto ELSE n
  BY <1>5
<1>8. /\ n <= m /\ m <= posted' /\ token' <= m /\ reply.upto <= m
      /\ heard' = 1..m
  <2>1. n \in Nat /\ reply.upto \in Nat /\ reply.after \in Nat /\ n <= posted /\ heard = 1..n
    BY <1>1, <1>5, ReceiveAssumption DEF HeardUpTo, Tokens
  <2>2. heard' = 1..m
    BY <1>2, <1>5, <1>m, <2>1, StreamedFacts
  <2>3. QED
    BY <1>2, <1>5, <1>m, <2>1, <2>2, ReceiveAssumption DEF Tokens
<1>9. \A t \in BagToSet(requests)' \cup BagToSet(delayed)' : t <= m
  <2>1. \A t \in BagToSet(requests) \cup BagToSet(delayed) : t \in Nat /\ t <= n
    BY <1>1, ReceiveAssumption DEF HeardUpTo, ChainInv, ChainTypes, Tokens
  <2>2. \A t \in BagToSet(requests) \cup BagToSet(delayed) : t <= m
    BY <1>8, <2>1, ReceiveAssumption DEF Tokens
  <2>3. QED
    BY <1>2, <1>6, <1>8, <2>2 DEF BagToSet
<1>10. fetching' # None => fetching' <= m
  BY <1>1, <1>2, <1>8, ReceiveAssumption DEF HeardUpTo, ChainInv, ChainTypes, Tokens
<1>11. ASSUME NEW i \in DOMAIN queue', queue'[i].kind = "reply"
       PROVE  queue'[i].after <= m /\ queue'[i].upto <= posted'
  <2>1. i + 1 \in DOMAIN queue /\ queue'[i] = queue[i + 1]
    BY <1>4, <1>11
  <2>2. queue[i + 1].after <= n /\ queue[i + 1].upto <= posted
    BY <1>1, <1>11, <2>1 DEF HeardUpTo
  <2>3. queue[i + 1] \in Job
    BY <1>3, <2>1
  <2>4. queue[i + 1].after \in Nat
    BY <1>11, <2>1, <2>3, JobFacts, ReceiveAssumption DEF Tokens
  <2>5. n \in Nat /\ m \in Nat /\ n <= m
    BY <1>8, ReceiveAssumption DEF Tokens
  <2>6. QED
    BY <1>2, <2>1, <2>2, <2>4, <2>5
<1>12. HeardUpTo(m)'
  BY <1>8, <1>9, <1>10, <1>11 DEF HeardUpTo
<1>13. QED
  BY <1>7, <1>12 DEF ChainInv, HeardInOrder

\* A fetch hears all there is.
LEMMA FetchKeepsChain ==
    ASSUME ChainInv, FetchAnswered
    PROVE  ChainInv'
<1>1. PICK n \in Tokens : HeardUpTo(n)
  BY DEF ChainInv, HeardInOrder
<1>2. /\ fetching # None
      /\ heard' = heard \cup Streamed(fetching, posted)
      /\ token' = posted /\ fetching' = None
      /\ UNCHANGED <<posted, requests, delayed, queue>>
  BY DEF FetchAnswered, lineVars
<1>3. fetching \in Nat /\ fetching <= n /\ n \in Nat /\ posted \in Nat /\ n <= posted
  BY <1>1, <1>2, ReceiveAssumption DEF HeardUpTo, ChainInv, ChainTypes, Tokens
<1>4. heard' = 1..posted
  <2>1. heard = 1..n
    BY <1>1 DEF HeardUpTo
  <2>2. heard' = 1 .. (IF posted > n THEN posted ELSE n)
    BY <1>2, <1>3, <2>1, StreamedFacts
  <2>3. QED
    BY <1>3, <2>2
<1>5. ChainTypes'
  BY <1>2 DEF ChainInv, ChainTypes, BagToSet
<1>6. \A t \in BagToSet(requests) \cup BagToSet(delayed) : t <= posted
  BY <1>1, <1>3, ReceiveAssumption DEF HeardUpTo, ChainInv, ChainTypes, Tokens
<1>7. ASSUME NEW i \in DOMAIN queue, queue[i].kind = "reply"
      PROVE  queue[i].after <= posted /\ queue[i].upto <= posted
  <2>1. queue[i].after <= n /\ queue[i].upto <= posted
    BY <1>1, <1>7 DEF HeardUpTo
  <2>2. queue[i] \in Job
    BY DEF ChainInv, ChainTypes
  <2>3. queue[i].after \in Nat
    BY <1>7, <2>2, JobFacts, ReceiveAssumption DEF Tokens
  <2>4. QED
    BY <1>3, <2>1, <2>3
<1>8. HeardUpTo(posted)'
  BY <1>2, <1>3, <1>4, <1>6, <1>7 DEF HeardUpTo, BagToSet
<1>9. posted' \in Tokens
  BY <1>2 DEF ChainInv, ChainTypes
<1>10. QED
  BY <1>2, <1>5, <1>8, <1>9 DEF ChainInv, HeardInOrder

\* The steps of the connection, of LINE and of the queue that hear nothing.
LEMMA QuietKeepsChain ==
    ASSUME ChainInv,
           \/ Connected \/ ConnectionEnds \/ Redial \/ Post \/ Notify
           \/ \E t \in Tokens : Refuse(t) \/ Forget(t) \/ Rearm(t)
           \/ StartFetch \/ FetchFails
    PROVE  ChainInv'
<1> USE DEF ChainInv, ChainTypes
<1>q. /\ queue \in Seq(Job) /\ posted \in Nat /\ Tokens \subseteq Nat
      /\ \A i \in DOMAIN queue : \E j \in DOMAIN queue : queue[j] = queue[i]
  BY ReceiveAssumption DEF Tokens
<1>b. BagToSet(EmptyBag) = {}
  BY BagFacts
<1>1. CASE Connected
  <2>1. /\ BagToSet(requests)' = {token}
        /\ UNCHANGED <<posted, delayed, queue, fetching, token, heard>>
    BY <1>1, BagFacts DEF Connected, chainVars, BagToSet
  <2>2. QED
    BY <1>q, <2>1, QuietStep DEF BagToSet
<1>2. CASE ConnectionEnds
  BY <1>2, <1>q, <1>b, QuietStep DEF ConnectionEnds, chainVars, BagToSet
<1>3. CASE Redial
  BY <1>3, <1>q, QuietStep DEF Redial, lineVars, chainVars, BagToSet
<1>4. CASE Post
  <2>1. posted' \in Tokens /\ posted <= posted'
    BY <1>4, <1>q, ReceiveAssumption DEF Post, Tokens
  <2>2. QED
    BY <1>4, <1>q, <2>1, QuietStep DEF Post, chainVars, BagToSet
<1>5. CASE Notify
  <2> DEFINE job == [kind |-> "notice"]
  <2>1. job \in Job /\ job.kind # "reply"
    BY DEF Job
  <2>2. /\ queue' \in Seq(Job)
        /\ \A i \in DOMAIN queue' : (i \in DOMAIN queue /\ queue'[i] = queue[i]) \/ queue'[i] = job
    BY <1>5, <1>q, <2>1, QueueFacts DEF Notify
  <2>3. \A i \in DOMAIN queue' : queue'[i].kind = "reply" =>
           \E j \in DOMAIN queue : queue[j] = queue'[i]
    BY <2>1, <2>2
  <2>4. QED
    BY <1>5, <1>q, <2>2, <2>3, QuietStep DEF Notify, lineVars, BagToSet
<1>6. ASSUME NEW t \in Tokens, Refuse(t) \/ Forget(t) PROVE ChainInv'
  <2>1. /\ BagToSet(requests)' \subseteq BagToSet(requests)
        /\ UNCHANGED <<posted, delayed, queue, fetching, token, heard>>
    BY <1>6, BagFacts DEF Refuse, Forget, chainVars, BagToSet
  <2>2. QED
    BY <1>q, <2>1, QuietStep DEF BagToSet
<1>7. ASSUME NEW t \in Tokens, Rearm(t) PROVE ChainInv'
  <2>1. /\ t \in BagToSet(delayed)
        /\ BagToSet(delayed)' \subseteq BagToSet(delayed)
        /\ BagToSet(requests)' \subseteq BagToSet(requests) \cup {t}
        /\ UNCHANGED <<posted, queue, fetching, token, heard>>
    <3>1. /\ t \in BagToSet(delayed) /\ delayed' = delayed (-) SetToBag({t}) /\ Send(t)
          /\ UNCHANGED <<posted, queue, fetching, token, heard>>
      BY <1>7 DEF Rearm
    <3>2. BagToSet(delayed)' \subseteq BagToSet(delayed)
      BY <3>1, BagFacts DEF BagToSet
    <3>3. QED
      BY <3>1, <3>2, SendFacts
  <2>2. QED
    BY <1>q, <2>1, QuietStep
<1>8. CASE StartFetch
  <2>1. /\ queue' \in Seq(Job)
        /\ \A i \in DOMAIN queue' : i + 1 \in DOMAIN queue /\ queue'[i] = queue[i + 1]
    BY <1>8, <1>q, TailFacts DEF StartFetch, nextJob
  <2>2. QED
    BY <1>8, <1>q, <2>1, QuietStep DEF StartFetch, lineVars, BagToSet
<1>9. CASE FetchFails
  BY <1>9, <1>q, QuietStep DEF FetchFails, lineVars, BagToSet
<1>10. QED
  BY <1>1, <1>2, <1>3, <1>4, <1>5, <1>6, <1>7, <1>8, <1>9

\* A run of the watch either tears the session down or adds a request at most.
LEMMA WatchKeepsChain ==
    ASSUME ChainInv, Watch \/ ProactiveRefresh \/ Lose \/ Back
    PROVE  ChainInv'
<1>q. /\ queue \in Seq(Job) /\ posted \in Nat /\ posted \in Tokens
      /\ \A i \in DOMAIN queue : \E j \in DOMAIN queue : queue[j] = queue[i]
  BY ReceiveAssumption DEF Tokens, ChainInv, ChainTypes
<1>1. CASE Watch
  <2> DEFINE plan == Plan(Older(age, StallAfter), Older(sinceClose, Proactive))
  <2>1. CASE plan = "rebuild"
    BY <1>1, <2>1, FreshChain DEF Watch, TearDown
  <2>2. CASE plan # "rebuild"
    <3>1. UNCHANGED <<posted, queue, fetching, token, heard>>
      BY <1>1, <2>2 DEF Watch
    <3>2. plan \in {"healthy", "retry-soon", "rearm", "wait", "refresh"}
      BY <2>2 DEF Plan
    <3>3. CASE plan = "rearm"
      <4>1. ForceRearm
        BY <1>1, <3>3 DEF Watch
      <4>2. /\ BagToSet(requests)' \subseteq BagToSet(requests) \cup {token}
            /\ BagToSet(delayed)' \subseteq BagToSet(delayed) \cup {token}
        <5>1. /\ Send(token)
              /\ delayed' = delayed (+) SetToBag({token}) \/ delayed' = delayed
          BY <4>1 DEF ForceRearm
        <5>2. BagToSet(delayed)' \subseteq BagToSet(delayed) \cup {token}
          <6>1. CASE delayed' = delayed (+) SetToBag({token})
            BY <6>1, BagFacts DEF BagToSet
          <6>2. CASE delayed' = delayed
            BY <6>2 DEF BagToSet
          <6>3. QED
            BY <5>1, <6>1, <6>2
        <5>3. QED
          BY <5>1, <5>2, SendFacts
      <4>3. QED
        BY <1>q, <3>1, <4>2, QuietStep
    <3>4. CASE plan # "rearm"
      <4>1. UNCHANGED <<requests, delayed>>
        BY <1>1, <3>2, <3>4 DEF Watch, FindHealthy, Refresh
      <4>2. QED
        BY <1>q, <3>1, <4>1, QuietStep DEF BagToSet
    <3>5. QED
      BY <3>3, <3>4
  <2>3. QED
    BY <2>1, <2>2
<1>2. CASE ProactiveRefresh
  BY <1>2, <1>q, QuietStep DEF ProactiveRefresh, lineVars, chainVars, BagToSet
<1>3. CASE Lose
  BY <1>3, FreshChain DEF Lose, TearDown
<1>4. CASE Back
  BY <1>4, FreshChain DEF Back, Fresh
<1>5. QED
  BY <1>1, <1>2, <1>3, <1>4

LEMMA ChainInvariant == Spec => []ChainInv
<1>1. Init => ChainInv
  <2> SUFFICES ASSUME Init PROVE ChainInv
    OBVIOUS
  <2>1. 0 \in Tokens
    BY ReceiveAssumption DEF Tokens
  <2>2. BagToSet(requests) = {} /\ BagToSet(delayed) = {}
    BY BagFacts DEF Init
  <2>3. queue = <<>> /\ queue \in Seq(Job) /\ DOMAIN queue = {}
    BY DEF Init
  <2>4. posted = 0 /\ token = 0 /\ fetching = None /\ heard = 1..0
    BY DEF Init
  <2>5. ChainTypes
    BY <2>1, <2>2, <2>3, <2>4 DEF ChainTypes
  <2>6. HeardUpTo(0)
    BY <2>2, <2>3, <2>4 DEF HeardUpTo
  <2>7. QED
    BY <2>1, <2>5, <2>6 DEF ChainInv, HeardInOrder
<1>2. ChainInv /\ [Next]_vars => ChainInv'
  <2> SUFFICES ASSUME ChainInv, [Next]_vars PROVE ChainInv'
    OBVIOUS
  <2>1. CASE UNCHANGED vars
    BY <2>1 DEF vars, lineVars, chainVars, ChainInv, ChainTypes, HeardInOrder, HeardUpTo, BagToSet
  <2>2. CASE Next
    BY <2>2, QuietKeepsChain, AnswerKeepsChain, ReplyKeepsChain, FetchKeepsChain, WatchKeepsChain
    DEF Next
  <2>3. QED
    BY <2>1, <2>2
<1>3. QED
  BY <1>1, <1>2, PTL DEF Spec

\* Events reach the stream in order and none is left out, whatever overtakes what.
THEOREM NothingIsSkipped == Spec => []NothingSkipped
<1>1. ChainInv => NothingSkipped
  BY DEF ChainInv, HeardInOrder, HeardUpTo, NothingSkipped
<1>2. QED
  BY <1>1, ChainInvariant, PTL

-----------------------------------------------------------------------------
(* ChainKept. *)

Replies == {i \in DOMAIN queue : queue[i].kind = "reply"}

\* What keeps the chain going.
Link == requests # EmptyBag \/ delayed # EmptyBag \/ Replies # {}

LEMMA LinkKept ==
    ASSUME ChainTypes, ChainKept, [Next]_vars
    PROVE  ChainKept'
<1> SUFFICES ASSUME loop' = "reading", ~ broken'
             PROVE  Link'
  BY DEF ChainKept, Link, Replies
<1>q. queue \in Seq(Job)
  BY DEF ChainTypes
<1>l. loop = "reading" /\ ~ broken => Link
  BY DEF ChainKept, Link, Replies
<1>1. CASE Connected
  BY <1>1, BagFacts DEF Connected, Link
<1>2. CASE \E t \in Tokens : Answer(t)
  <2>1. PICK t \in Tokens : Answer(t)
    BY <1>2
  <2> DEFINE job == [kind |-> "reply", after |-> t, upto |-> posted]
  <2>2. job \in Job /\ queue' = Append(queue, job)
    BY <2>1 DEF Answer, Job, ChainTypes
  <2>3. Len(queue) + 1 \in DOMAIN queue' /\ queue'[Len(queue) + 1] = job
    BY <1>q, <2>2, QueueFacts
  <2>4. Replies' # {}
    BY <2>3 DEF Replies
  <2>5. QED
    BY <2>4 DEF Link
<1>3. CASE ProcessReply
  BY <1>3, BagFacts DEF ProcessReply, Rearmed, Link
<1>4. CASE \E t \in Tokens : Rearm(t)
  <2>1. PICK t \in Tokens : Rearm(t)
    BY <1>4
  <2>2. loop = "reading"
    BY <2>1 DEF Rearm, loopVars
  <2>3. requests' = requests (+) SetToBag({t})
    BY <2>1, <2>2 DEF Rearm, Send
  <2>4. QED
    BY <2>3, BagFacts DEF Link
<1>5. CASE StartFetch
  <2>1. /\ queue # <<>> /\ Head(queue).kind = "notice" /\ queue' = Tail(queue)
        /\ UNCHANGED <<loop, broken, requests, delayed>>
    BY <1>5 DEF StartFetch, nextJob, loopVars, lineVars
  <2>2. /\ Head(queue) = queue[1]
        /\ \A i \in DOMAIN queue : i = 1 \/ (i - 1 \in DOMAIN queue' /\ queue'[i - 1] = queue[i])
    BY <1>q, <2>1, TailFacts
  <2>3. Replies # {} => Replies' # {}
    BY <2>1, <2>2 DEF Replies
  <2>4. QED
    BY <1>l, <2>1, <2>3 DEF Link
<1>6. CASE Notify
  <2> DEFINE job == [kind |-> "notice"]
  <2>1. /\ job \in Job /\ queue' = Append(queue, job)
        /\ UNCHANGED <<loop, broken, requests, delayed>>
    BY <1>6 DEF Notify, Job, loopVars, lineVars
  <2>2. \A i \in DOMAIN queue : i \in DOMAIN queue' /\ queue'[i] = queue[i]
    BY <1>q, <2>1, QueueFacts
  <2>3. Replies # {} => Replies' # {}
    BY <2>2 DEF Replies
  <2>4. QED
    BY <1>l, <2>1, <2>3 DEF Link
<1>7. CASE Watch
  <2> DEFINE plan == Plan(Older(age, StallAfter), Older(sinceClose, Proactive))
  <2>1. plan \in {"healthy", "retry-soon", "rearm", "wait", "refresh", "rebuild"}
    BY DEF Plan
  <2>2. CASE plan = "rearm"
    <3>1. ForceRearm
      BY <1>7, <2>2 DEF Watch
    <3>2. loop = "reading" /\ requests' = requests (+) SetToBag({token})
      BY <3>1 DEF ForceRearm, Send
    <3>3. QED
      BY <3>2, BagFacts DEF Link
  <2>3. CASE plan = "refresh"
    <3>1. Refresh /\ ~ (loop' = "closing") /\ UNCHANGED <<queue, broken>>
      BY <1>7, <2>3 DEF Watch, Refresh
    <3>2. UNCHANGED <<loop, requests, delayed>>
      BY <3>1 DEF Refresh, Close, loopVars
    <3>3. QED
      BY <1>l, <3>1, <3>2 DEF Link, Replies
  <2>4. CASE plan = "rebuild"
    BY <1>7, <2>4 DEF Watch, TearDown
  <2>5. CASE plan \in {"healthy", "retry-soon", "wait"}
    <3>1. UNCHANGED <<loop, requests, delayed, queue, broken>>
      BY <1>7, <2>5 DEF Watch, FindHealthy
    <3>2. QED
      BY <1>l, <3>1 DEF Link, Replies
  <2>6. QED
    BY <2>1, <2>2, <2>3, <2>4, <2>5
<1>8. CASE ProactiveRefresh
  <2>1. UNCHANGED <<loop, requests, delayed, queue, broken>>
    BY <1>8 DEF ProactiveRefresh, Close, loopVars, lineVars, chainVars
  <2>2. QED
    BY <1>l, <2>1 DEF Link, Replies
<1>9. CASE Post \/ FetchAnswered \/ FetchFails
  <2>1. UNCHANGED <<loop, requests, delayed, queue, broken>>
    BY <1>9 DEF Post, FetchAnswered, FetchFails, loopVars, lineVars, chainVars
  <2>2. QED
    BY <1>l, <2>1 DEF Link, Replies
<1>10. CASE ConnectionEnds \/ Redial \/ Lose \/ Back
              \/ \E t \in Tokens : Refuse(t) \/ Forget(t)
  BY <1>10 DEF ConnectionEnds, Redial, Lose, TearDown, Back, Fresh, Refuse, Forget
<1>11. CASE UNCHANGED vars
  BY <1>l, <1>11 DEF vars, loopVars, lineVars, chainVars, Link, Replies
<1>12. QED
  BY <1>1, <1>2, <1>3, <1>4, <1>5, <1>6, <1>7, <1>8, <1>9, <1>10, <1>11 DEF Next

\* Only LINE ends the chain on a connection that stands, by an error or by no
\* answer at all, and an answer on another chain, a forced re-arm or a new
\* connection keep it again (_OnSignOnResponse, rearmSquareFetch).
THEOREM ChainIsKept == Spec => []ChainKept
<1>1. Init => ChainKept
  BY DEF Init, ChainKept
<1>2. ChainInv /\ ChainKept /\ [Next]_vars => ChainKept'
  BY LinkKept DEF ChainInv
<1>3. QED
  BY <1>1, <1>2, ChainInvariant, PTL DEF Spec

-----------------------------------------------------------------------------
(* The watch. *)

WatchTypes ==
    /\ age \in Nat /\ sinceClose \in Nat
    /\ refreshes \in Nat /\ closed \in Nat /\ deaf \in Nat
    /\ rearmTried \in BOOLEAN

\* What the time since the last close accounts for: one cooldown at most.
Waited(since) == IF since < Cooldown THEN since ELSE Cooldown - 1

\* The watch closes EscalateAfter connections at most, and the silence it has seen
\* is one re-arm, a cooldown for each close, and the wait since the last.
Ladder ==
    /\ refreshes <= EscalateAfter
    /\ ~ rearmTried => refreshes = 0 /\ deaf = 0
    /\ deaf <= 1 + refreshes * Cooldown + Waited(sinceClose)

WatchInv == WatchTypes /\ AttemptsAreReal /\ Ladder

LEMMA MaxDeafFacts ==
    /\ MaxDeaf \in Nat
    /\ \A r \in Nat : /\ r * Cooldown \in Nat
                      /\ (r + 1) * Cooldown = r * Cooldown + Cooldown
                      /\ r <= EscalateAfter => r * Cooldown + Cooldown < MaxDeaf
<1>1. Cooldown \in Nat /\ EscalateAfter \in Nat
  BY ReceiveAssumption
<1>2. ASSUME NEW r \in Nat
      PROVE  /\ r * Cooldown \in Nat
             /\ (r + 1) * Cooldown = r * Cooldown + Cooldown
             /\ r <= EscalateAfter => r * Cooldown <= EscalateAfter * Cooldown
  <2>1. r * Cooldown \in Nat /\ (r + 1) * Cooldown = r * Cooldown + Cooldown
    BY <1>1
  <2>2. ASSUME r <= EscalateAfter PROVE r * Cooldown <= EscalateAfter * Cooldown
    <3>1. PICK d \in Nat : EscalateAfter = r + d
      <4>1. EscalateAfter - r \in Nat /\ EscalateAfter = r + (EscalateAfter - r)
        BY <1>1, <2>2
      <4>2. QED
        BY <4>1
    <3>2. EscalateAfter * Cooldown = r * Cooldown + d * Cooldown /\ d * Cooldown \in Nat
      BY <1>1, <3>1
    <3>3. QED
      BY <2>1, <3>2
  <2>3. QED
    BY <2>1, <2>2
<1>3. MaxDeaf = EscalateAfter * Cooldown + Cooldown + 1 /\ EscalateAfter * Cooldown \in Nat
  BY <1>1 DEF MaxDeaf
<1>4. QED
  BY <1>1, <1>2, <1>3

LEMMA WaitedFacts ==
    /\ \A s \in Nat : Waited(s) \in Nat /\ Waited(s) < Cooldown
    /\ Waited(0) = 0
    /\ \A s \in Nat : /\ Older(s, Proactive) \in Nat
                      /\ Waited(s) <= Waited(Older(s, Proactive))
                      /\ Older(s, Proactive) < Cooldown =>
                            Waited(Older(s, Proactive)) = Waited(s) + 1
BY ReceiveAssumption DEF Waited, Older

LEMMA PlanFacts ==
    ASSUME NEW silence \in Nat, NEW since \in Nat, refreshes \in Nat, rearmTried \in BOOLEAN
    PROVE  /\ Plan(silence, since) \in {"healthy", "retry-soon", "rearm", "wait", "refresh", "rebuild"}
           /\ Plan(silence, since) = "rearm" => ~ rearmTried
           /\ Plan(silence, since) = "wait" => rearmTried /\ since < Cooldown
           /\ Plan(silence, since) = "refresh" =>
                 rearmTried /\ hasConnection /\ ~ (refreshes >= EscalateAfter)
BY DEF Plan

LEMMA WatchStep ==
    ASSUME WatchInv, Watch
    PROVE  WatchInv'
<1> DEFINE silence == Older(age, StallAfter)
           since == Older(sinceClose, Proactive)
           plan == Plan(silence, since)
<1>t. /\ WatchTypes /\ AttemptsAreReal /\ Ladder
      /\ age \in Nat /\ sinceClose \in Nat /\ refreshes \in Nat /\ closed \in Nat /\ deaf \in Nat
      /\ rearmTried \in BOOLEAN /\ refreshes <= closed
      /\ refreshes <= EscalateAfter
      /\ ~ rearmTried => refreshes = 0 /\ deaf = 0
      /\ deaf <= 1 + refreshes * Cooldown + Waited(sinceClose)
  BY DEF WatchInv, WatchTypes, AttemptsAreReal, Ladder
<1>c. Cooldown \in Nat \ {0} /\ EscalateAfter \in Nat \ {0} /\ StallAfter \in Nat
  BY ReceiveAssumption
<1>s. silence \in Nat /\ since \in Nat
  BY <1>t, ReceiveAssumption DEF Older
<1>w. /\ Waited(sinceClose) \in Nat /\ Waited(since) \in Nat /\ Waited(0) = 0
      /\ Waited(sinceClose) < Cooldown /\ Waited(sinceClose) <= Waited(since)
      /\ since < Cooldown => Waited(since) = Waited(sinceClose) + 1
  BY <1>t, <1>s, WaitedFacts
<1>r. /\ refreshes * Cooldown \in Nat /\ 0 * Cooldown \in Nat
      /\ (refreshes + 1) * Cooldown = refreshes * Cooldown + Cooldown
  BY <1>t, MaxDeafFacts
<1>d. Older(deaf, MaxDeaf + 1) \in Nat /\ Older(deaf, MaxDeaf + 1) <= deaf + 1
  BY <1>t, MaxDeafFacts DEF Older
<1>p. /\ plan \in {"healthy", "retry-soon", "rearm", "wait", "refresh", "rebuild"}
      /\ plan = "rearm" => ~ rearmTried
      /\ plan = "wait" => rearmTried /\ since < Cooldown
      /\ plan = "refresh" => rearmTried /\ hasConnection /\ ~ (refreshes >= EscalateAfter)
  BY <1>t, <1>s, PlanFacts
<1>a. plan # "rebuild" => age' \in Nat
  BY <1>s DEF Watch
<1>1. CASE plan = "healthy"
  <2>1. refreshes' = 0 /\ rearmTried' = FALSE /\ closed' = 0 /\ deaf' = 0 /\ sinceClose' = since
    BY <1>1 DEF Watch, FindHealthy
  <2>2. 0 <= 1 + 0 * Cooldown + Waited(since)
    BY <1>w, <1>r
  <2>3. QED
    <3>1. age' \in Nat /\ since \in Nat
      BY <1>1, <1>a, <1>s
    <3>2. Ladder'
      BY <1>c, <2>1, <2>2 DEF Ladder
    <3>3. WatchTypes'
      BY <2>1, <3>1 DEF WatchTypes
    <3>4. AttemptsAreReal'
      BY <2>1 DEF AttemptsAreReal
    <3>5. QED
      BY <3>2, <3>3, <3>4 DEF WatchInv
<1>2. CASE plan = "retry-soon"
  <2>1. UNCHANGED <<refreshes, rearmTried, closed, deaf>> /\ sinceClose' = since
    BY <1>2 DEF Watch
  <2>2. deaf <= 1 + refreshes * Cooldown + Waited(since)
    BY <1>t, <1>w, <1>r
  <2>3. QED
    BY <1>2, <1>a, <1>t, <1>s, <2>1, <2>2 DEF WatchInv, WatchTypes, AttemptsAreReal, Ladder
<1>3. CASE plan = "wait"
  <2>1. /\ UNCHANGED <<refreshes, rearmTried, closed>> /\ sinceClose' = since
        /\ deaf' = Older(deaf, MaxDeaf + 1)
    BY <1>3 DEF Watch, FindStalled
  <2>2. deaf' <= 1 + refreshes * Cooldown + Waited(since)
    BY <1>3, <1>p, <1>t, <1>w, <1>r, <1>d, <2>1
  <2>3. QED
    BY <1>3, <1>a, <1>p, <1>d, <1>t, <1>s, <2>1, <2>2 DEF WatchInv, WatchTypes, AttemptsAreReal, Ladder
<1>4. CASE plan = "rearm"
  <2>1. /\ UNCHANGED <<refreshes, closed>> /\ rearmTried' = TRUE /\ sinceClose' = since
        /\ deaf' = Older(deaf, MaxDeaf + 1)
    BY <1>4 DEF Watch, FindStalled, ForceRearm
  <2>2. deaf' <= 1 + refreshes * Cooldown + Waited(since)
    BY <1>4, <1>p, <1>t, <1>w, <1>r, <1>d, <2>1
  <2>3. QED
    BY <1>4, <1>a, <1>d, <1>t, <1>s, <2>1, <2>2 DEF WatchInv, WatchTypes, AttemptsAreReal, Ladder
<1>5. CASE plan = "refresh"
  <2>1. /\ UNCHANGED rearmTried /\ refreshes' = refreshes + 1 /\ closed' = closed + 1
        /\ sinceClose' = 0
        /\ deaf' = Older(deaf, MaxDeaf + 1)
    BY <1>5, <1>p DEF Watch, FindStalled, Refresh, Close
  <2>2. refreshes + 1 <= EscalateAfter
    BY <1>5, <1>p, <1>t, <1>c
  <2>3. deaf' <= 1 + (refreshes + 1) * Cooldown + Waited(0)
    BY <1>t, <1>w, <1>r, <1>d, <1>c, <2>1
  <2>4. QED
    BY <1>5, <1>a, <1>p, <1>d, <1>t, <2>1, <2>2, <2>3
    DEF WatchInv, WatchTypes, AttemptsAreReal, Ladder
<1>6. CASE plan = "rebuild"
  <2>1. /\ refreshes' = 0 /\ rearmTried' = FALSE /\ closed' = 0 /\ deaf' = 0 /\ age' = 0
        /\ UNCHANGED sinceClose
    BY <1>6 DEF Watch, TearDown
  <2>2. 0 <= 1 + 0 * Cooldown + Waited(sinceClose)
    BY <1>w, <1>r
  <2>3. QED
    <3>1. Ladder'
      BY <1>c, <2>1, <2>2 DEF Ladder
    <3>2. WatchTypes'
      BY <1>t, <2>1 DEF WatchTypes
    <3>3. AttemptsAreReal'
      BY <2>1 DEF AttemptsAreReal
    <3>4. QED
      BY <3>1, <3>2, <3>3 DEF WatchInv
<1>7. QED
  BY <1>p, <1>1, <1>2, <1>3, <1>4, <1>5, <1>6

\* Whoever else closes the connection or takes the session starts the silence anew.
LEMMA OtherStep ==
    ASSUME WatchInv, ProactiveRefresh \/ Lose \/ Back
    PROVE  WatchInv'
<1>t. /\ sinceClose \in Nat /\ refreshes \in Nat /\ closed \in Nat
      /\ Waited(sinceClose) \in Nat /\ Waited(0) = 0
      /\ Older(sinceClose, Proactive) \in Nat /\ Waited(Older(sinceClose, Proactive)) \in Nat
      /\ refreshes * Cooldown \in Nat
  BY WaitedFacts, MaxDeafFacts DEF WatchInv, WatchTypes
<1>1. /\ UNCHANGED <<refreshes, closed, rearmTried>> /\ deaf' = 0
      /\ sinceClose' \in {0, sinceClose, Older(sinceClose, Proactive)}
      /\ age' \in Nat
  <2>1. CASE ProactiveRefresh
    BY <2>1 DEF ProactiveRefresh, Close, WatchInv, WatchTypes
  <2>2. CASE Lose
    BY <2>2 DEF Lose, TearDown
  <2>3. CASE Back
    BY <2>3, ReceiveAssumption DEF Back, Fresh
  <2>4. QED
    BY <2>1, <2>2, <2>3
<1>2. sinceClose' \in Nat /\ Waited(sinceClose') \in Nat
  BY <1>t, <1>1
<1>3. 0 <= 1 + refreshes * Cooldown + Waited(sinceClose')
  BY <1>t, <1>2
<1>4. QED
  BY <1>1, <1>2, <1>3 DEF WatchInv, WatchTypes, AttemptsAreReal, Ladder

LEMMA WatchInvariant == Spec => []WatchInv
<1>1. Init => WatchInv
  <2>1. 0 * Cooldown \in Nat /\ Waited(0) = 0
    BY WaitedFacts, MaxDeafFacts
  <2>2. 0 <= 1 + 0 * Cooldown + Waited(0)
    BY <2>1
  <2>3. ASSUME Init PROVE age \in Nat /\ sinceClose = 0 /\ refreshes = 0 /\ closed = 0 /\ deaf = 0 /\ rearmTried = FALSE
    BY <2>3, ReceiveAssumption DEF Init
  <2>4. QED
    BY <2>2, <2>3, ReceiveAssumption DEF WatchInv, WatchTypes, AttemptsAreReal, Ladder
<1>2. WatchInv /\ [Next]_vars => WatchInv'
  <2> SUFFICES ASSUME WatchInv, [Next]_vars PROVE WatchInv'
    OBVIOUS
  <2>1. CASE Watch \/ ProactiveRefresh \/ Lose \/ Back
    BY <2>1, WatchStep, OtherStep
  <2>2. ASSUME ~ (Watch \/ ProactiveRefresh \/ Lose \/ Back)
        PROVE  UNCHANGED watchVars /\ age' \in {0, age}
    BY <2>2 DEF Next, Connected, ConnectionEnds, Redial, Post, Answer, Refuse, Forget, Notify, Rearm,
                ProcessReply, StartFetch, FetchAnswered, FetchFails, vars
  <2>3. QED
    BY <2>1, <2>2 DEF watchVars, WatchInv, WatchTypes, AttemptsAreReal, Ladder
<1>3. QED
  BY <1>1, <1>2, PTL DEF Spec

\* Every attempt the watch counts against a stall closed a connection.
THEOREM AttemptsCount == Spec => []AttemptsAreReal
<1>1. WatchInv => AttemptsAreReal
  BY DEF WatchInv
<1>2. QED
  BY <1>1, WatchInvariant, PTL

\* However long the cooldown and however many closes, silence is bounded.
THEOREM DeafnessIsBounded == Spec => []BoundedDeafness
<1>1. WatchInv => BoundedDeafness
  <2> SUFFICES ASSUME WatchInv PROVE deaf <= MaxDeaf
    BY DEF BoundedDeafness
  <2>1. /\ refreshes \in Nat /\ deaf \in Nat /\ refreshes <= EscalateAfter
        /\ deaf <= 1 + refreshes * Cooldown + Waited(sinceClose)
        /\ Waited(sinceClose) \in Nat /\ Waited(sinceClose) < Cooldown
    BY WaitedFacts DEF WatchInv, WatchTypes, Ladder
  <2>2. /\ refreshes * Cooldown \in Nat /\ MaxDeaf \in Nat
        /\ refreshes * Cooldown + Cooldown < MaxDeaf
    BY <2>1, MaxDeafFacts
  <2>3. QED
    BY <2>1, <2>2, ReceiveAssumption
<1>2. QED
  BY <1>1, WatchInvariant, PTL

-----------------------------------------------------------------------------
(* The polls of a process. *)

WorldType ==
    [session : [Bots -> {"none", "login", "failed", "online"}],
     blocked : [Bots -> SUBSET Rooms],
     enabled : [Bots -> SUBSET Rooms],
     rules   : [Bots -> BOOLEAN]]

PoolType ==
    [room      : [Bots -> Rooms \cup {NoRoom}],
     pace      : [Bots -> {"fast", "slow", "off"}],
     slots     : SUBSET Bots,
     rebalance : BOOLEAN,
     unsynced  : SUBSET Bots]

\* Only an online bot polls, at the pace its slot gives it, and the pool never
\* hands out more than it has.
SoundPools(w) ==
    {p \in PoolType :
        /\ Cardinality(p.slots) <= Capacity
        /\ \A a \in Bots : p.room[a] # NoRoom =>
              /\ w.session[a] = "online"
              /\ (p.pace[a] = "fast" <=> a \in p.slots)}

\* The pools in which bot a is where it should be: on a room it may answer in and
\* that has not denied it, and fast if a slot is to be had.
SettledPools(a, w, edits) ==
    {p \in SoundPools(w) : w.session[a] = "online" =>
        /\ p.room[a] \notin w.blocked[a]
        /\ \/ a \in edits \cup p.unsynced
           \/ IF Candidates(w, a) = {} THEN p.room[a] = NoRoom
              ELSE p.room[a] \in Candidates(w, a)
        /\ \/ p.rebalance
           \/ ~ (Cardinality(p.slots) < Capacity)
           \/ p.room[a] = NoRoom
           \/ p.pace[a] = "fast"}

\* The pools in which bot a holds a slot, or has no use for one.
KeepsSlot(a, w, favourite) ==
    {p \in PoolType :
        a \in p.slots \/ (Selected(w, a, favourite) = NoRoom /\ p.room[a] = NoRoom)}

\* Bringing an online bot in line does not lead out of G.
Stable(G, w, favourite) ==
    \A p \in G, a \in Bots : w.session[a] = "online" => Align(p, a, w, favourite) \in G

-----------------------------------------------------------------------------
(* Steps numbered from 0 to N. *)

\* What holds at 0 and passes from each number to the next holds up to N.
LEMMA Steps ==
    ASSUME NEW N \in Nat, NEW S, 0 \in S, \A n \in 1..N : n - 1 \in S => n \in S
    PROVE  \A n \in 0..N : n \in S
<1>1. SUFFICES ASSUME NEW m \in 0..N, m \notin S
               PROVE  FALSE
  OBVIOUS
<1> DEFINE Out == {n \in Nat : n <= N /\ n \notin S}
<1>2. m \in Out
  BY <1>1
<1>3. PICK n \in Out : \A k \in Out : ~ (<<k, n>> \in OpToRel(<, Nat))
  BY <1>2, NatLessThanWellFounded, WFMin
<1>4. n \in 1..N /\ n - 1 \in Nat /\ n - 1 < n /\ n - 1 <= N
  <2>1. n \in Nat /\ n <= N /\ n \notin S
    OBVIOUS
  <2>2. n # 0
    BY <2>1
  <2> HIDE DEF Out
  <2>3. QED
    BY <2>1, <2>2
<1>5. n - 1 \notin Out
  BY <1>3, <1>4 DEF OpToRel
<1> HIDE DEF Out
<1>6. n - 1 \in S
  BY <1>4, <1>5 DEF Out
<1>7. n \in S
  BY <1>4, <1>6
<1>8. QED
  BY <1>3, <1>7 DEF Out

\* q starts with e, and F leads from each of its members to the next.
Iterates(q, e, F, N, D) ==
    /\ q \in [0..N -> D]
    /\ q[0] = e
    /\ \A n \in 1..N : q[n] = F[n][q[n - 1]]

\* An iteration, given step by step, exists.
LEMMA Iteration ==
    ASSUME NEW D, NEW N \in Nat, NEW e \in D, NEW F \in [1..N -> [D -> D]]
    PROVE  \E q : Iterates(q, e, F, N, D)
<1> DEFINE Upto(m) == \E q : Iterates(q, e, F, m, D)
           S == {m \in 0..N : Upto(m)}
<1>1. Upto(0)
  <2> DEFINE q == [n \in 0..0 |-> e]
  <2>1. q \in [0..0 -> D] /\ q[0] = e
    OBVIOUS
  <2>2. \A n \in 1..0 : q[n] = F[n][q[n - 1]]
    OBVIOUS
  <2> HIDE DEF q
  <2>3. QED
    BY <2>1, <2>2 DEF Iterates
<1>2. ASSUME NEW m \in 1..N, Upto(m - 1)
      PROVE  Upto(m)
  <2>1. PICK q : /\ q \in [0..(m - 1) -> D]
                 /\ q[0] = e
                 /\ \A n \in 1..(m - 1) : q[n] = F[n][q[n - 1]]
    BY <1>2 DEF Iterates
  <2> DEFINE r == [n \in 0..m |-> IF n = m THEN F[m][q[m - 1]] ELSE q[n]]
  <2>2. F[m] \in [D -> D] /\ q[m - 1] \in D
    BY <2>1
  <2>3. F[m][q[m - 1]] \in D
    BY <2>2
  <2>4. r \in [0..m -> D]
    BY <2>1, <2>3
  <2>5. r[0] = e
    BY <2>1
  <2>6. ASSUME NEW n \in 1..m
        PROVE  r[n] = F[n][r[n - 1]]
    <3>1. CASE n = m
      BY <3>1
    <3>2. CASE n # m
      <4>1. n \in 1..(m - 1) /\ n \in 0..m /\ n - 1 \in 0..m /\ n - 1 # m
        BY <3>2
      <4>2. r[n] = q[n] /\ r[n - 1] = q[n - 1]
        BY <4>1, <3>2
      <4>3. QED
        BY <4>1, <4>2, <2>1
    <3>3. QED
      BY <3>1, <3>2
  <2> HIDE DEF r
  <2>7. QED
    BY <2>4, <2>5, <2>6 DEF Iterates
<1>3. 0 \in S /\ \A n \in 1..N : n - 1 \in S => n \in S
  <2> HIDE DEF Upto
  <2>1. 0 \in S
    BY <1>1
  <2>2. ASSUME NEW n \in 1..N, n - 1 \in S
        PROVE  n \in S
    BY <2>2, <1>2
  <2>3. QED
    BY <2>1, <2>2
<1> HIDE DEF S
<1>4. \A n \in 0..N : n \in S
  <2> HIDE DEF Upto
  <2>1. QED
    BY <1>3, Steps, Zenon
<1>5. N \in S
  BY <1>4
<1>6. QED
  BY <1>5 DEF S

-----------------------------------------------------------------------------
(* One call. *)

\* The favourite a bot is on is one of those it may answer in.
LEMMA SelectedFacts ==
    ASSUME NEW w \in WorldType, NEW b \in Bots, NEW favourite \in Favourites
    PROVE  /\ Candidates(w, b) \subseteq Rooms /\ Candidates(w, b) \cap w.blocked[b] = {}
           /\ Candidates(w, b) = {} => Selected(w, b, favourite) = NoRoom
           /\ Candidates(w, b) # {} => Selected(w, b, favourite) \in Candidates(w, b)
           /\ Selected(w, b, favourite) \in Rooms \cup {NoRoom}
<1>1. /\ w.enabled[b] \subseteq Rooms
  BY DEF WorldType
<1>2. Candidates(w, b) \subseteq Rooms /\ Candidates(w, b) \cap w.blocked[b] = {}
  BY <1>1 DEF Candidates
<1>3. Candidates(w, b) = {} => Selected(w, b, favourite) = NoRoom
  BY DEF Selected
<1>4. Candidates(w, b) # {} => Selected(w, b, favourite) \in Candidates(w, b)
  BY DEF Selected
<1>5. QED
  BY <1>2, <1>3, <1>4

\* What a call that wants a room for b changes: b's poller, and the pool.
Aligned(q, p, b, want) ==
    /\ q.room[b] = want
    /\ want # NoRoom => (q.pace[b] = "fast" <=> b \in q.slots)
    /\ \A a \in Bots \ {b} : q.room[a] = p.room[a] /\ q.pace[a] = p.pace[a]
    /\ q.slots = IF want = NoRoom THEN p.slots \ {b} ELSE Acquire(p.slots, b)
    /\ q.rebalance = (p.rebalance \/ (want = NoRoom /\ b \in p.slots))
    /\ q.unsynced = p.unsynced \ {b}

LEMMA AlignFacts ==
    ASSUME NEW p \in PoolType, NEW w \in WorldType, NEW b \in Bots, NEW favourite \in Favourites
    PROVE  /\ Align(p, b, w, favourite) \in PoolType
           /\ Aligned(Align(p, b, w, favourite), p, b, Selected(w, b, favourite))
<1> DEFINE want == Selected(w, b, favourite)
           taken == IF want = NoRoom THEN p.slots \ {b} ELSE Acquire(p.slots, b)
           speed == CASE want = NoRoom -> "off" [] b \in taken -> "fast" [] OTHER -> "slow"
           q == Align(p, b, w, favourite)
<1>1. want \in Rooms \cup {NoRoom}
  BY SelectedFacts
<1>2. taken \in SUBSET Bots
  BY DEF Acquire, PoolType
<1>3. speed \in {"fast", "slow", "off"} /\ (want # NoRoom => (speed = "fast" <=> b \in taken))
  OBVIOUS
<1>4. q = [p EXCEPT !.room[b] = want, !.pace[b] = speed, !.slots = taken,
                    !.rebalance = p.rebalance \/ (want = NoRoom /\ b \in p.slots),
                    !.unsynced = p.unsynced \ {b}]
  BY DEF Align, Freed
<1> HIDE DEF want, taken, speed, q
<1>5. /\ q.room = [p.room EXCEPT ![b] = want] /\ q.pace = [p.pace EXCEPT ![b] = speed]
      /\ q.slots = taken
      /\ q.rebalance = (p.rebalance \/ (want = NoRoom /\ b \in p.slots))
      /\ q.unsynced = p.unsynced \ {b}
      /\ q = [room |-> q.room, pace |-> q.pace, slots |-> q.slots,
              rebalance |-> q.rebalance, unsynced |-> q.unsynced]
  BY <1>4 DEF PoolType
<1>6. q \in PoolType
  <2>1. /\ p.room \in [Bots -> Rooms \cup {NoRoom}]
        /\ p.pace \in [Bots -> {"fast", "slow", "off"}]
        /\ p.rebalance \in BOOLEAN /\ p.unsynced \in SUBSET Bots
    BY DEF PoolType
  <2>2. q.room \in [Bots -> Rooms \cup {NoRoom}]
    BY <2>1, <1>1, <1>5
  <2>3. q.pace \in [Bots -> {"fast", "slow", "off"}]
    BY <2>1, <1>3, <1>5
  <2>4. q.slots \in SUBSET Bots /\ q.rebalance \in BOOLEAN /\ q.unsynced \in SUBSET Bots
    BY <2>1, <1>2, <1>5
  <2>5. QED
    BY <2>2, <2>3, <2>4, <1>5 DEF PoolType
<1>7. /\ \A a \in Bots \ {b} : q.room[a] = p.room[a] /\ q.pace[a] = p.pace[a]
      /\ q.room[b] = want /\ q.pace[b] = speed
  BY <1>5 DEF PoolType
<1>8. /\ q.slots = IF want = NoRoom THEN p.slots \ {b} ELSE Acquire(p.slots, b)
      /\ want # NoRoom => (q.pace[b] = "fast" <=> b \in q.slots)
  <2>1. want # NoRoom => (q.pace[b] = "fast" <=> b \in q.slots)
    BY <1>3, <1>5, <1>7
  <2>2. QED
    BY <2>1, <1>5 DEF taken
<1>9. QED
  BY <1>5, <1>6, <1>7, <1>8 DEF Aligned, want, q
-----------------------------------------------------------------------------
(* Calls in a row. *)

\* The siblings follow one after the other.
LEMMA FollowedFacts ==
    ASSUME NEW p \in PoolType, NEW b \in Bots, NEW list \in Seq(Bots),
           NEW w \in WorldType, NEW favourite \in Favourites
    PROVE  LET q == Followed(p, b, list, w, favourite)
           IN  /\ q \in [0..Len(list) -> PoolType]
               /\ q[0] = Align(p, b, w, favourite)
               /\ \A n \in 1..Len(list) :
                     \/ q[n] = q[n - 1]
                     \/ /\ w.session[list[n]] = "online"
                        /\ q[n] = Align(q[n - 1], list[n], w, favourite)
<1> DEFINE N == Len(list)
           follows(a) == a \in Siblings(b) /\ w.session[a] = "online"
           F == [n \in 1..N |-> [x \in PoolType |->
                    IF follows(list[n]) THEN Align(x, list[n], w, favourite) ELSE x]]
           Body(q) == [n \in 0..N |->
                          IF n = 0 THEN Align(p, b, w, favourite)
                          ELSE IF follows(list[n]) THEN Align(q[n - 1], list[n], w, favourite)
                          ELSE q[n - 1]]
<1>1. N \in Nat /\ (\A n \in 1..N : list[n] \in Bots) /\ Align(p, b, w, favourite) \in PoolType
  <2>1. Align(p, b, w, favourite) \in PoolType
    BY AlignFacts
  <2>2. QED
    BY <2>1
<1>2. F \in [1..N -> [PoolType -> PoolType]]
  <2>1. \A n \in 1..N, x \in PoolType : Align(x, list[n], w, favourite) \in PoolType
    BY <1>1, AlignFacts
  <2> HIDE DEF follows
  <2>2. QED
    BY <2>1
<1>3. \E q : q = Body(q) /\ q \in [0..N -> PoolType]
  <2>1. PICK q : Iterates(q, Align(p, b, w, favourite), F, N, PoolType)
    <3> HIDE DEF F, N
    <3>1. QED
      BY <1>1, <1>2, Iteration
  <2>2. ASSUME NEW n \in 1..N
        PROVE  q[n] = IF follows(list[n]) THEN Align(q[n - 1], list[n], w, favourite)
                      ELSE q[n - 1]
    <3>1. q[n - 1] \in PoolType /\ q[n] = F[n][q[n - 1]]
      BY <1>1, <2>1 DEF Iterates
    <3> HIDE DEF follows
    <3>2. QED
      BY <3>1
  <2> HIDE DEF follows, F, N
  <2>3. \A n \in 0..N : n = 0 \/ n \in 1..N
    BY <1>1
  <2>4. q = Body(q)
    BY <2>1, <2>2, <2>3 DEF Iterates
  <2>5. QED
    BY <2>1, <2>4 DEF Iterates
<1>4. Followed(p, b, list, w, favourite) = CHOOSE q : q = Body(q)
  BY Zenon DEF Followed
<1> DEFINE q == Followed(p, b, list, w, favourite)
<1>5. q = Body(q)
  <2> HIDE DEF Body
  <2>1. QED
    BY <1>3, <1>4, Zenon
<1> HIDE DEF q, F
<1>6. q[0] = Align(p, b, w, favourite)
  BY <1>1, <1>5
<1>7. \A n \in 1..N : q[n] = IF follows(list[n]) THEN Align(q[n - 1], list[n], w, favourite)
                             ELSE q[n - 1]
  <2> HIDE DEF follows
  <2>1. QED
    BY <1>1, <1>5
<1>8. \A n \in 0..N : q[n] \in PoolType
  <2> DEFINE S == {n \in 0..N : q[n] \in PoolType}
  <2>1. 0 \in S
    BY <1>1, <1>6
  <2>2. ASSUME NEW n \in 1..N, n - 1 \in S
        PROVE  n \in S
    <3>1. Align(q[n - 1], list[n], w, favourite) \in PoolType
      BY <1>1, <2>2, AlignFacts
    <3>2. QED
      BY <1>7, <2>2, <3>1
  <2> HIDE DEF S, N
  <2>3. \A n \in 0..N : n \in S
    BY <1>1, <2>1, <2>2, Steps, Zenon
  <2>4. QED
    BY <2>3 DEF S
<1>9. q \in [0..N -> PoolType]
  <2>1. DOMAIN q = 0..N /\ q = [n \in DOMAIN q |-> q[n]]
    <3> HIDE DEF follows, N
    <3>1. QED
      BY <1>5
  <2> HIDE DEF N
  <2>2. QED
    BY <2>1, <1>8
<1>10. QED
  BY <1>6, <1>7, <1>9 DEF q

\* A call ends where the first step leads, and every other step leaves G alone.
LEMMA SyncReaches ==
    ASSUME NEW w \in WorldType, NEW favourite \in Favourites,
           NEW G \in SUBSET PoolType, Stable(G, w, favourite),
           NEW p \in PoolType, NEW b \in Bots, NEW list \in Seq(Bots),
           IF w.session[b] = "online" THEN Align(p, b, w, favourite) \in G ELSE p \in G
    PROVE  Sync(p, b, list, w, favourite) \in G
<1>1. CASE w.session[b] # "online"
  BY <1>1 DEF Sync
<1>2. CASE w.session[b] = "online"
  <2> DEFINE N == Len(list)
             q == Followed(p, b, list, w, favourite)
             S == {n \in 0..N : q[n] \in G}
  <2>1. /\ q[0] = Align(p, b, w, favourite)
        /\ \A n \in 1..N : \/ q[n] = q[n - 1]
                           \/ /\ w.session[list[n]] = "online"
                              /\ q[n] = Align(q[n - 1], list[n], w, favourite)
    BY FollowedFacts
  <2> HIDE DEF q
  <2>2. N \in Nat /\ \A n \in 1..N : list[n] \in Bots
    OBVIOUS
  <2>3. 0 \in S
    BY <1>2, <2>1, <2>2
  <2>4. ASSUME NEW n \in 1..N, n - 1 \in S
        PROVE  n \in S
    BY <2>1, <2>2, <2>4 DEF Stable
  <2> HIDE DEF S, N
  <2>5. \A n \in 0..N : n \in S
    BY <2>2, <2>3, <2>4, Steps, Zenon
  <2>6. q[0] \in G /\ q[N] \in G
    BY <2>2, <2>5 DEF S
  <2>7. QED
    BY <1>2, <2>6 DEF Sync, q, N
<1>3. QED
  BY <1>1, <1>2

\* The pools make a set that no call leads out of.
LEMMA PoolsStable ==
    ASSUME NEW w \in WorldType, NEW favourite \in Favourites
    PROVE  Stable(PoolType, w, favourite)
BY AlignFacts DEF Stable

\* One call after the other.
LEMMA SyncedFacts ==
    ASSUME NEW w \in WorldType, NEW favourite \in Favourites,
           NEW p \in PoolType, NEW list \in Seq(Bots)
    PROVE  LET q == Synced(p, list, w, favourite)
           IN  /\ q \in [0..Len(list) -> PoolType]
               /\ q[0] = p
               /\ \A n \in 1..Len(list) : q[n] = Sync(q[n - 1], list[n], list, w, favourite)
<1> DEFINE N == Len(list)
           F == [n \in 1..N |-> [x \in PoolType |-> Sync(x, list[n], list, w, favourite)]]
           Body(q) == [n \in 0..N |->
                          IF n = 0 THEN p ELSE Sync(q[n - 1], list[n], list, w, favourite)]
<1>1. N \in Nat /\ \A n \in 1..N : list[n] \in Bots
  OBVIOUS
<1>2. ASSUME NEW x \in PoolType, NEW n \in 1..N
      PROVE  Sync(x, list[n], list, w, favourite) \in PoolType
  <2>1. Align(x, list[n], w, favourite) \in PoolType
    BY <1>1, AlignFacts
  <2>2. QED
    BY <1>1, <2>1, PoolsStable, SyncReaches
<1>3. F \in [1..N -> [PoolType -> PoolType]]
  BY <1>2
<1>4. \E q : q = Body(q) /\ q \in [0..N -> PoolType]
  <2>1. PICK q : Iterates(q, p, F, N, PoolType)
    <3> HIDE DEF F, N
    <3>1. QED
      BY <1>1, <1>3, Iteration
  <2>2. ASSUME NEW n \in 1..N
        PROVE  q[n] = Sync(q[n - 1], list[n], list, w, favourite)
    <3>1. q[n - 1] \in PoolType /\ q[n] = F[n][q[n - 1]]
      BY <1>1, <2>1 DEF Iterates
    <3>2. QED
      BY <3>1
  <2> HIDE DEF F, N
  <2>3. \A n \in 0..N : n = 0 \/ n \in 1..N
    BY <1>1
  <2>4. q = Body(q)
    BY <2>1, <2>2, <2>3 DEF Iterates
  <2>5. QED
    BY <2>1, <2>4 DEF Iterates
<1>5. Synced(p, list, w, favourite) = CHOOSE q : q = Body(q)
  BY Zenon DEF Synced
<1> DEFINE q == Synced(p, list, w, favourite)
<1>6. q = Body(q)
  <2> HIDE DEF Body
  <2>1. QED
    BY <1>4, <1>5, Zenon
<1> HIDE DEF q, F
<1>7. q[0] = p /\ \A n \in 1..N : q[n] = Sync(q[n - 1], list[n], list, w, favourite)
  BY <1>1, <1>6
<1>8. \A n \in 0..N : q[n] \in PoolType
  <2> DEFINE S == {n \in 0..N : q[n] \in PoolType}
  <2>1. 0 \in S
    BY <1>1, <1>7
  <2>2. ASSUME NEW n \in 1..N, n - 1 \in S
        PROVE  n \in S
    BY <1>2, <1>7, <2>2
  <2> HIDE DEF S, N
  <2>3. \A n \in 0..N : n \in S
    BY <1>1, <2>1, <2>2, Steps, Zenon
  <2>4. QED
    BY <2>3 DEF S
<1>9. q \in [0..N -> PoolType]
  <2>1. DOMAIN q = 0..N /\ q = [n \in DOMAIN q |-> q[n]]
    <3> HIDE DEF N
    <3>1. QED
      BY <1>6
  <2> HIDE DEF N
  <2>2. QED
    BY <2>1, <1>8
<1>10. QED
  BY <1>7, <1>9 DEF q
\* Calls for the bots of a list that has bot a lead to G from anywhere in H, when
\* the call for a does and no other call leads out of G.
LEMMA SyncedReaches ==
    ASSUME NEW w \in WorldType, NEW favourite \in Favourites,
           NEW H \in SUBSET PoolType, Stable(H, w, favourite),
           NEW G \in SUBSET H, Stable(G, w, favourite),
           NEW p \in H, NEW list \in Seq(Bots),
           NEW k \in 0..Len(list), k = 0 => p \in G,
           k # 0 => \A x \in H : IF w.session[list[k]] = "online"
                                 THEN Align(x, list[k], w, favourite) \in G ELSE x \in G
    PROVE  Synced(p, list, w, favourite)[Len(list)] \in G
<1> DEFINE N == Len(list)
           q == Synced(p, list, w, favourite)
           S == {n \in 0..N : q[n] \in H /\ (n >= k => q[n] \in G)}
<1>1. q[0] = p /\ \A n \in 1..N : q[n] = Sync(q[n - 1], list[n], list, w, favourite)
  BY SyncedFacts
<1> HIDE DEF q
<1>2. N \in Nat /\ \A n \in 1..N : list[n] \in Bots
  OBVIOUS
<1>3. 0 \in S
  BY <1>1, <1>2
<1>4. ASSUME NEW n \in 1..N, n - 1 \in S
      PROVE  n \in S
  <2>1. list[n] \in Bots /\ q[n - 1] \in H /\ q[n - 1] \in PoolType
    BY <1>2, <1>4
  <2>2. q[n] \in H
    <3>1. IF w.session[list[n]] = "online" THEN Align(q[n - 1], list[n], w, favourite) \in H
          ELSE q[n - 1] \in H
      BY <2>1 DEF Stable
    <3> HIDE DEF N
    <3>2. QED
      BY <1>1, <2>1, <3>1, SyncReaches
  <2>3. ASSUME n >= k
        PROVE  q[n] \in G
    <3>1. CASE n = k
      <4>1. IF w.session[list[n]] = "online" THEN Align(q[n - 1], list[n], w, favourite) \in G
            ELSE q[n - 1] \in G
        BY <2>1, <3>1
      <4> HIDE DEF N
      <4>2. QED
        BY <1>1, <2>1, <4>1, SyncReaches
    <3>2. CASE n # k
      <4>1. n - 1 >= k
        BY <1>2, <2>3, <3>2
      <4>2. q[n - 1] \in G
        BY <1>4, <4>1
      <4>3. IF w.session[list[n]] = "online" THEN Align(q[n - 1], list[n], w, favourite) \in G
            ELSE q[n - 1] \in G
        BY <2>1, <4>2 DEF Stable
      <4> HIDE DEF N
      <4>4. QED
        BY <1>1, <2>1, <4>3, SyncReaches
    <3>3. QED
      BY <3>1, <3>2
  <2>4. QED
    BY <2>2, <2>3
<1> HIDE DEF S, N
<1>5. \A n \in 0..N : n \in S
  BY <1>2, <1>3, <1>4, Steps, Zenon
<1>6. N \in S /\ N >= k
  BY <1>2, <1>5 DEF N
<1>7. QED
  BY <1>6 DEF S, q, N

-----------------------------------------------------------------------------
(* The sets that calls do not lead out of. *)

\* A slot is taken only while one is free.
LEMMA AcquireFacts ==
    ASSUME NEW taken \in SUBSET Bots, Cardinality(taken) <= Capacity, NEW b \in Bots
    PROVE  /\ Cardinality(taken) \in Nat
           /\ Acquire(taken, b) \in SUBSET Bots
           /\ \A a \in Bots \ {b} : a \in Acquire(taken, b) <=> a \in taken
           /\ Cardinality(Acquire(taken, b)) \in Nat
           /\ Cardinality(taken) <= Cardinality(Acquire(taken, b))
           /\ Cardinality(Acquire(taken, b)) <= Capacity
           /\ b \in Acquire(taken, b) \/ ~ (Cardinality(Acquire(taken, b)) < Capacity)
           /\ Cardinality(taken \ {b}) \in Nat /\ Cardinality(taken \ {b}) <= Capacity
<1>1. IsFiniteSet(taken) /\ Cardinality(taken) \in Nat /\ Capacity \in Nat
  BY FS_Subset, FS_CardinalityType, SlotAssumption
<1>2. IsFiniteSet(taken \ {b}) /\ Cardinality(taken \ {b}) \in Nat
      /\ Cardinality(taken \ {b}) <= Cardinality(taken)
  BY <1>1, FS_Subset, FS_CardinalityType
<1>3. CASE b \in taken
  <2>1. Acquire(taken, b) = taken
    BY <1>3 DEF Acquire
  <2>2. QED
    BY <1>1, <1>2, <1>3, <2>1
<1>4. CASE b \notin taken /\ Cardinality(taken) < Capacity
  <2>1. Acquire(taken, b) = taken \cup {b}
    BY <1>4 DEF Acquire
  <2>2. Cardinality(taken \cup {b}) = Cardinality(taken) + 1
    BY <1>1, <1>4, FS_AddElement
  <2>3. QED
    BY <1>1, <1>2, <1>4, <2>1, <2>2
<1>5. CASE b \notin taken /\ ~ (Cardinality(taken) < Capacity)
  <2>1. Acquire(taken, b) = taken
    BY <1>5 DEF Acquire
  <2>2. QED
    BY <1>1, <1>2, <1>5, <2>1
<1>6. QED
  BY <1>3, <1>4, <1>5

LEMMA SoundStable ==
    ASSUME NEW w \in WorldType, NEW favourite \in Favourites
    PROVE  Stable(SoundPools(w), w, favourite)
<1> SUFFICES ASSUME NEW p \in SoundPools(w), NEW b \in Bots, w.session[b] = "online"
             PROVE  Align(p, b, w, favourite) \in SoundPools(w)
  BY DEF Stable
<1> DEFINE want == Selected(w, b, favourite)
           q == Align(p, b, w, favourite)
<1>1. p \in PoolType /\ p.slots \in SUBSET Bots /\ Cardinality(p.slots) <= Capacity
  BY DEF SoundPools, PoolType
<1>2. q \in PoolType /\ Aligned(q, p, b, want)
  BY <1>1, AlignFacts
<1> HIDE DEF want, q
<1>3. /\ Cardinality(q.slots) <= Capacity
      /\ \A a \in Bots \ {b} : a \in q.slots <=> a \in p.slots
  <2>1. CASE want = NoRoom
    <3>1. q.slots = p.slots \ {b}
      BY <1>2, <2>1 DEF Aligned
    <3>2. Cardinality(p.slots \ {b}) <= Capacity
      BY <1>1, AcquireFacts
    <3>3. QED
      BY <3>1, <3>2
  <2>2. CASE want # NoRoom
    <3>1. q.slots = Acquire(p.slots, b)
      BY <1>2, <2>2 DEF Aligned
    <3>2. /\ Cardinality(Acquire(p.slots, b)) <= Capacity
          /\ \A a \in Bots \ {b} : a \in Acquire(p.slots, b) <=> a \in p.slots
      BY <1>1, AcquireFacts
    <3>3. QED
      BY <3>1, <3>2
  <2>3. QED
    BY <2>1, <2>2
<1>4. ASSUME NEW a \in Bots, q.room[a] # NoRoom
      PROVE  w.session[a] = "online" /\ (q.pace[a] = "fast" <=> a \in q.slots)
  BY <1>2, <1>3, <1>4 DEF SoundPools, Aligned
<1>5. QED
  BY <1>2, <1>3, <1>4 DEF SoundPools, q

\* The call for bot a settles it.
LEMMA AlignSettles ==
    ASSUME NEW w \in WorldType, NEW favourite \in Favourites, NEW edits,
           NEW p \in SoundPools(w), NEW a \in Bots, w.session[a] = "online"
    PROVE  Align(p, a, w, favourite) \in SettledPools(a, w, edits)
<1> DEFINE want == Selected(w, a, favourite)
           q == Align(p, a, w, favourite)
<1>1. p \in PoolType /\ p.slots \in SUBSET Bots /\ Cardinality(p.slots) <= Capacity
  BY DEF SoundPools, PoolType
<1>2. q \in PoolType /\ Aligned(q, p, a, want)
  BY <1>1, AlignFacts
<1>3. q \in SoundPools(w)
  BY SoundStable DEF Stable
<1>4. q.room[a] = want
  BY <1>2 DEF Aligned
<1>5. /\ want \notin w.blocked[a]
      /\ IF Candidates(w, a) = {} THEN want = NoRoom ELSE want \in Candidates(w, a)
  <2>1. NoRoom \notin w.blocked[a]
    BY SlotAssumption DEF WorldType
  <2>2. QED
    BY <2>1, SelectedFacts
<1> HIDE DEF want, q
<1>6. want # NoRoom => q.pace[a] = "fast" \/ ~ (Cardinality(q.slots) < Capacity)
  <2>1. a \in Acquire(p.slots, a) \/ ~ (Cardinality(Acquire(p.slots, a)) < Capacity)
    BY <1>1, AcquireFacts
  <2>2. QED
    BY <1>2, <2>1 DEF Aligned
<1>7. QED
  BY <1>3, <1>4, <1>5, <1>6 DEF SettledPools, q

\* The calls for other bots leave it settled.
LEMMA SettledStable ==
    ASSUME NEW w \in WorldType, NEW favourite \in Favourites, NEW edits, NEW a \in Bots
    PROVE  Stable(SettledPools(a, w, edits), w, favourite)
<1> SUFFICES ASSUME NEW p \in SettledPools(a, w, edits), NEW b \in Bots, w.session[b] = "online"
             PROVE  Align(p, b, w, favourite) \in SettledPools(a, w, edits)
  BY DEF Stable
<1>0. p \in SoundPools(w)
  BY DEF SettledPools
<1>1. CASE a = b
  BY <1>0, <1>1, AlignSettles
<1>2. CASE a # b
  <2> DEFINE want == Selected(w, b, favourite)
             q == Align(p, b, w, favourite)
  <2>1. p \in PoolType /\ p.slots \in SUBSET Bots /\ Cardinality(p.slots) <= Capacity
    BY <1>0 DEF SoundPools, PoolType
  <2>2. q \in PoolType /\ Aligned(q, p, b, want)
    BY <2>1, AlignFacts
  <2>3. q \in SoundPools(w)
    BY <1>0, SoundStable DEF Stable
  <2> HIDE DEF want, q
  <2>4. /\ q.room[a] = p.room[a] /\ q.pace[a] = p.pace[a]
        /\ (a \in q.unsynced <=> a \in p.unsynced)
    BY <1>2, <2>2 DEF Aligned
  <2>5. p.rebalance \/ ~ (Cardinality(p.slots) < Capacity) =>
            q.rebalance \/ ~ (Cardinality(q.slots) < Capacity)
    <3>1. CASE want = NoRoom /\ b \in p.slots
      BY <2>2, <3>1 DEF Aligned
    <3>2. CASE want = NoRoom /\ b \notin p.slots
      <4>1. p.slots \ {b} = p.slots
        BY <3>2
      <4>2. QED
        BY <2>2, <3>2, <4>1 DEF Aligned
    <3>3. CASE want # NoRoom
      <4>1. /\ Cardinality(p.slots) \in Nat /\ Cardinality(q.slots) \in Nat
            /\ Cardinality(p.slots) <= Cardinality(q.slots)
        BY <2>1, <2>2, <3>3, AcquireFacts DEF Aligned
      <4>2. Cardinality(p.slots) >= Capacity => Cardinality(q.slots) >= Capacity
        BY <4>1, SlotAssumption
      <4>3. q.rebalance <=> p.rebalance
        BY <2>2, <3>3 DEF Aligned
      <4>4. QED
        BY <4>1, <4>2, <4>3, SlotAssumption
    <3>4. QED
      BY <3>1, <3>2, <3>3
  <2>6. QED
    BY <2>2, <2>3, <2>4, <2>5 DEF SettledPools, q
<1>3. QED
  BY <1>1, <1>2

\* Nobody takes a slot from a bot that has a use for it.
LEMMA SlotsKept ==
    ASSUME NEW w \in WorldType, NEW favourite \in Favourites, NEW a \in Bots
    PROVE  Stable(KeepsSlot(a, w, favourite), w, favourite)
<1> SUFFICES ASSUME NEW p \in KeepsSlot(a, w, favourite), NEW b \in Bots
             PROVE  Align(p, b, w, favourite) \in KeepsSlot(a, w, favourite)
  BY DEF Stable
<1> DEFINE want == Selected(w, b, favourite)
           q == Align(p, b, w, favourite)
<1>1. p \in PoolType
  BY DEF KeepsSlot
<1>2. q \in PoolType /\ Aligned(q, p, b, want)
  BY <1>1, AlignFacts
<1>3. q.room[a] = IF a = b THEN want ELSE p.room[a]
  BY <1>2 DEF Aligned
<1>4. a \in p.slots /\ ~ (a = b /\ want = NoRoom) => a \in q.slots
  BY <1>2 DEF Acquire, Aligned
<1>5. QED
  BY <1>2, <1>3, <1>4 DEF KeepsSlot
-----------------------------------------------------------------------------
(* Runs of calls. *)

\* A list of the bots of a set has each of them.
LEMMA ListFacts ==
    ASSUME NEW S \in SUBSET Bots, NEW list \in SetToSeqs(S)
    PROVE  /\ list \in Seq(Bots)
           /\ S = ToSet(list)
<1> DEFINE N == Cardinality(S)
<1>1. IsFiniteSet(S) /\ N \in Nat
  BY FS_Subset, FS_CardinalityType, SlotAssumption
<1>2. list \in [1..N -> S] /\ \A i, j \in 1..N : i # j => list[i] # list[j]
  BY DEF SetToSeqs
<1> HIDE DEF N
<1>3. list \in Seq(Bots) /\ Len(list) = N
  BY <1>1, <1>2
<1>4. list \in Injection(1..N, S)
  BY <1>2 DEF Injection, IsInjective
<1>5. IsFiniteSet(1..N) /\ Cardinality(1..N) = N
  BY <1>1, FS_Interval
<1>6. list \in Surjection(1..N, S)
  BY <1>1, <1>4, <1>5, FS_Injection DEF N
<1>7. S = ToSet(list)
  BY <1>2, <1>6 DEF Surjection, ToSet
<1>8. QED
  BY <1>3, <1>7

\* What calls for the bots of a set come to: they settle these, leave settled
\* bots settled, and take no slot that is of use.
Settles(r, p, w, edits, called) ==
    /\ r \in SoundPools(w)
    /\ \A a \in Bots :
          (w.session[a] # "online" \/ p \in SettledPools(a, w, edits) \/ a \in called)
          => r \in SettledPools(a, w, edits)
    /\ \A a \in p.slots : a \in r.slots \/ r.room[a] = NoRoom

LEMMA RunSettles ==
    ASSUME NEW w \in WorldType, NEW favourite \in Favourites, NEW edits,
           NEW p \in SoundPools(w), NEW list \in Seq(Bots)
    PROVE  Settles(Synced(p, list, w, favourite)[Len(list)], p, w, edits, ToSet(list))
<1> DEFINE r == Synced(p, list, w, favourite)[Len(list)]
<1>1. SoundPools(w) \in SUBSET PoolType /\ Stable(SoundPools(w), w, favourite)
      /\ p \in PoolType /\ 0 \in 0..Len(list)
  BY SoundStable DEF SoundPools
<1>2. r \in SoundPools(w)
  <2>1. SoundPools(w) \in SUBSET SoundPools(w)
    OBVIOUS
  <2>2. QED
    BY <1>1, <2>1, SyncedReaches
<1>3. ASSUME NEW a \in Bots, w.session[a] # "online"
      PROVE  r \in SettledPools(a, w, edits)
  BY <1>2, <1>3 DEF SettledPools
<1>4. ASSUME NEW a \in Bots
      PROVE  /\ SettledPools(a, w, edits) \in SUBSET SoundPools(w)
             /\ Stable(SettledPools(a, w, edits), w, favourite)
  BY SettledStable DEF SettledPools
<1>5. ASSUME NEW a \in Bots, p \in SettledPools(a, w, edits)
      PROVE  r \in SettledPools(a, w, edits)
  BY <1>1, <1>4, <1>5, SyncedReaches
<1>6. ASSUME NEW a \in Bots, w.session[a] = "online", NEW k \in 1..Len(list), list[k] = a
      PROVE  r \in SettledPools(a, w, edits)
  <2>1. k \in 0..Len(list) /\ k # 0
    OBVIOUS
  <2>2. \A x \in SoundPools(w) : Align(x, list[k], w, favourite) \in SettledPools(a, w, edits)
    BY <1>6, AlignSettles
  <2>3. QED
    BY <1>1, <1>4, <1>6, <2>1, <2>2, SyncedReaches
<1>7. ASSUME NEW a \in p.slots
      PROVE  a \in r.slots \/ r.room[a] = NoRoom
  <2>1. a \in Bots /\ p \in KeepsSlot(a, w, favourite)
    BY <1>1 DEF KeepsSlot, PoolType
  <2>2. KeepsSlot(a, w, favourite) \in SUBSET PoolType
    BY DEF KeepsSlot
  <2>3. r \in KeepsSlot(a, w, favourite)
    <3>1. KeepsSlot(a, w, favourite) \in SUBSET KeepsSlot(a, w, favourite)
      OBVIOUS
    <3>2. QED
      BY <1>1, <2>1, <2>2, <3>1, SlotsKept, SyncedReaches
  <2>4. QED
    BY <2>3 DEF KeepsSlot
<1>8. \A a \in ToSet(list) : \E k \in 1..Len(list) : list[k] = a
  BY DEF ToSet
<1> HIDE DEF r
<1>9. QED
  BY <1>2, <1>3, <1>5, <1>6, <1>7, <1>8 DEF Settles, r

LEMMA CallSettles ==
    ASSUME NEW w \in WorldType, NEW favourite \in Favourites, NEW edits,
           NEW p \in SoundPools(w), NEW b \in Bots, NEW list \in Seq(Bots)
    PROVE  Settles(Sync(p, b, list, w, favourite), p, w, edits, {b})
<1> DEFINE r == Sync(p, b, list, w, favourite)
<1>1. SoundPools(w) \in SUBSET PoolType /\ Stable(SoundPools(w), w, favourite)
      /\ p \in PoolType
  BY SoundStable DEF SoundPools
<1>2. ASSUME NEW G \in SUBSET PoolType, Stable(G, w, favourite), p \in G
      PROVE  r \in G
  <2>1. IF w.session[b] = "online" THEN Align(p, b, w, favourite) \in G ELSE p \in G
    BY <1>2 DEF Stable
  <2>2. QED
    BY <1>1, <1>2, <2>1, SyncReaches
<1>3. r \in SoundPools(w)
  BY <1>1, <1>2
<1>4. ASSUME NEW a \in Bots, w.session[a] # "online"
      PROVE  r \in SettledPools(a, w, edits)
  BY <1>3, <1>4 DEF SettledPools
<1>5. ASSUME NEW a \in Bots
      PROVE  /\ SettledPools(a, w, edits) \in SUBSET PoolType
             /\ Stable(SettledPools(a, w, edits), w, favourite)
  BY <1>1, SettledStable DEF SettledPools
<1>6. ASSUME NEW a \in Bots, p \in SettledPools(a, w, edits)
      PROVE  r \in SettledPools(a, w, edits)
  BY <1>2, <1>5, <1>6
<1>7. ASSUME w.session[b] = "online"
      PROVE  r \in SettledPools(b, w, edits)
  <2>1. Align(p, b, w, favourite) \in SettledPools(b, w, edits)
    BY <1>7, AlignSettles
  <2>2. QED
    BY <1>1, <1>5, <1>7, <2>1, SyncReaches
<1>8. ASSUME NEW a \in p.slots
      PROVE  a \in r.slots \/ r.room[a] = NoRoom
  <2>1. a \in Bots /\ p \in KeepsSlot(a, w, favourite)
    BY <1>1 DEF KeepsSlot, PoolType
  <2>2. KeepsSlot(a, w, favourite) \in SUBSET PoolType
    BY DEF KeepsSlot
  <2>3. r \in KeepsSlot(a, w, favourite)
    BY <1>2, <2>1, <2>2, SlotsKept
  <2>4. QED
    BY <2>3 DEF KeepsSlot
<1> HIDE DEF r
<1>9. QED
  BY <1>3, <1>4, <1>6, <1>7, <1>8 DEF Settles, r

\* A bot that nothing has changed for stays settled.
LEMMA Elsewhere ==
    ASSUME NEW v \in WorldType, NEW w \in WorldType, NEW a \in Bots, NEW edits, NEW later,
           NEW p \in SettledPools(a, v, edits), NEW r \in SoundPools(w),
           w.session[a] = v.session[a], w.blocked[a] = v.blocked[a],
           w.enabled[a] = v.enabled[a], w.rules[a] = v.rules[a],
           r.room[a] = p.room[a], r.pace[a] = p.pace[a], r.slots = p.slots,
           p.rebalance => r.rebalance,
           a \in edits \cup p.unsynced => a \in later \cup r.unsynced
    PROVE  r \in SettledPools(a, w, later)
<1>1. Candidates(w, a) = Candidates(v, a)
  BY DEF Candidates
<1>2. QED
  BY <1>1 DEF SettledPools
-----------------------------------------------------------------------------
(* The invariant. *)

\* What is known of the pools: they are sound, and every bot is settled but for
\* the edits whose handlers still wait.
PoolsInv ==
    /\ World \in WorldType
    /\ Pool \in SoundPools(World)
    /\ \A a \in Bots : Pool \in SettledPools(a, World, saving)

\* A room that denied a bot is blocked for it.
DeniedBlocked ==
    /\ denied \in [Bots -> SUBSET Rooms]
    /\ \A a \in Bots : denied[a] \subseteq blocked[a]

SlotInv == PoolsInv /\ DeniedBlocked

\* A bot that leaves the pool has no room.
Leaves == \A a \in slots : a \in slots' \/ room'[a] = NoRoom

\* The values of World and Pool are those of the variables.
LEMMA Values ==
    /\ World.session = session /\ World.blocked = blocked
    /\ World.enabled = enabled /\ World.rules = rules
    /\ Pool.room = room /\ Pool.pace = pace /\ Pool.slots = slots
    /\ Pool.rebalance = rebalance /\ Pool.unsynced = unsynced
BY DEF World, Pool

LEMMA BecomesFacts ==
    ASSUME NEW w \in WorldType, NEW p \in PoolType, Becomes(w, p)
    PROVE  World' = w /\ Pool' = p
<1>1. /\ w = [session |-> w.session, blocked |-> w.blocked, enabled |-> w.enabled,
              rules |-> w.rules]
      /\ p = [room |-> p.room, pace |-> p.pace, slots |-> p.slots,
              rebalance |-> p.rebalance, unsynced |-> p.unsynced]
  BY DEF WorldType, PoolType
<1>2. /\ World' = [session |-> w.session, blocked |-> w.blocked, enabled |-> w.enabled,
                   rules |-> w.rules]
      /\ Pool' = [room |-> p.room, pace |-> p.pace, slots |-> p.slots,
                  rebalance |-> p.rebalance, unsynced |-> p.unsynced]
  BY DEF Becomes, World, Pool
<1>3. QED
  BY <1>1, <1>2

\* A handler that calls for every bot that is online settles them all.
LEMMA HandlesSettles ==
    ASSUME NEW w \in WorldType, NEW p \in SoundPools(w), NEW lists \in SUBSET Seq(Bots),
           \A list \in lists, a \in Bots : w.session[a] = "online" => a \in ToSet(list),
           Handles(w, p, lists)
    PROVE  /\ PoolsInv' /\ World' = w
           /\ \A a \in p.slots : a \in slots' \/ room'[a] = NoRoom
<1>1. PICK list \in lists, favourite \in Favourites :
          Becomes(w, Synced(p, list, w, favourite)[Len(list)])
  BY DEF Handles
<1> DEFINE r == Synced(p, list, w, favourite)[Len(list)]
<1>2. list \in Seq(Bots)
  OBVIOUS
<1>3. /\ r \in SoundPools(w)
      /\ \A a \in Bots : r \in SettledPools(a, w, saving')
      /\ \A a \in p.slots : a \in r.slots \/ r.room[a] = NoRoom
  <2> DEFINE called == ToSet(list)
  <2>1. Settles(r, p, w, saving', called)
    BY <1>2, RunSettles
  <2>2. \A a \in Bots : w.session[a] = "online" => a \in called
    BY <1>2
  <2> HIDE DEF r, called
  <2>3. QED
    BY <2>1, <2>2 DEF Settles
<1> HIDE DEF r
<1>4. r \in PoolType
  BY <1>3 DEF SoundPools
<1>5. World' = w /\ Pool' = r
  BY <1>1, <1>4, BecomesFacts DEF r
<1>6. slots' = r.slots /\ room' = r.room
  BY <1>1 DEF Becomes, r
<1>7. QED
  BY <1>3, <1>5, <1>6 DEF PoolsInv

\* A handler that calls for the one bot it has changed anything for, likewise.
LEMMA SyncOneSettles ==
    ASSUME PoolsInv, NEW w \in WorldType, NEW b \in Bots,
           w.session = session,
           \A a \in Bots \ {b} :
               /\ w.blocked[a] = blocked[a] /\ w.enabled[a] = enabled[a]
               /\ w.rules[a] = rules[a]
               /\ (a \in saving => a \in saving'),
           SyncOne(w, Pool, b)
    PROVE  PoolsInv' /\ World' = w /\ Leaves
<1>1. PICK list \in SetToSeqs(Siblings(b)), favourite \in Favourites :
          Becomes(w, Sync(Pool, b, list, w, favourite))
  BY DEF SyncOne
<1> DEFINE r == Sync(Pool, b, list, w, favourite)
<1>2. list \in Seq(Bots)
  <2>1. Siblings(b) \in SUBSET Bots
    BY DEF Siblings
  <2>2. QED
    BY <2>1, ListFacts
<1>3. Pool \in SoundPools(w)
  BY Values DEF PoolsInv, SoundPools
<1>4. ASSUME NEW a \in Bots \ {b}
      PROVE  Pool \in SettledPools(a, w, saving')
  BY <1>3, Values, Elsewhere DEF PoolsInv
<1>5. /\ r \in SoundPools(w)
      /\ \A a \in Bots : r \in SettledPools(a, w, saving')
      /\ \A a \in Pool.slots : a \in r.slots \/ r.room[a] = NoRoom
  <2>1. Settles(r, Pool, w, saving', {b})
    BY <1>2, <1>3, CallSettles
  <2> HIDE DEF r
  <2>2. QED
    BY <1>4, <2>1 DEF Settles
<1> HIDE DEF r
<1>6. r \in PoolType
  BY <1>5 DEF SoundPools
<1>7. World' = w /\ Pool' = r
  BY <1>1, <1>6, BecomesFacts DEF r
<1>8. slots' = r.slots /\ room' = r.room
  BY <1>1 DEF Becomes, r
<1>9. QED
  BY <1>5, <1>7, <1>8, Values DEF PoolsInv, Leaves

\* A handler that calls for nobody.
LEMMA BecomesSettles ==
    ASSUME NEW w \in WorldType, NEW p \in SoundPools(w),
           \A a \in Bots : p \in SettledPools(a, w, saving'), Becomes(w, p)
    PROVE  PoolsInv' /\ World' = w
<1>1. p \in PoolType
  BY DEF SoundPools
<1>2. World' = w /\ Pool' = p
  BY <1>1, BecomesFacts
<1>3. QED
  BY <1>2 DEF PoolsInv
LEMMA Types ==
    ASSUME PoolsInv
    PROVE  /\ session \in [Bots -> {"none", "login", "failed", "online"}]
           /\ blocked \in [Bots -> SUBSET Rooms]
           /\ enabled \in [Bots -> SUBSET Rooms]
           /\ rules \in [Bots -> BOOLEAN]
           /\ room \in [Bots -> Rooms \cup {NoRoom}]
           /\ pace \in [Bots -> {"fast", "slow", "off"}]
           /\ slots \in SUBSET Bots /\ rebalance \in BOOLEAN /\ unsynced \in SUBSET Bots
           /\ Cardinality(slots) <= Capacity
           /\ \A a \in Bots : room[a] # NoRoom =>
                 session[a] = "online" /\ (pace[a] = "fast" <=> a \in slots)
BY DEF PoolsInv, WorldType, SoundPools, PoolType, World, Pool

LEMMA InitSettled == SlotInit => SlotInv
<1> SUFFICES ASSUME SlotInit PROVE SlotInv
  OBVIOUS
<1> USE DEF SlotInit
<1>1. enabled \in [Bots -> SUBSET Rooms] /\ rules \in [Bots -> BOOLEAN]
  OBVIOUS
<1>2. World \in WorldType
  BY <1>1 DEF World, WorldType
<1>3. Pool \in SoundPools(World)
  <2>1. Pool \in PoolType
    BY DEF Pool, PoolType
  <2>2. Cardinality({}) = 0
    BY FS_EmptySet
  <2>3. QED
    BY <2>1, <2>2, SlotAssumption, Values DEF SoundPools
<1>4. \A a \in Bots : Pool \in SettledPools(a, World, saving)
  BY <1>3, Values DEF SettledPools
<1>5. QED
  BY <1>2, <1>3, <1>4 DEF SlotInv, PoolsInv, DeniedBlocked

\* What starting, losing and storing do to the other bots: nothing.
LEMMA Untouched ==
    ASSUME PoolsInv, NEW w \in WorldType, NEW p \in SoundPools(w), NEW b \in Bots,
           \A a \in Bots \ {b} :
               /\ w.session[a] = session[a] /\ w.blocked[a] = blocked[a]
               /\ w.enabled[a] = enabled[a] /\ w.rules[a] = rules[a]
               /\ p.room[a] = room[a] /\ p.pace[a] = pace[a]
               /\ (a \in saving \cup unsynced => a \in saving' \cup p.unsynced),
           p.slots = slots, p.rebalance = rebalance
    PROVE  \A a \in Bots \ {b} : p \in SettledPools(a, w, saving')
<1> TAKE a \in Bots \ {b}
<1>1. World \in WorldType /\ Pool \in SettledPools(a, World, saving)
  BY DEF PoolsInv
<1>2. /\ w.session[a] = World.session[a] /\ w.blocked[a] = World.blocked[a]
      /\ w.enabled[a] = World.enabled[a] /\ w.rules[a] = World.rules[a]
      /\ p.room[a] = Pool.room[a] /\ p.pace[a] = Pool.pace[a] /\ p.slots = Pool.slots
      /\ (Pool.rebalance => p.rebalance)
      /\ (a \in saving \cup Pool.unsynced => a \in saving' \cup p.unsynced)
  BY Values
<1>3. QED
  BY <1>1, <1>2, Elsewhere

LEMMA SilentStep ==
    ASSUME SlotInv, NEW b \in Bots,
           \/ Lost(b) \/ Start(b) \/ LoginFails(b)
           \/ \E answers \in BOOLEAN : SaveRule(b, answers)
           \/ \E a \in Bots : CopyConfig(a, b)
    PROVE  SlotInv' /\ Leaves
<1>0. PoolsInv /\ DeniedBlocked
  BY DEF SlotInv
<1>1. CASE Lost(b)
  <2> DEFINE w == [World EXCEPT !.session[b] = "login"]
             p == Silenced(b)
  <2>1. /\ w \in WorldType /\ w.session = [session EXCEPT ![b] = "login"]
        /\ w.blocked = blocked /\ w.enabled = enabled /\ w.rules = rules
    BY <1>0, Types DEF World, WorldType
  <2>2. /\ p \in PoolType /\ p.room = [room EXCEPT ![b] = NoRoom]
        /\ p.pace = [pace EXCEPT ![b] = "off"] /\ p.slots = slots
        /\ p.rebalance = rebalance /\ p.unsynced = unsynced \ {b}
    BY <1>0, Types DEF Pool, PoolType, Silenced
  <2>3. Becomes(w, p) /\ UNCHANGED <<saving, denied>>
    BY <1>1 DEF Lost
  <2> HIDE DEF w, p
  <2>4. p \in SoundPools(w)
    <3>1. \A a \in Bots : p.room[a] # NoRoom =>
              /\ w.session[a] = session[a] /\ p.room[a] = room[a] /\ p.pace[a] = pace[a]
      BY <1>0, <2>1, <2>2, Types
    <3>2. QED
      BY <1>0, <2>2, <3>1, Types DEF SoundPools
  <2>5. p \in SettledPools(b, w, saving')
    BY <1>0, <2>1, <2>4, Types DEF SettledPools
  <2>6. \A a \in Bots \ {b} : p \in SettledPools(a, w, saving')
    BY <1>0, <2>1, <2>2, <2>3, <2>4, Types, Untouched
  <2>7. PoolsInv' /\ World' = w
    BY <2>1, <2>3, <2>4, <2>5, <2>6, BecomesSettles
  <2>8. DeniedBlocked' /\ Leaves
    BY <1>0, <2>1, <2>2, <2>3 DEF DeniedBlocked, Becomes, Leaves
  <2>9. QED
    BY <2>7, <2>8 DEF SlotInv
<1>2. CASE Start(b)
  <2> DEFINE w == [World EXCEPT !.session[b] = "login", !.blocked[b] = {}]
  <2>1. /\ w \in WorldType /\ w.session = [session EXCEPT ![b] = "login"]
        /\ w.blocked = [blocked EXCEPT ![b] = {}] /\ w.enabled = enabled /\ w.rules = rules
    BY <1>0, Types DEF World, WorldType
  <2>2. Pool \in PoolType
    BY <1>0 DEF PoolsInv, SoundPools
  <2>3. /\ Becomes(w, Pool) /\ saving' = saving /\ denied' = [denied EXCEPT ![b] = {}]
        /\ session[b] \in {"none", "failed"}
    BY <1>2 DEF Start
  <2> HIDE DEF w
  <2>4. Pool \in SoundPools(w)
    BY <1>0, <2>1, <2>2, <2>3, Types, Values DEF SoundPools
  <2>5. Pool \in SettledPools(b, w, saving')
    BY <1>0, <2>1, <2>4, Types DEF SettledPools
  <2>6. \A a \in Bots \ {b} : Pool \in SettledPools(a, w, saving')
    BY <1>0, <2>1, <2>3, <2>4, Types, Values, Untouched
  <2>7. PoolsInv' /\ World' = w
    BY <2>1, <2>3, <2>4, <2>5, <2>6, BecomesSettles
  <2>8. DeniedBlocked' /\ Leaves
    BY <1>0, <2>1, <2>3, Types, Values DEF DeniedBlocked, Becomes, Leaves
  <2>9. QED
    BY <2>7, <2>8 DEF SlotInv
<1>3. CASE LoginFails(b)
  <2> DEFINE w == [World EXCEPT !.session[b] = "failed"]
  <2>1. /\ w \in WorldType /\ w.session = [session EXCEPT ![b] = "failed"]
        /\ w.blocked = blocked /\ w.enabled = enabled /\ w.rules = rules
    BY <1>0, Types DEF World, WorldType
  <2>2. Pool \in PoolType
    BY <1>0 DEF PoolsInv, SoundPools
  <2>3. Becomes(w, Pool) /\ UNCHANGED <<saving, denied>> /\ session[b] = "login"
    BY <1>3 DEF LoginFails
  <2> HIDE DEF w
  <2>4. Pool \in SoundPools(w)
    BY <1>0, <2>1, <2>2, <2>3, Types, Values DEF SoundPools
  <2>5. Pool \in SettledPools(b, w, saving')
    BY <1>0, <2>1, <2>4, Types DEF SettledPools
  <2>6. \A a \in Bots \ {b} : Pool \in SettledPools(a, w, saving')
    BY <1>0, <2>1, <2>3, <2>4, Types, Values, Untouched
  <2>7. PoolsInv' /\ World' = w
    BY <2>1, <2>3, <2>4, <2>5, <2>6, BecomesSettles
  <2>8. DeniedBlocked' /\ Leaves
    BY <1>0, <2>1, <2>3, Values DEF DeniedBlocked, Becomes, Leaves
  <2>9. QED
    BY <2>7, <2>8 DEF SlotInv
<1>4. ASSUME NEW answers \in BOOLEAN, SaveRule(b, answers)
      PROVE  SlotInv' /\ Leaves
  <2> DEFINE w == [World EXCEPT !.rules[b] = answers]
  <2>1. /\ w \in WorldType /\ w.rules = [rules EXCEPT ![b] = answers]
        /\ w.session = session /\ w.blocked = blocked /\ w.enabled = enabled
    BY <1>0, Types DEF World, WorldType
  <2>2. Pool \in PoolType
    BY <1>0 DEF PoolsInv, SoundPools
  <2>3. /\ Becomes(w, Pool) /\ denied' = denied /\ saving \subseteq saving'
        /\ session[b] = "online" => b \in saving'
    BY <1>4 DEF SaveRule
  <2> HIDE DEF w
  <2>4. Pool \in SoundPools(w)
    BY <1>0, <2>1, <2>2, Types, Values DEF SoundPools
  <2>5. Pool \in SettledPools(b, w, saving')
    <3>1. session[b] = "online" => room[b] \notin blocked[b] /\
            (rebalance \/ ~ (Cardinality(slots) < Capacity) \/ room[b] = NoRoom \/ pace[b] = "fast")
      BY <1>0, Values DEF PoolsInv, SettledPools
    <3>2. QED
      BY <2>1, <2>3, <2>4, <3>1, Values DEF SettledPools
  <2>6. \A a \in Bots \ {b} : Pool \in SettledPools(a, w, saving')
    BY <1>0, <2>1, <2>3, <2>4, Types, Values, Untouched
  <2>7. PoolsInv' /\ World' = w
    BY <2>1, <2>3, <2>4, <2>5, <2>6, BecomesSettles
  <2>8. DeniedBlocked' /\ Leaves
    BY <1>0, <2>1, <2>3, Values DEF DeniedBlocked, Becomes, Leaves
  <2>9. QED
    BY <2>7, <2>8 DEF SlotInv
<1>5. ASSUME NEW c \in Bots, CopyConfig(c, b)
      PROVE  SlotInv' /\ Leaves
  <2> DEFINE w == [World EXCEPT !.rules[b] = TRUE]
             p == [Pool EXCEPT !.unsynced = unsynced \cup ({b} \cap Online)]
  <2>1. /\ w \in WorldType /\ w.rules = [rules EXCEPT ![b] = TRUE]
        /\ w.session = session /\ w.blocked = blocked /\ w.enabled = enabled
    BY <1>0, Types DEF World, WorldType
  <2>2. /\ p \in PoolType /\ p.room = room /\ p.pace = pace /\ p.slots = slots
        /\ p.rebalance = rebalance /\ p.unsynced = unsynced \cup ({b} \cap Online)
    BY <1>0, Types DEF Pool, PoolType
  <2>3. Becomes(w, p) /\ UNCHANGED <<saving, denied>>
    BY <1>5, Values DEF CopyConfig
  <2> HIDE DEF w, p
  <2>4. p \in SoundPools(w)
    BY <1>0, <2>1, <2>2, Types DEF SoundPools
  <2>5. p \in SettledPools(b, w, saving')
    <3>1. session[b] = "online" => room[b] \notin blocked[b] /\
            (rebalance \/ ~ (Cardinality(slots) < Capacity) \/ room[b] = NoRoom \/ pace[b] = "fast")
      BY <1>0, Values DEF PoolsInv, SettledPools
    <3>2. QED
      BY <2>1, <2>2, <2>4, <3>1 DEF SettledPools, Online
  <2>6. \A a \in Bots \ {b} : p \in SettledPools(a, w, saving')
    <3>1. saving' = saving /\ \A a \in Bots \ {b} : w.rules[a] = rules[a]
      BY <1>0, <2>1, <2>3, Types
    <3>2. QED
      BY <1>0, <2>1, <2>2, <2>4, <3>1, Untouched
  <2>7. PoolsInv' /\ World' = w
    BY <2>1, <2>3, <2>4, <2>5, <2>6, BecomesSettles
  <2>8. DeniedBlocked' /\ Leaves
    BY <1>0, <2>1, <2>2, <2>3 DEF DeniedBlocked, Becomes, Leaves
  <2>9. QED
    BY <2>7, <2>8 DEF SlotInv
<1>6. QED
  BY <1>1, <1>2, <1>3, <1>4, <1>5
\* A handler after which every online bot is called for.
LEMMA RunStep ==
    ASSUME SlotInv, NEW b \in Bots, LoginSucceeds(b) \/ Stop(b) \/ Rebalance
    PROVE  SlotInv' /\ Leaves
<1>0. PoolsInv /\ DeniedBlocked /\ Pool \in PoolType
  BY DEF SlotInv, PoolsInv, SoundPools
<1>1. CASE LoginSucceeds(b)
  <2> DEFINE w == [World EXCEPT !.session[b] = "online"]
             lists == {<<b>> \o others : others \in SetToSeqs(Bots \ {b})}
  <2>1. /\ w \in WorldType /\ w.session = [session EXCEPT ![b] = "online"]
        /\ w.blocked = blocked
    BY <1>0, Types DEF World, WorldType
  <2>2. Handles(w, Pool, lists) /\ UNCHANGED <<saving, denied>>
    BY <1>1 DEF LoginSucceeds
  <2>3. ASSUME NEW list \in lists
        PROVE  list \in Seq(Bots) /\ \A a \in Bots : a \in ToSet(list)
    <3>1. PICK others \in SetToSeqs(Bots \ {b}) : list = <<b>> \o others
      OBVIOUS
    <3>2. others \in Seq(Bots) /\ Bots \ {b} = ToSet(others)
      BY ListFacts
    <3>3. /\ list \in Seq(Bots) /\ Len(list) = 1 + Len(others) /\ list[1] = b
          /\ \A k \in 1..Len(others) : list[k + 1] = others[k]
      BY <3>1, <3>2
    <3>4. b \in ToSet(list)
      BY <3>2, <3>3 DEF ToSet
    <3>5. ASSUME NEW a \in Bots \ {b}
          PROVE  a \in ToSet(list)
      <4>1. PICK k \in 1..Len(others) : others[k] = a
        BY <3>2 DEF ToSet
      <4>2. k + 1 \in 1..Len(list) /\ list[k + 1] = a
        BY <3>2, <3>3, <4>1
      <4>3. QED
        BY <3>3, <4>2 DEF ToSet
    <3>6. QED
      BY <3>3, <3>4, <3>5
  <2> HIDE DEF w, lists
  <2>4. Pool \in SoundPools(w)
    BY <1>0, <2>1, Types, Values DEF SoundPools
  <2>5. /\ PoolsInv' /\ World' = w
        /\ \A a \in Pool.slots : a \in slots' \/ room'[a] = NoRoom
    <3>1. lists \in SUBSET Seq(Bots)
      BY <2>3
    <3>2. QED
      BY <2>1, <2>2, <2>3, <2>4, <3>1, HandlesSettles
  <2>6. blocked' = blocked
    BY <2>1, <2>5, Values DEF World
  <2>7. QED
    BY <1>0, <2>2, <2>5, <2>6, Values DEF SlotInv, DeniedBlocked, Leaves
<1>2. CASE Stop(b)
  <2> DEFINE w == [World EXCEPT !.session[b] = "none", !.blocked[b] = {}]
             p == [Silenced(b) EXCEPT !.slots = slots \ {b}]
             lists == SetToSeqs(Bots \ {b})
  <2>1. /\ w \in WorldType /\ w.session = [session EXCEPT ![b] = "none"]
        /\ w.blocked = [blocked EXCEPT ![b] = {}]
    BY <1>0, Types DEF World, WorldType
  <2>2. /\ p \in PoolType /\ p.room = [room EXCEPT ![b] = NoRoom]
        /\ p.pace = [pace EXCEPT ![b] = "off"] /\ p.slots = slots \ {b}
    BY <1>0, Types DEF Pool, PoolType, Silenced
  <2>3. /\ Handles(w, p, lists) /\ saving' = saving
        /\ denied' = [denied EXCEPT ![b] = {}]
    BY <1>2 DEF Stop, Silenced, Pool
  <2>4. ASSUME NEW list \in lists
        PROVE  list \in Seq(Bots) /\ \A a \in Bots \ {b} : a \in ToSet(list)
    BY ListFacts
  <2> HIDE DEF w, p, lists
  <2>5. p \in SoundPools(w)
    <3>1. Cardinality(slots \ {b}) <= Capacity
      BY <1>0, Types, AcquireFacts
    <3>2. \A a \in Bots : p.room[a] # NoRoom =>
              /\ w.session[a] = session[a] /\ p.room[a] = room[a] /\ p.pace[a] = pace[a]
              /\ (a \in p.slots <=> a \in slots)
      BY <1>0, <2>1, <2>2, Types
    <3>3. QED
      BY <1>0, <2>2, <3>1, <3>2, Types DEF SoundPools
  <2>6. /\ PoolsInv' /\ World' = w
        /\ \A a \in p.slots : a \in slots' \/ room'[a] = NoRoom
    <3>1. lists \in SUBSET Seq(Bots)
      BY <2>4
    <3>2. \A list \in lists, a \in Bots : w.session[a] = "online" => a \in ToSet(list)
      BY <1>0, <2>1, <2>4, Types
    <3>3. QED
      BY <2>1, <2>3, <2>5, <3>1, <3>2, HandlesSettles
  <2>7. blocked' = [blocked EXCEPT ![b] = {}] /\ session' = [session EXCEPT ![b] = "none"]
    BY <2>1, <2>6, Values DEF World
  <2>8. room'[b] = NoRoom
    <3>1. PoolsInv' => (room'[b] # NoRoom => session'[b] = "online")
      BY DEF PoolsInv, SoundPools, World, Pool
    <3>2. session'[b] = "none"
      BY <1>0, <2>7, Types
    <3>3. QED
      BY <2>6, <3>1, <3>2
  <2>9. DeniedBlocked'
    BY <1>0, <2>3, <2>7, Types DEF DeniedBlocked
  <2>10. QED
    BY <2>2, <2>6, <2>8, <2>9 DEF SlotInv, Leaves
<1>3. CASE Rebalance
  <2> DEFINE p == [Pool EXCEPT !.rebalance = FALSE]
             lists == SetToSeqs(Bots)
  <2>1. p \in PoolType /\ p.room = room /\ p.pace = pace /\ p.slots = slots
    BY <1>0, Types DEF Pool, PoolType
  <2>2. Handles(World, p, lists) /\ UNCHANGED <<saving, denied>>
    BY <1>3 DEF Rebalance
  <2>3. ASSUME NEW list \in lists
        PROVE  list \in Seq(Bots) /\ \A a \in Bots : a \in ToSet(list)
    BY ListFacts
  <2> HIDE DEF p, lists
  <2>4. World \in WorldType /\ p \in SoundPools(World)
    BY <1>0, <2>1, Types, Values DEF SoundPools, PoolsInv
  <2>5. /\ PoolsInv' /\ World' = World
        /\ \A a \in p.slots : a \in slots' \/ room'[a] = NoRoom
    <3>1. lists \in SUBSET Seq(Bots)
      BY <2>3
    <3>2. QED
      BY <2>2, <2>3, <2>4, <3>1, HandlesSettles
  <2>6. blocked' = blocked
    BY <2>5 DEF World
  <2>7. QED
    BY <1>0, <2>1, <2>2, <2>5, <2>6 DEF SlotInv, DeniedBlocked, Leaves
<1>4. QED
  BY <1>1, <1>2, <1>3

LEMMA RebalanceStep ==
    ASSUME SlotInv, Rebalance
    PROVE  SlotInv' /\ Leaves
<1>0. PoolsInv /\ DeniedBlocked /\ Pool \in PoolType
  BY DEF SlotInv, PoolsInv, SoundPools
<1> DEFINE p == [Pool EXCEPT !.rebalance = FALSE]
           lists == SetToSeqs(Bots)
<1>1. p \in PoolType /\ p.room = room /\ p.pace = pace /\ p.slots = slots
  BY <1>0, Types DEF Pool, PoolType
<1>2. Handles(World, p, lists) /\ UNCHANGED <<saving, denied>>
  BY DEF Rebalance
<1>3. ASSUME NEW list \in lists
      PROVE  list \in Seq(Bots) /\ \A a \in Bots : a \in ToSet(list)
  BY ListFacts
<1> HIDE DEF p, lists
<1>4. World \in WorldType /\ p \in SoundPools(World)
  BY <1>0, <1>1, Types, Values DEF SoundPools, PoolsInv
<1>5. /\ PoolsInv' /\ World' = World
      /\ \A a \in p.slots : a \in slots' \/ room'[a] = NoRoom
  <2>1. lists \in SUBSET Seq(Bots)
    BY <1>3
  <2>2. QED
    BY <1>2, <1>3, <1>4, <2>1, HandlesSettles
<1>6. blocked' = blocked
  BY <1>5 DEF World
<1>7. QED
  BY <1>0, <1>1, <1>2, <1>5, <1>6 DEF SlotInv, DeniedBlocked, Leaves

\* What a handler that calls for its own bot b does before.
OwnChange(w, b) ==
    /\ w.session = session
    /\ \A a \in Bots \ {b} :
          /\ w.blocked[a] = blocked[a] /\ w.enabled[a] = enabled[a]
          /\ w.rules[a] = rules[a]
          /\ (a \in saving => a \in saving')
    /\ \A a \in Bots : blocked[a] \subseteq w.blocked[a]
    /\ SyncOne(w, Pool, b)
    /\ denied' \in [Bots -> SUBSET Rooms]
    /\ \A a \in Bots : denied'[a] \subseteq denied[a] \cup w.blocked[a]

LEMMA OwnStep ==
    ASSUME SlotInv, NEW b \in Bots,
           \/ \E r \in Rooms : Enable(b, r) \/ Disable(b, r)
           \/ RuleSaved(b) \/ DeleteRule(b) \/ Deny(b) \/ Reselect(b)
    PROVE  SlotInv' /\ Leaves
<1>0. /\ PoolsInv /\ DeniedBlocked
      /\ World \in WorldType /\ denied \in [Bots -> SUBSET Rooms]
  BY DEF SlotInv, DeniedBlocked, PoolsInv
<1>1. ASSUME NEW r \in Rooms, Enable(b, r)
      PROVE  \E w \in WorldType : OwnChange(w, b)
  <2> DEFINE w == [World EXCEPT !.enabled[b] = {r}]
  <2>1. /\ w \in WorldType /\ w.session = session /\ w.blocked = blocked
        /\ w.rules = rules /\ w.enabled = [enabled EXCEPT ![b] = {r}]
    BY <1>0, Types DEF World, WorldType
  <2>2. SyncOne(w, Pool, b) /\ UNCHANGED <<saving, denied>>
    BY <1>1 DEF Enable
  <2> HIDE DEF w
  <2>3. OwnChange(w, b)
    BY <1>0, <2>1, <2>2, Types DEF OwnChange
  <2>4. QED
    BY <2>1, <2>3
<1>2. ASSUME NEW r \in Rooms, Disable(b, r)
      PROVE  \E w \in WorldType : OwnChange(w, b)
  <2> DEFINE w == [World EXCEPT !.enabled[b] = @ \ {r}]
  <2>1. /\ w \in WorldType /\ w.session = session /\ w.blocked = blocked
        /\ w.rules = rules /\ w.enabled = [enabled EXCEPT ![b] = @ \ {r}]
    BY <1>0, Types DEF World, WorldType
  <2>2. SyncOne(w, Pool, b) /\ UNCHANGED <<saving, denied>>
    BY <1>2 DEF Disable
  <2> HIDE DEF w
  <2>3. OwnChange(w, b)
    BY <1>0, <2>1, <2>2, Types DEF OwnChange
  <2>4. QED
    BY <2>1, <2>3
<1>3. ASSUME RuleSaved(b)
      PROVE  \E w \in WorldType : OwnChange(w, b)
  <2>1. /\ SyncOne(World, Pool, b) /\ denied' = denied
        /\ \A a \in Bots \ {b} : a \in saving => a \in saving'
    BY <1>3 DEF RuleSaved
  <2>2. OwnChange(World, b)
    BY <1>0, <2>1, Values DEF OwnChange
  <2>3. QED
    BY <1>0, <2>2
<1>4. ASSUME DeleteRule(b)
      PROVE  \E w \in WorldType : OwnChange(w, b)
  <2> DEFINE w == [World EXCEPT !.rules[b] = FALSE]
  <2>1. /\ w \in WorldType /\ w.session = session /\ w.blocked = blocked
        /\ w.rules = [rules EXCEPT ![b] = FALSE] /\ w.enabled = enabled
    BY <1>0, Types DEF World, WorldType
  <2>2. SyncOne(w, Pool, b) /\ UNCHANGED <<saving, denied>>
    BY <1>4 DEF DeleteRule
  <2> HIDE DEF w
  <2>3. OwnChange(w, b)
    BY <1>0, <2>1, <2>2, Types DEF OwnChange
  <2>4. QED
    BY <2>1, <2>3
<1>5. ASSUME Deny(b)
      PROVE  \E w \in WorldType : OwnChange(w, b)
  <2> DEFINE w == [World EXCEPT !.blocked[b] = @ \cup {room[b]}]
  <2>1. room[b] \in Rooms
    BY <1>0, <1>5, Types DEF Deny
  <2>2. /\ w \in WorldType /\ w.session = session
        /\ w.blocked = [blocked EXCEPT ![b] = @ \cup {room[b]}]
        /\ w.rules = rules /\ w.enabled = enabled
    BY <1>0, <2>1, Types DEF World, WorldType
  <2>3. /\ SyncOne(w, Pool, b) /\ saving' = saving
        /\ denied' = [denied EXCEPT ![b] = @ \cup {room[b]}]
    BY <1>5 DEF Deny
  <2> HIDE DEF w
  <2>4. /\ denied' \in [Bots -> SUBSET Rooms]
        /\ \A a \in Bots : denied'[a] \subseteq denied[a] \cup w.blocked[a]
    BY <1>0, <2>1, <2>2, <2>3, Types
  <2>5. OwnChange(w, b)
    BY <1>0, <2>2, <2>3, <2>4, Types DEF OwnChange
  <2>6. QED
    BY <2>2, <2>5
<1>6. ASSUME Reselect(b)
      PROVE  \E w \in WorldType : OwnChange(w, b)
  <2>1. SyncOne(World, Pool, b) /\ UNCHANGED <<saving, denied>>
    BY <1>6 DEF Reselect
  <2>2. OwnChange(World, b)
    BY <1>0, <2>1, Values DEF OwnChange
  <2>3. QED
    BY <1>0, <2>2
<1>7. PICK w \in WorldType : OwnChange(w, b)
  BY <1>1, <1>2, <1>3, <1>4, <1>5, <1>6
<1>8. PoolsInv' /\ World' = w /\ Leaves
  BY <1>0, <1>7, SyncOneSettles DEF OwnChange
<1>9. blocked' = w.blocked
  BY <1>8 DEF World
<1>10. DeniedBlocked'
  BY <1>0, <1>7, <1>9 DEF DeniedBlocked, OwnChange
<1>11. QED
  BY <1>8, <1>10 DEF SlotInv

\* Every step keeps the invariant, and whoever leaves the pool has no room.
LEMMA SlotStep == SlotInv /\ [SlotNext]_slotVars => SlotInv' /\ Leaves
<1> SUFFICES ASSUME SlotInv, [SlotNext]_slotVars
             PROVE  SlotInv' /\ Leaves
  OBVIOUS
<1>1. CASE UNCHANGED slotVars
  BY <1>1 DEF slotVars, worldVars, poolVars, SlotInv, PoolsInv, DeniedBlocked, World, Pool,
              Leaves
<1>2. CASE \E b \in Bots : Start(b) \/ LoginFails(b) \/ Lost(b)
  BY <1>2, SilentStep
<1>3. CASE \E b \in Bots : LoginSucceeds(b) \/ Stop(b)
  BY <1>3, RunStep
<1>4. CASE \E b \in Bots : Deny(b) \/ Reselect(b)
  BY <1>4, OwnStep
<1>5. CASE \E b \in Edited : \/ \E r \in Joined[b] : Enable(b, r) \/ Disable(b, r)
                            \/ RuleSaved(b) \/ DeleteRule(b)
  <2>1. PICK b \in Bots : \/ \E r \in Rooms : Enable(b, r) \/ Disable(b, r)
                          \/ RuleSaved(b) \/ DeleteRule(b)
    BY <1>5, SlotAssumption
  <2>2. QED
    BY <2>1, OwnStep
<1>6. CASE \E b \in Edited : \/ \E answers \in BOOLEAN : SaveRule(b, answers)
                            \/ \E a \in Bots : CopyConfig(a, b)
  <2>1. PICK b \in Bots : \/ \E answers \in BOOLEAN : SaveRule(b, answers)
                          \/ \E a \in Bots : CopyConfig(a, b)
    BY <1>6, SlotAssumption
  <2>2. QED
    BY <2>1, SilentStep
<1>7. CASE Rebalance
  BY <1>7, RebalanceStep
<1>8. QED
  BY <1>1, <1>2, <1>3, <1>4, <1>5, <1>6, <1>7 DEF SlotNext
LEMMA SlotInvariant == SlotSpec => []SlotInv
<1>1. SlotInv /\ [SlotNext]_slotVars => SlotInv'
  BY SlotStep
<1>2. QED
  BY <1>1, InitSettled, PTL DEF SlotSpec

-----------------------------------------------------------------------------
(* The theorems. *)

LEMMA Settled ==
    ASSUME SlotInv, NEW a \in Bots
    PROVE  /\ session[a] # "online" => room[a] = NoRoom
           /\ room[a] \notin blocked[a]
           /\ session[a] = "online" =>
                 /\ \/ a \in saving \cup unsynced
                    \/ IF Candidates(World, a) = {} THEN room[a] = NoRoom
                       ELSE room[a] \in Candidates(World, a)
                 /\ \/ rebalance
                    \/ ~ (Cardinality(slots) < Capacity)
                    \/ room[a] = NoRoom
                    \/ pace[a] = "fast"
<1>1. Pool \in SettledPools(a, World, saving) /\ PoolsInv
  BY DEF SlotInv, PoolsInv
<1>2. /\ session[a] # "online" => room[a] = NoRoom
      /\ blocked[a] \subseteq Rooms
  BY <1>1, Types
<1>3. session[a] = "online" =>
          /\ room[a] \notin blocked[a]
          /\ \/ a \in saving \cup unsynced
             \/ IF Candidates(World, a) = {} THEN room[a] = NoRoom
                ELSE room[a] \in Candidates(World, a)
          /\ \/ rebalance
             \/ ~ (Cardinality(slots) < Capacity)
             \/ room[a] = NoRoom
             \/ pace[a] = "fast"
  BY <1>1, Values DEF SettledPools
<1>4. QED
  BY <1>2, <1>3, SlotAssumption

\* No slot of the pool lies idle while a bot polls slowly, unless the run that
\* hands it out is scheduled (scheduleFastSlotRebalance, stopBot).
THEOREM NoSlotLiesIdle == SlotSpec => []NoIdleSlot
<1>1. SlotInv => NoIdleSlot
  BY Settled DEF NoIdleSlot
<1>2. QED
  BY <1>1, SlotInvariant, PTL

\* A bot polls one of the rooms it may answer in exactly when it is online and has
\* one, but for edits that await and copied rules (syncFastSquarePollers).
THEOREM RoomsAreCovered == SlotSpec => []Covered
<1>1. SlotInv => Covered
  BY Settled DEF Covered
<1>2. QED
  BY <1>1, SlotInvariant, PTL

\* No bot polls a room that denied it since an operator last started it
\* (fastSquarePollBlocked).
THEOREM DeniedRoomsAreLeftAlone == SlotSpec => []DeniedStaysDenied
<1>1. SlotInv => DeniedStaysDenied
  BY Settled DEF DeniedStaysDenied, SlotInv, DeniedBlocked
<1>2. QED
  BY <1>1, SlotInvariant, PTL

\* A bot that polls fast keeps its slot as long as it is online and has a room
\* (FastSquarePollSlotPool.acquire).
THEOREM AdmissionIsStable == SlotSpec => StableAdmission
<1>1. ASSUME SlotInv, [SlotNext]_slotVars
      PROVE  \A b \in Bots : Fast(b) /\ session'[b] = "online" /\ room'[b] # NoRoom => Fast(b)'
  <2> TAKE b \in Bots
  <2> HAVE Fast(b) /\ session'[b] = "online" /\ room'[b] # NoRoom
  <2>1. b \in slots
    BY <1>1, Types DEF SlotInv, Fast
  <2>2. SlotInv' /\ Leaves
    BY <1>1, SlotStep
  <2>3. b \in slots'
    BY <2>1, <2>2 DEF Leaves
  <2>4. SlotInv' => (room'[b] # NoRoom => (pace'[b] = "fast" <=> b \in slots'))
    BY DEF SlotInv, PoolsInv, SoundPools, World, Pool
  <2>5. QED
    BY <2>2, <2>3, <2>4 DEF Fast
<1>2. QED
  BY <1>1, SlotInvariant, PTL DEF SlotSpec, StableAdmission

\* At most FAST_SQUARE_POLL_SLOTS bots of a process poll fast.
BudgetKept == Cardinality({b \in Bots : Fast(b)}) <= Capacity

\* The budget of polls without a pause holds (FastSquarePollSlotPool.acquire).
THEOREM BudgetIsKept == SlotSpec => []BudgetKept
<1>1. SlotInv => BudgetKept
  <2> SUFFICES ASSUME SlotInv PROVE BudgetKept
    OBVIOUS
  <2>1. {b \in Bots : Fast(b)} \subseteq slots
    BY Types DEF SlotInv, Fast
  <2>2. slots \subseteq Bots /\ Cardinality(slots) <= Capacity
    BY Types DEF SlotInv
  <2>3. /\ IsFiniteSet(slots) /\ Cardinality(slots) \in Nat
        /\ Cardinality({b \in Bots : Fast(b)}) \in Nat
        /\ Cardinality({b \in Bots : Fast(b)}) <= Cardinality(slots)
    BY <2>1, <2>2, FS_Subset, FS_CardinalityType, SlotAssumption
  <2>4. QED
    BY <2>2, <2>3, SlotAssumption DEF BudgetKept
<1>2. QED
  BY <1>1, SlotInvariant, PTL
=============================================================================
