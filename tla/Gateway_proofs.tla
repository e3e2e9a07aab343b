--------------------------- MODULE Gateway_proofs ---------------------------
(***************************************************************************)
(* What becomes of the gateway's events, for any number of requests, event *)
(* loops, retries, losses and deaths, and any capacity of the producer.    *)
(*                                                                         *)
(* An event is in one place at a time (Placed).  Its copies in the topic   *)
(* are counted against its attempts: one for each retry, and one more once *)
(* the current attempt is appended (CopiesPaidFor).                        *)
(***************************************************************************)
EXTENDS Gateway, TLAPS

Ended == {r \in Requests : request[r] = "done"}

\* EventsAreAccountedFor, without the tuple.
Placed ==
  /\ waiting \cap inFlight = {} /\ waiting \cap acked = {} /\ waiting \cap logged = {}
  /\ inFlight \cap acked = {} /\ inFlight \cap logged = {} /\ acked \cap logged = {}
  /\ died \cap waiting = {} /\ died \cap inFlight = {}
  /\ died \cap acked = {} /\ died \cap logged = {}
  /\ waiting \cup inFlight \cup acked \cup logged \cup died = Ended

StateOK ==
  /\ request \in [Requests -> {"open", "blocked", "done"}]
  /\ metadata \in BOOLEAN
  /\ waiting \subseteq Requests
  /\ appended \subseteq inFlight /\ inFlight \subseteq Requests
  /\ retried \in [Requests -> 0..RETRIES]
  /\ copies \in [Requests -> Nat]
  /\ acked \subseteq Requests /\ logged \subseteq Requests
  /\ lost \in 0..MaxLost
  /\ died \subseteq Requests
  /\ deaths \in 0..MaxDeaths

CopiesPaidFor ==
  \A r \in Requests :
     /\ copies[r] <= retried[r] + 1
     /\ r \in waiting \cup (inFlight \ appended) => copies[r] <= retried[r]

\* An attempt that is appended has put its copy into the topic.
AppendedIsThere ==
  \A r \in Requests : /\ r \in appended /\ lost = 0 => copies[r] > 0
                      /\ r \in acked /\ lost = 0 => copies[r] > 0

NoEarlyCopies == \A r \in Requests : copies[r] > 0 => request[r] = "done"

IInv == /\ StateOK
        /\ Placed
        /\ CopiesPaidFor
        /\ AppendedIsThere
        /\ NoEarlyCopies

-----------------------------------------------------------------------------
\* The tuple of the four places, taken apart.
LEMMA PlacedIsAccounted == Placed => EventsAreAccountedFor
<1> DEFINE places == <<waiting, inFlight, acked, logged, died>>
<1>1. DOMAIN places = {1, 2, 3, 4, 5}
  OBVIOUS
<1>2. /\ places[1] = waiting /\ places[2] = inFlight /\ places[3] = acked
      /\ places[4] = logged /\ places[5] = died
  OBVIOUS
<1>3. UNION {places[i] : i \in DOMAIN places}
      = waiting \cup inFlight \cup acked \cup logged \cup died
  BY <1>1, <1>2
<1>4. ASSUME Placed, NEW i \in DOMAIN places, NEW j \in DOMAIN places, i # j
      PROVE  places[i] \cap places[j] = {}
  BY <1>1, <1>2, <1>4 DEF Placed
<1> QED BY <1>3, <1>4 DEF EventsAreAccountedFor, Placed, Ended

-----------------------------------------------------------------------------
(* The steps, one lemma for each conjunct of the invariant.                *)

\* Every step leaves a state of the right types.
LEMMA StateSteps ==
  ASSUME StateOK, [Next]_vars
  PROVE  StateOK'
<1>0. RETRIES \in Nat /\ MaxLost \in Nat /\ MaxDeaths \in Nat
  BY GatewayAssumption
<1>1. CASE UNCHANGED vars
  BY <1>1 DEF vars, producer, outcome, topic, life, StateOK
<1>2. CASE Connect
  BY <1>2 DEF Connect, producer, outcome, topic, life, StateOK
<1>3. ASSUME NEW r \in Requests, Finally(r)
      PROVE  StateOK'
  BY <1>3 DEF Finally, End, Unblock, BlockTimesOut, producer, outcome, topic, life, StateOK
<1>4. ASSUME NEW r \in Requests, AttemptFails(r)
      PROVE  StateOK'
  <2>1. MayRetry(r) => retried[r] + 1 \in 0..RETRIES
    BY <1>0 DEF MayRetry, StateOK
  <2> QED BY <1>4, <2>1 DEF AttemptFails, GiveUp, topic, life, StateOK
<1>5. ASSUME NEW r \in Requests, Send(r) \/ Expire(r) \/ Acknowledge(r)
      PROVE  StateOK'
  BY <1>5 DEF Send, Expire, Acknowledge, outcome, topic, life, StateOK
<1>6. ASSUME NEW r \in Requests, AppendRecord(r)
      PROVE  StateOK'
  BY <1>6 DEF AppendRecord, outcome, life, StateOK
<1>7. ASSUME NEW r \in Requests, LeaderFails(r)
      PROVE  StateOK'
  <2>1. copies[r] - 1 \in Nat /\ lost + 1 \in 0..MaxLost
    BY <1>0, <1>7 DEF LeaderFails, StateOK
  <2> QED BY <1>7, <2>1 DEF LeaderFails, producer, outcome, life, StateOK
<1>8. CASE GatewayDies
  <2>1. PICK arriving \in SUBSET (inFlight \ appended) :
           copies' = [r \in Requests |-> IF r \in arriving THEN copies[r] + 1 ELSE copies[r]]
    BY <1>8 DEF GatewayDies
  <2>2. copies' \in [Requests -> Nat]
    BY <2>1 DEF StateOK
  <2>3. deaths' \in 0..MaxDeaths
    BY <1>0, <1>8 DEF GatewayDies, StateOK
  <2>4. /\ request' \in [Requests -> {"open", "blocked", "done"}]
        /\ died' \subseteq Requests
    BY <1>8 DEF GatewayDies, InMemory, StateOK
  <2> QED BY <1>8, <2>2, <2>3, <2>4 DEF GatewayDies, outcome, StateOK
<1> QED BY <1>1, <1>2, <1>3, <1>4, <1>5, <1>6, <1>7, <1>8 DEF Next, Sender

\* An event moves from one place to another, or enters one as its request ends.
LEMMA PlacedSteps ==
  ASSUME StateOK, Placed, [Next]_vars
  PROVE  Placed'
<1>1. CASE UNCHANGED vars
  BY <1>1 DEF vars, producer, outcome, life, Placed, Ended
<1>2. CASE Connect
  BY <1>2 DEF Connect, producer, outcome, life, Placed, Ended
<1>3. ASSUME NEW r \in Requests, request[r] # "done",
             request' = [request EXCEPT ![r] = "done"]
      PROVE  Ended' = Ended \cup {r} /\ r \notin Ended
  BY <1>3 DEF StateOK, Ended
<1>4. ASSUME NEW r \in Requests, End(r)
      PROVE  Placed'
  <2>1. CASE request' = [request EXCEPT ![r] = "blocked"] /\ UNCHANGED waiting
    <3>1. Ended' = Ended
      BY <1>4, <2>1 DEF End, StateOK, Ended
    <3> QED BY <1>4, <2>1, <3>1 DEF End, outcome, life, Placed
  <2>2. CASE request' = [request EXCEPT ![r] = "done"] /\ waiting' = waiting \cup {r}
    <3>1. Ended' = Ended \cup {r} /\ r \notin Ended
      BY <1>3, <1>4, <2>2 DEF End
    <3> QED BY <1>4, <2>2, <3>1 DEF End, outcome, life, Placed
  <2> QED BY <1>4, <2>1, <2>2 DEF End
<1>5. ASSUME NEW r \in Requests, Unblock(r)
      PROVE  Placed'
  <2>1. Ended' = Ended \cup {r} /\ r \notin Ended
    BY <1>3, <1>5 DEF Unblock
  <2> QED BY <1>5, <2>1 DEF Unblock, outcome, life, Placed
<1>6. ASSUME NEW r \in Requests, BlockTimesOut(r)
      PROVE  Placed'
  <2>1. Ended' = Ended \cup {r} /\ r \notin Ended
    BY <1>3, <1>6 DEF BlockTimesOut
  <2> QED BY <1>6, <2>1 DEF BlockTimesOut, producer, life, Placed
<1>7. ASSUME NEW r \in Requests, Sender(r)
      PROVE  Placed'
  <2>1. Ended' = Ended
    BY <1>7 DEF Sender, Send, Expire, Acknowledge, AttemptFails, Ended
  <2> QED BY <1>7, <2>1 DEF Sender, Send, Expire, Acknowledge, AttemptFails, GiveUp, outcome, life, Placed
<1>8. ASSUME NEW r \in Requests, AppendRecord(r) \/ LeaderFails(r)
      PROVE  Placed'
  BY <1>8 DEF AppendRecord, LeaderFails, producer, outcome, life, Placed, Ended
<1>9. CASE GatewayDies
  <2>1. PICK handling \in SUBSET {r \in Requests : request[r] = "open"} :
           /\ died' = died \cup handling \cup InMemory
           /\ request' = [r \in Requests |->
                            IF r \in handling \cup InMemory THEN "done" ELSE request[r]]
    BY <1>9 DEF GatewayDies
  <2>2. Ended' = Ended \cup handling \cup InMemory
    BY <2>1 DEF StateOK, Ended, InMemory
  <2>3. /\ waiting' = {} /\ inFlight' = {}
        /\ UNCHANGED <<acked, logged>>
    BY <1>9 DEF GatewayDies, outcome
  <2>4. handling \cap Ended = {} /\ {r \in Requests : request[r] = "blocked"} \cap Ended = {}
    BY <2>1 DEF Ended
  <2>5. /\ died' \cap acked = {} /\ died' \cap logged = {}
        /\ acked \cap logged = {}
    BY <2>1, <2>4 DEF Placed, InMemory
  <2>6. waiting \cup inFlight \cup acked \cup logged \cup died = Ended
    BY DEF Placed
  <2>7. acked \cup logged \cup died' = Ended'
    BY <2>1, <2>2, <2>6 DEF InMemory
  <2> QED BY <2>3, <2>5, <2>7 DEF Placed
<1> QED BY <1>1, <1>2, <1>4, <1>5, <1>6, <1>7, <1>8, <1>9 DEF Next, Finally

\* What a step does to the copies, the attempts and the losses.
LEMMA CopySteps ==
  ASSUME IInv, [Next]_vars
  PROVE  CopiesPaidFor' /\ AppendedIsThere' /\ NoEarlyCopies'
<1>0. /\ StateOK /\ Placed /\ CopiesPaidFor /\ AppendedIsThere /\ NoEarlyCopies
      /\ RETRIES \in Nat /\ MaxLost \in Nat
  BY GatewayAssumption DEF IInv
<1>e. \A r \in waiting \cup inFlight \cup acked : request[r] = "done"
  BY <1>0 DEF Placed, Ended
<1>1. CASE UNCHANGED vars
  BY <1>0, <1>1 DEF vars, producer, outcome, topic, life, CopiesPaidFor, AppendedIsThere, NoEarlyCopies
<1>2. CASE Connect
  BY <1>0, <1>2 DEF Connect, producer, outcome, topic, CopiesPaidFor, AppendedIsThere, NoEarlyCopies
<1>3. ASSUME NEW r \in Requests, Finally(r)
      PROVE  CopiesPaidFor' /\ AppendedIsThere' /\ NoEarlyCopies'
  <2>1. /\ UNCHANGED <<inFlight, appended, retried, acked, copies, lost>>
        /\ waiting' \subseteq waiting \cup {r}
        /\ request[r] # "done"
        /\ \A u \in Requests \ {r} : request'[u] = request[u]
    BY <1>0, <1>3 DEF Finally, End, Unblock, BlockTimesOut, producer, outcome, topic, life, StateOK
  <2>2. copies[r] = 0
    BY <1>0, <2>1 DEF NoEarlyCopies, StateOK
  <2>3. CopiesPaidFor'
    BY <1>0, <2>1, <2>2 DEF CopiesPaidFor, StateOK
  <2>4. AppendedIsThere'
    BY <1>0, <2>1 DEF AppendedIsThere
  <2>5. NoEarlyCopies'
    BY <1>0, <2>1, <2>2 DEF NoEarlyCopies, StateOK
  <2> QED BY <2>3, <2>4, <2>5
<1>4. ASSUME NEW r \in Requests, Sender(r)
      PROVE  CopiesPaidFor' /\ AppendedIsThere' /\ NoEarlyCopies'
  <2>1. UNCHANGED <<request, copies, lost>>
    BY <1>4 DEF Sender, Send, Expire, Acknowledge, AttemptFails, topic
  <2>2. CopiesPaidFor'
    <3>1. CASE Send(r)
      BY <1>0, <2>1, <3>1 DEF Send, CopiesPaidFor, Placed, StateOK
    <3>2. CASE Expire(r) \/ Acknowledge(r)
      BY <1>0, <2>1, <3>2 DEF Expire, Acknowledge, CopiesPaidFor
    <3>3. CASE AttemptFails(r) /\ MayRetry(r)
      <4>1. /\ retried' = [retried EXCEPT ![r] = @ + 1]
            /\ waiting' = waiting \cup {r}
            /\ inFlight' = inFlight \ {r} /\ appended' = appended \ {r}
        BY <3>3 DEF AttemptFails
      <4> QED BY <1>0, <2>1, <4>1 DEF CopiesPaidFor, StateOK
    <3>4. CASE AttemptFails(r) /\ ~MayRetry(r)
      BY <1>0, <2>1, <3>4 DEF AttemptFails, GiveUp, CopiesPaidFor
    <3> QED BY <1>4, <3>1, <3>2, <3>3, <3>4 DEF Sender
  <2>3. AppendedIsThere'
    <3>1. appended' \subseteq appended /\ acked' \subseteq acked \cup appended
      BY <1>4 DEF Sender, Send, Expire, Acknowledge, AttemptFails, GiveUp, outcome
    <3> QED BY <1>0, <2>1, <3>1 DEF AppendedIsThere
  <2>4. NoEarlyCopies'
    BY <1>0, <2>1 DEF NoEarlyCopies
  <2> QED BY <2>2, <2>3, <2>4
<1>5. ASSUME NEW r \in Requests, AppendRecord(r)
      PROVE  CopiesPaidFor' /\ AppendedIsThere' /\ NoEarlyCopies'
  <2>1. /\ r \in inFlight /\ r \notin appended
        /\ appended' = appended \cup {r}
        /\ copies' = [copies EXCEPT ![r] = @ + 1]
        /\ UNCHANGED <<request, waiting, inFlight, retried, acked, lost>>
    BY <1>5 DEF AppendRecord, outcome
  <2>2. r \notin waiting
    BY <1>0, <2>1 DEF Placed
  <2>3. CopiesPaidFor'
    BY <1>0, <2>1, <2>2 DEF CopiesPaidFor, StateOK
  <2>4. AppendedIsThere'
    BY <1>0, <2>1 DEF AppendedIsThere, StateOK
  <2>5. NoEarlyCopies'
    BY <1>0, <1>e, <2>1 DEF NoEarlyCopies, StateOK
  <2> QED BY <2>3, <2>4, <2>5
<1>6. ASSUME NEW r \in Requests, LeaderFails(r)
      PROVE  CopiesPaidFor' /\ AppendedIsThere' /\ NoEarlyCopies'
  <2>1. /\ copies' = [copies EXCEPT ![r] = @ - 1]
        /\ copies[r] > 0
        /\ lost' = lost + 1
        /\ UNCHANGED <<request, waiting, inFlight, appended, retried, acked>>
    BY <1>6 DEF LeaderFails, producer, outcome
  <2>2. lost' # 0
    BY <1>0, <2>1 DEF StateOK
  <2>3. CopiesPaidFor'
    BY <1>0, <2>1 DEF CopiesPaidFor, StateOK
  <2>4. AppendedIsThere'
    BY <2>2 DEF AppendedIsThere
  <2>5. NoEarlyCopies'
    BY <1>0, <2>1 DEF NoEarlyCopies, StateOK
  <2> QED BY <2>3, <2>4, <2>5
<1>7. CASE GatewayDies
  <2>1. PICK arriving \in SUBSET (inFlight \ appended) :
           copies' = [r \in Requests |-> IF r \in arriving THEN copies[r] + 1 ELSE copies[r]]
    BY <1>7 DEF GatewayDies
  <2>2. /\ waiting' = {} /\ inFlight' = {} /\ appended' = {}
        /\ UNCHANGED <<retried, acked, lost>>
        /\ \A r \in Requests : request[r] = "done" => request'[r] = "done"
    BY <1>7 DEF GatewayDies, outcome
  <2>3. \A r \in Requests : /\ copies[r] \in Nat /\ retried[r] \in Nat
                            /\ r \in arriving => copies'[r] = copies[r] + 1
                            /\ r \notin arriving => copies'[r] = copies[r]
    BY <1>0, <2>1 DEF StateOK
  <2>4. CopiesPaidFor'
    <3>1. ASSUME NEW r \in Requests
          PROVE  copies'[r] <= retried[r] + 1
      <4>1. CASE r \in arriving
        BY <1>0, <2>3, <4>1 DEF CopiesPaidFor
      <4>2. CASE r \notin arriving
        BY <1>0, <2>3, <4>2 DEF CopiesPaidFor
      <4> QED BY <4>1, <4>2
    <3> QED BY <2>2, <3>1 DEF CopiesPaidFor
  <2>5. AppendedIsThere'
    <3>1. ASSUME NEW r \in Requests, copies[r] > 0
          PROVE  copies'[r] > 0
      BY <2>3, <3>1
    <3> QED BY <1>0, <2>2, <3>1 DEF AppendedIsThere
  <2>6. NoEarlyCopies'
    <3>1. ASSUME NEW r \in Requests, copies'[r] > 0
          PROVE  request[r] = "done"
      BY <1>0, <1>e, <2>1, <2>3, <3>1 DEF NoEarlyCopies
    <3> QED BY <2>2, <3>1 DEF NoEarlyCopies
  <2> QED BY <2>4, <2>5, <2>6
<1> QED BY <1>1, <1>2, <1>3, <1>4, <1>5, <1>6, <1>7 DEF Next

-----------------------------------------------------------------------------
\* The invariant is inductive.
THEOREM Inductive == Spec => []IInv
<1>1. Init => IInv
  <2> SUFFICES ASSUME Init PROVE IInv
    OBVIOUS
  <2>0. 0 \in 0..RETRIES /\ 0 \in 0..MaxLost /\ 0 \in 0..MaxDeaths /\ 0 \in Nat
    BY GatewayAssumption
  <2>1. StateOK
    BY <2>0 DEF Init, StateOK
  <2>2. Placed
    BY DEF Init, Placed, Ended
  <2>3. CopiesPaidFor /\ AppendedIsThere /\ NoEarlyCopies
    BY DEF Init, CopiesPaidFor, AppendedIsThere, NoEarlyCopies
  <2> QED BY <2>1, <2>2, <2>3 DEF IInv
<1>2. IInv /\ [Next]_vars => IInv'
  BY StateSteps, PlacedSteps, CopySteps DEF IInv
<1> QED BY <1>1, <1>2, PTL DEF Spec

\* The gateway's state is well typed: no event is sent more than RETRIES times
\* again, nor is it in the topic more often than it was sent.
THEOREM TypeCorrect == Spec => []TypeOK
<1>1. IInv => TypeOK
  <2> SUFFICES ASSUME IInv PROVE TypeOK
    OBVIOUS
  <2>1. copies \in [Requests -> 0..RETRIES + 1]
    <3>1. ASSUME NEW r \in Requests
          PROVE  copies[r] \in 0..RETRIES + 1
      <4>1. copies[r] \in Nat /\ retried[r] \in 0..RETRIES /\ copies[r] <= retried[r] + 1
        BY DEF IInv, StateOK, CopiesPaidFor
      <4> QED BY <4>1, GatewayAssumption
    <3>2. copies = [r \in Requests |-> copies[r]]
      BY DEF IInv, StateOK
    <3> QED BY <3>1, <3>2
  <2> QED BY <2>1 DEF IInv, StateOK, TypeOK
<1> QED BY <1>1, Inductive, PTL

\* No event of an ended request is lost without a line in the gateway's log,
\* except with the process itself.
THEOREM NoSilentLoss == Spec => []EventsAreAccountedFor
<1>1. IInv => EventsAreAccountedFor
  BY PlacedIsAccounted DEF IInv
<1> QED BY <1>1, Inductive, PTL

\* An acknowledged event is in the topic, unless its leader was lost.
THEOREM AcknowledgedAreThere == Spec => []TopicAgreesWithAcks
<1>1. IInv => TopicAgreesWithAcks
  BY DEF IInv, AppendedIsThere, NoEarlyCopies, TopicAgreesWithAcks
<1> QED BY <1>1, Inductive, PTL
=============================================================================
