------------------------------ MODULE Gateway ------------------------------
(***************************************************************************)
(* The gateway-service: AnalyticsGlobalFilter publishes one event when a   *)
(* request ends, whatever the signal, from the event loop the request is   *)
(* handled on.  KafkaTemplate.send only hands the event to the producer,   *)
(* whose own thread sends it; but it blocks the event loop while the       *)
(* producer knows no broker or its memory is full, up to max.block.ms.     *)
(*                                                                         *)
(* KafkaProducerConfig: acks=1, so no idempotence, retries=3.  A response  *)
(* that is lost is taken for a failure, and the record is sent again.      *)
(*                                                                         *)
(* The process may die, and what is in its memory dies with it.            *)
(*                                                                         *)
(* An event carries its request's status; nothing here depends on it.      *)
(***************************************************************************)
EXTENDS Naturals, FiniteSets

CONSTANTS
  Requests,      \* requests, and with them their events
  Loops,         \* event loops
  LoopOf,        \* LoopOf[r]: the event loop that handles r
  Capacity,      \* events that fit into buffer.memory
  MaxInFlight,   \* max.in.flight.requests.per.connection
  RETRIES,       \* RETRIES_CONFIG
  MaxLost,       \* bound: records lost with a partition leader
  MaxDeaths      \* bound: deaths of the process

ASSUME GatewayAssumption ==
  /\ LoopOf \in [Requests -> Loops]
  /\ Capacity \in Nat \ {0} /\ MaxInFlight \in Nat \ {0}
  /\ RETRIES \in Nat
  /\ MaxLost \in Nat /\ MaxDeaths \in Nat

VARIABLES
  request,   \* request[r]: "open", in doFinally and "blocked" in send, "done"
  metadata,  \* the producer knows the leaders of the topic's partitions
  waiting,   \* events in the producer's memory, to be sent
  inFlight,  \* events sent, without a response so far
  appended,  \* those of them which the broker has appended
  retried,   \* retried[r]: how often the event was sent again
  copies,    \* copies[r]: the records of r in the topic
  acked,     \* events whose send succeeded
  logged,    \* events reported as lost in the gateway's log
  lost,      \* records lost by the broker so far
  died,      \* events that died with the process, or were never made
  deaths     \* deaths so far (for MaxDeaths)

producer == <<waiting, inFlight, appended, retried>>
outcome == <<acked, logged>>
topic == <<copies, lost>>
life == <<died, deaths>>
vars == <<request, metadata, producer, outcome, topic, life>>

Blocked(loop) == \E r \in Requests : LoopOf[r] = loop /\ request[r] = "blocked"

\* Memory is given back when the outcome of a send is known.
MustWait == ~metadata \/ Cardinality(waiting \cup inFlight) >= Capacity

-----------------------------------------------------------------------------
Init == /\ request = [r \in Requests |-> "open"]
        /\ metadata = FALSE
        /\ waiting = {}
        /\ inFlight = {}
        /\ appended = {}
        /\ retried = [r \in Requests |-> 0]
        /\ copies = [r \in Requests |-> 0]
        /\ acked = {}
        /\ logged = {}
        /\ lost = 0
        /\ died = {}
        /\ deaths = 0

\* The backend has answered or failed, or the client has gone: doFinally runs
\* on the request's event loop, which first has to be free.
End(r) ==
  /\ request[r] = "open"
  /\ ~Blocked(LoopOf[r])
  /\ IF MustWait
     THEN request' = [request EXCEPT ![r] = "blocked"] /\ UNCHANGED waiting
     ELSE request' = [request EXCEPT ![r] = "done"] /\ waiting' = waiting \cup {r}
  /\ UNCHANGED <<metadata, inFlight, appended, retried, outcome, topic, life>>

\* send() goes on.
Unblock(r) ==
  /\ request[r] = "blocked"
  /\ ~MustWait
  /\ request' = [request EXCEPT ![r] = "done"]
  /\ waiting' = waiting \cup {r}
  /\ UNCHANGED <<metadata, inFlight, appended, retried, outcome, topic, life>>

\* Operators named ..._Mut... are plausible bugs, used by no action.

\* send() waits without a limit.
BlockTimesOut_MutNever(r) == FALSE /\ UNCHANGED vars

\* max.block.ms is over: the exception is caught and logged.
BlockTimesOut(r) ==
  /\ request[r] = "blocked"
  /\ MustWait
  /\ request' = [request EXCEPT ![r] = "done"]
  /\ logged' = logged \cup {r}
  /\ UNCHANGED <<metadata, producer, acked, topic, life>>

\* The producer's thread reaches a broker.
Connect == /\ ~metadata
           /\ metadata' = TRUE
           /\ UNCHANGED <<request, producer, outcome, topic, life>>

Send(r) ==
  /\ r \in waiting
  /\ Cardinality(inFlight) < MaxInFlight
  /\ waiting' = waiting \ {r}
  /\ inFlight' = inFlight \cup {r}
  /\ UNCHANGED <<request, metadata, appended, retried, outcome, topic, life>>

\* delivery.timeout.ms is over before the event could be sent (again).
Expire(r) ==
  /\ r \in waiting
  /\ waiting' = waiting \ {r}
  /\ logged' = logged \cup {r}
  /\ UNCHANGED <<request, metadata, inFlight, appended, retried, acked, topic, life>>

AppendRecord(r) ==
  /\ r \in inFlight \ appended
  /\ appended' = appended \cup {r}
  /\ copies' = [copies EXCEPT ![r] = @ + 1]
  /\ UNCHANGED <<request, metadata, waiting, inFlight, retried, outcome, lost, life>>

\* acks=0: the send succeeds when it is sent.
Acknowledge_MutAcks0(r) ==
  /\ r \in inFlight
  /\ inFlight' = inFlight \ {r}
  /\ appended' = appended \ {r}
  /\ acked' = acked \cup {r}
  /\ UNCHANGED <<request, metadata, waiting, retried, logged, topic, life>>

\* The leader has answered: with acks=1, that it alone has the record.
Acknowledge(r) ==
  /\ r \in inFlight \cap appended
  /\ inFlight' = inFlight \ {r}
  /\ appended' = appended \ {r}
  /\ acked' = acked \cup {r}
  /\ UNCHANGED <<request, metadata, waiting, retried, logged, topic, life>>

\* One retry too many.
MayRetry_MutOneMore(r) == retried[r] <= RETRIES
MayRetry(r) == retried[r] < RETRIES

\* The record stays in the list of requests in flight.
GiveUp_MutKeeps(r) == UNCHANGED <<inFlight, appended, logged>>

\* The future fails and nobody looks at it.
GiveUp_MutSilent(r) == /\ inFlight' = inFlight \ {r}
                       /\ appended' = appended \ {r}
                       /\ UNCHANGED logged

\* The future fails: whenComplete logs the event.
GiveUp(r) == /\ inFlight' = inFlight \ {r}
             /\ appended' = appended \ {r}
             /\ logged' = logged \cup {r}

\* No response, whether or not the record was appended.
AttemptFails(r) ==
  /\ r \in inFlight
  /\ IF MayRetry(r)
     THEN /\ retried' = [retried EXCEPT ![r] = @ + 1]
          /\ waiting' = waiting \cup {r}
          /\ inFlight' = inFlight \ {r}
          /\ appended' = appended \ {r}
          /\ UNCHANGED logged
     ELSE GiveUp(r) /\ UNCHANGED <<retried, waiting>>
  /\ UNCHANGED <<request, metadata, acked, topic, life>>

\* The leader dies before a follower has fetched a record.
LeaderFails(r) ==
  /\ copies[r] > 0
  /\ lost < MaxLost
  /\ copies' = [copies EXCEPT ![r] = @ - 1]
  /\ lost' = lost + 1
  /\ UNCHANGED <<request, metadata, producer, outcome, life>>

\* What of the process's memory is lost when it dies: the events handed over,
\* and the requests still blocked in send().
InMemory == waiting \cup inFlight \cup {r \in Requests : request[r] = "blocked"}

\* The process is killed (for instance by its liveness probe, a request whose
\* event loop is blocked) and comes back.  The requests it is handling end
\* without doFinally; of the records on their way, the broker appends some.
GatewayDies ==
  /\ deaths < MaxDeaths
  /\ \E handling \in SUBSET {r \in Requests : request[r] = "open"} :
        /\ died' = died \cup handling \cup InMemory
        /\ request' = [r \in Requests |->
                         IF r \in handling \cup InMemory THEN "done" ELSE request[r]]
  /\ \E arriving \in SUBSET (inFlight \ appended) :
        copies' = [r \in Requests |-> IF r \in arriving THEN copies[r] + 1 ELSE copies[r]]
  /\ metadata' = FALSE
  /\ waiting' = {} /\ inFlight' = {} /\ appended' = {}
  /\ deaths' = deaths + 1
  /\ UNCHANGED <<retried, outcome, lost>>

Finally(r) == End(r) \/ Unblock(r) \/ BlockTimesOut(r)
Sender(r) == Send(r) \/ Expire(r) \/ Acknowledge(r) \/ AttemptFails(r)

Next == \/ Connect
        \/ GatewayDies
        \/ \E r \in Requests : Finally(r) \/ Sender(r) \/ AppendRecord(r) \/ LeaderFails(r)

Spec == Init /\ [][Next]_vars

\* Every request is answered, fails or is cancelled, and send() returns or
\* throws after max.block.ms; the producer's thread runs and its timeouts
\* expire.  Nothing is assumed of Kafka.
Fairness == \A r \in Requests : WF_vars(Finally(r)) /\ WF_vars(Sender(r))

FairSpec == Spec /\ Fairness

-----------------------------------------------------------------------------
TypeOK ==
  /\ request \in [Requests -> {"open", "blocked", "done"}]
  /\ metadata \in BOOLEAN
  /\ waiting \subseteq Requests
  /\ appended \subseteq inFlight /\ inFlight \subseteq Requests
  /\ retried \in [Requests -> 0..RETRIES]
  /\ copies \in [Requests -> 0..RETRIES + 1]
  /\ acked \subseteq Requests /\ logged \subseteq Requests
  /\ lost \in 0..MaxLost
  /\ died \subseteq Requests
  /\ deaths \in 0..MaxDeaths

\* No event is dropped in silence, and none is published before its request
\* has ended: of each ended request, and of no other, the event is either with
\* the producer, or acknowledged, or reported in the log, or died with the
\* process, and never two of these at once.
EventsAreAccountedFor ==
  LET places == <<waiting, inFlight, acked, logged, died>>
  IN  /\ \A i, j \in DOMAIN places : i # j => places[i] \cap places[j] = {}
      /\ UNION {places[i] : i \in DOMAIN places} = {r \in Requests : request[r] = "done"}

\* The topic agrees with what the gateway knows: unless its leader was lost
\* (acks=1), an acknowledged event is in the topic, and no record precedes the
\* end of its request.
TopicAgreesWithAcks ==
  \A r \in Requests : /\ copies[r] > 0 => request[r] = "done"
                      /\ r \in acked /\ lost = 0 => copies[r] > 0

\* Every request ends, although Kafka may be down for good and the end of
\* another request on its event loop is waiting for it.
EveryRequestEnds == \A r \in Requests : <>(request[r] = "done")

\* The producer comes to an outcome for every event, although responses are
\* lost and sends are retried, unless the process dies.
EveryEventIsSettled ==
  \A r \in Requests : r \in waiting \cup inFlight ~> r \in acked \cup logged \cup died
=============================================================================
