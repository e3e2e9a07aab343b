------------------------------ MODULE Pipeline ------------------------------
(***************************************************************************)
(* An event from its request to the index: the gateway-service (Gateway)   *)
(* and the analytics-service (EventIngest), joined by the topic            *)
(* api-events.                                                             *)
(*                                                                         *)
(* Gateway knows the records of the partition leader (copies), EventIngest *)
(* those the consumers are given (log): a leader lets a consumer read what *)
(* its followers have.  Replicate moves a record from the one to the       *)
(* other, and a leader that fails takes with it only what has not moved.   *)
(* Other programs may write to the topic too, and what does not            *)
(* deserialize comes from them.                                            *)
(***************************************************************************)
EXTENDS EventIngest

CONSTANTS
  Requests,      \* requests, and with them the gateway's events
  Loops, LoopOf, Capacity, MaxInFlight, RETRIES, MaxLost, MaxDeaths,  \* see Gateway
  MaxForeign     \* bound: records of each payload of other programs

VARIABLES request, metadata, waiting, inFlight, appended, retried, copies, acked, logged, lost,
          died, deaths

G == INSTANCE Gateway

ASSUME PipelineAssumption ==
  /\ G!GatewayAssumption
  /\ Requests \subseteq Events \ Poison
  /\ MaxForeign \in Nat

gatewayVars == <<request, metadata, waiting, inFlight, appended, retried, copies, acked, logged,
                 lost, died, deaths>>
allVars == <<vars, gatewayVars>>

-----------------------------------------------------------------------------
\* The offsets of e's records that consumers may read.
Offsets(e) == {i \in 1..Len(log[PartitionOf[e]]) : log[PartitionOf[e]][i] = e}

\* The leader has a record of r that its followers have not.
Unreplicated(r) == Cardinality(Offsets(r)) < copies[r]

PipelineInit == Init /\ G!Init

Finally(r) == G!Finally(r) /\ UNCHANGED vars

Sender(r) == G!Sender(r) /\ UNCHANGED vars

LeaderAppends(r) == G!AppendRecord(r) /\ UNCHANGED vars

Connect == G!Connect /\ UNCHANGED vars

GatewayDies == G!GatewayDies /\ UNCHANGED vars

\* In the order of the leader's log in Kafka, in any order here.
Replicate(r) == Unreplicated(r) /\ AppendRecord(r) /\ UNCHANGED gatewayVars

LeaderFails(r) == Unreplicated(r) /\ G!LeaderFails(r) /\ UNCHANGED vars

Foreign(e) == /\ Cardinality(Offsets(e)) < MaxForeign
              /\ AppendRecord(e)
              /\ UNCHANGED gatewayVars

Ingest == /\ \/ \E t \in Threads : Work(t)
             \/ \E t \in Threads, p \in Partitions : Rebalance(t, p)
             \/ \E s \in Replicas : Crash(s)
          /\ UNCHANGED gatewayVars

PipelineNext ==
  \/ Connect
  \/ GatewayDies
  \/ \E r \in Requests : \/ Finally(r) \/ Sender(r)
                         \/ LeaderAppends(r) \/ Replicate(r) \/ LeaderFails(r)
  \/ \E e \in Events \ Requests : Foreign(e)
  \/ Ingest

PipelineSpec == PipelineInit /\ [][PipelineNext]_allVars

\* The fairness of the two services (see there), and followers that fetch what
\* the leader has.
PipelineFairness ==
  /\ \A r \in Requests : /\ WF_allVars(Finally(r)) /\ WF_allVars(Sender(r))
                         /\ WF_allVars(Replicate(r))
  /\ \A t \in Threads :
        /\ WF_allVars(/\ Consume(t) \/ FailAndRetry(t) \/ Recover(t) \/ RecoverFails(t) \/ Commit(t)
                      /\ UNCHANGED gatewayVars)
        /\ SF_allVars(Recover(t) /\ UNCHANGED gatewayVars)
        /\ \A p \in Partitions : SF_allVars(Poll(t, p) /\ UNCHANGED gatewayVars)

PipelineFairSpec == PipelineSpec /\ PipelineFairness

-----------------------------------------------------------------------------
EventHandled(r) == \/ Indexed(r)
                   \/ \E i \in Offsets(r) : DeadLettered(PartitionOf[r], i)

\* From the request to the index: when a request has ended, its event is with
\* the producer, or reported in the gateway's log, or on its way in the topic,
\* or indexed, or dead-lettered, unless a leader was lost or the gateway died
\* with it - whatever sends, responses, saves and commits failed, and whichever
\* replicas of the analytics-service were restarted.
NoEventIsLost ==
  \A r \in Requests :
     request[r] = "done" =>
        \/ r \in waiting \cup inFlight
        \/ r \in logged \cup died
        \/ Unreplicated(r)
        \/ \E i \in Offsets(r) : i > committed[PartitionOf[r]]
        \/ EventHandled(r)
        \/ lost > 0

\* The index counts a request once, and only after it has ended, although
\* both sides repeat what may have been done.
RequestsAreCountedOnce ==
  \A r \in Requests : \A d1, d2 \in index :
     d1.event = r /\ d2.event = r => d1 = d2 /\ request[r] = "done"

\* The event of every ended request arrives: it is indexed or dead-lettered,
\* or the gateway's log reports it, unless a leader was lost or the gateway
\* died with it.
EveryEventArrives ==
  \A r \in Requests :
     request[r] = "done" ~> (EventHandled(r) \/ r \in logged \cup died \/ lost > 0)
=============================================================================
