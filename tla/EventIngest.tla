---------------------------- MODULE EventIngest ----------------------------
(***************************************************************************)
(* The analytics-service as a consumer of the topic api-events: the        *)
(* listener threads of KafkaConfig (concurrency 3 in each replica), the    *)
(* consume/processEvent handler that indexes one Elasticsearch document    *)
(* per event, the DefaultErrorHandler with its fixed back-off, and the     *)
(* DeadLetterPublishingRecoverer.                                          *)
(*                                                                         *)
(* A batch holds records of one partition.  The delay between attempts is  *)
(* abstracted: a retry may happen at any later time.                       *)
(***************************************************************************)
EXTENDS Naturals, Sequences, FiniteSets

CONSTANTS
  Partitions,     \* partitions of api-events
  Threads,        \* listener threads of all replicas
  Replicas,       \* processes of the analytics-service
  ReplicaOf,      \* ReplicaOf[t]: the process thread t runs in
  Events,         \* ApiAnalyticsEvent payloads, each with its eventId
  Poison,         \* the payloads that do not deserialize
  PartitionOf,    \* PartitionOf[e]: where the key (tenantId) of e sends it
  MaxPoll,        \* MAX_POLL_RECORDS_CONFIG
  Attempts,       \* deliveries of a record before it is recovered
  NoBatch,        \* value of batch[t] while t is inside poll()
  MaxLog,         \* bound: records per partition
  MaxCrashes,     \* bound: process crashes
  MaxRebalances   \* bound: changes of partition ownership

Batch == [part : Partitions, next : Nat \ {0}, last : Nat]

ASSUME IngestAssumption ==
  /\ MaxPoll \in Nat \ {0} /\ Attempts \in Nat \ {0}
  /\ MaxLog \in Nat /\ MaxCrashes \in Nat /\ MaxRebalances \in Nat
  /\ ReplicaOf \in [Threads -> Replicas]
  /\ PartitionOf \in [Events -> Partitions]
  /\ Poison \subseteq Events
  /\ NoBatch \notin Batch

VARIABLES
  log,          \* log[p]: the records of partition p, in offset order
  committed,    \* committed[p]: how many records of p the group has committed
  owner,        \* owner[p]: the thread p is assigned to
  batch,        \* batch[t]: the records t still has to deliver
  failures,     \* failures[t][p]: the failed record t tracks in p, and how often
  index,        \* the documents in Elasticsearch
  dead,         \* the records in the dead-letter topic
  crashes,      \* crashes so far (for MaxCrashes)
  rebalances    \* ownership changes so far (for MaxRebalances)

vars == <<log, committed, owner, batch, failures, index, dead, crashes, rebalances>>

-----------------------------------------------------------------------------
\* Operators whose name ends in _Mut... are plausible bugs, used by no action:
\* replacing the operator they are named after by one of them breaks a property.

\* The document is saved without the event's id: Elasticsearch generates one.
DocumentId_MutGenerated(e, stored) == <<e, Cardinality(stored)>>

\* The id is the tenant's key instead of the event's.
DocumentId_MutTenant(e, stored) == PartitionOf[e]

\* The document of an event: its _id is the event's id, so a second save of
\* the same event overwrites the first.
DocumentId(e, stored) == e

Upsert(stored, e) ==
  LET doc == [id |-> DocumentId(e, stored), event |-> e]
  IN  {d \in stored : d.id # doc.id} \cup {doc}

Indexed(e) == \E d \in index : d.event = e

\* DeadLetterPublishingRecoverer's default destination resolver (the comment
\* in KafkaConfig and the README say api-events-dlq).
DeadLetterTopic == "api-events-dlt"

DeadLetter(p, i) == [topic |-> DeadLetterTopic, part |-> p, offset |-> i]

DeadLettered(p, i) == \E r \in dead : r.part = p /\ r.offset = i

Handled(p, i) == Indexed(log[p][i]) \/ DeadLettered(p, i)

NoFailure == [offset |-> 0, count |-> 0]

Busy(t) == batch[t] # NoBatch

\* Thread t has a record to hand to the listener, and which one it is.
Delivering(t) == Busy(t) /\ batch[t].next <= batch[t].last

Current(t) == log[batch[t].part][batch[t].next]

\* A failure is never recognised as one of the same record.
AttemptsNow_MutForgets(t) == 1

\* The failure count of the current record if this delivery fails as well.
AttemptsNow(t) ==
  LET f == failures[t][batch[t].part]
  IN  IF f.offset = batch[t].next THEN f.count + 1 ELSE 1

\* The error handler seeks back to the undelivered records: the rest of the
\* batch is dropped, and polled again later.
Truncate(t, next) == [batch EXCEPT ![t] = [@ EXCEPT !.next = next, !.last = next - 1]]

-----------------------------------------------------------------------------
Init == /\ log = [p \in Partitions |-> <<>>]
        /\ committed = [p \in Partitions |-> 0]
        /\ owner \in [Partitions -> Threads]
        /\ batch = [t \in Threads |-> NoBatch]
        /\ failures = [t \in Threads |-> [p \in Partitions |-> NoFailure]]
        /\ index = {}
        /\ dead = {}
        /\ crashes = 0
        /\ rebalances = 0

\* The broker appends a record of the gateway's producer.  With acks=1 and
\* retries the same event may be appended more than once.
AppendRecord(e) ==
  LET p == PartitionOf[e]
  IN  /\ Len(log[p]) < MaxLog
      /\ log' = [log EXCEPT ![p] = Append(@, e)]
      /\ UNCHANGED <<committed, owner, batch, failures, index, dead, crashes, rebalances>>

\* The group's offset is not used: every poll starts at the earliest record.
Poll_MutEarliest(t, p) ==
  /\ owner[p] = t
  /\ ~Busy(t)
  /\ \E n \in 1..MaxPoll :
        /\ n <= Len(log[p])
        /\ batch' = [batch EXCEPT ![t] = [part |-> p, next |-> 1, last |-> n]]
  /\ UNCHANGED <<log, committed, owner, failures, index, dead, crashes, rebalances>>

\* poll() returns the next records of an assigned partition.
Poll(t, p) ==
  /\ owner[p] = t
  /\ ~Busy(t)
  /\ \E n \in 1..MaxPoll :
        /\ committed[p] + n <= Len(log[p])
        /\ batch' = [batch EXCEPT ![t] = [part |-> p, next |-> committed[p] + 1,
                                          last |-> committed[p] + n]]
  /\ UNCHANGED <<log, committed, owner, failures, index, dead, crashes, rebalances>>

\* consume() returns: the event is in the index.
Consume(t) ==
  /\ Delivering(t)
  /\ Current(t) \notin Poison
  /\ index' = Upsert(index, Current(t))
  /\ batch' = [batch EXCEPT ![t].next = @ + 1]
  /\ UNCHANGED <<log, committed, owner, failures, dead, crashes, rebalances>>

\* consume() logs the exception and does not throw it again.
FailAndRetry_MutSwallows(t) ==
  /\ Delivering(t)
  /\ Current(t) \notin Poison
  /\ batch' = [batch EXCEPT ![t].next = @ + 1]
  /\ UNCHANGED <<log, committed, owner, failures, index, dead, crashes, rebalances>>

\* save() throws and the back-off has attempts left.  The write may have
\* reached the index all the same (a response that timed out).
FailAndRetry(t) ==
  /\ Delivering(t)
  /\ Current(t) \notin Poison
  /\ AttemptsNow(t) < Attempts
  /\ index' \in {index, Upsert(index, Current(t))}
  /\ failures' = [failures EXCEPT ![t][batch[t].part] =
                    [offset |-> batch[t].next, count |-> AttemptsNow(t)]]
  /\ batch' = Truncate(t, batch[t].next)
  /\ UNCHANGED <<log, committed, owner, dead, crashes, rebalances>>

\* Only exhausted retries are recovered: an invalid payload, which is not
\* retried, stays at the head of its partition.
MustRecover_MutRetriedOnly(t) == Delivering(t) /\ AttemptsNow(t) >= Attempts

\* The last attempt fails, or the payload does not deserialize (which is not
\* retried): the recoverer publishes the record to the dead-letter topic.
MustRecover(t) ==
  /\ Delivering(t)
  /\ Current(t) \in Poison \/ AttemptsNow(t) >= Attempts

\* The listener is called although the payload did not deserialize.
SaveMayHaveHappened_MutUnchecked(t) == index' \in {index, Upsert(index, Current(t))}

SaveMayHaveHappened(t) ==
  \/ index' = index
  \/ Current(t) \notin Poison /\ index' = Upsert(index, Current(t))

Recover(t) ==
  /\ MustRecover(t)
  /\ SaveMayHaveHappened(t)
  /\ dead' = dead \cup {DeadLetter(batch[t].part, batch[t].next)}
  /\ failures' = [failures EXCEPT ![t][batch[t].part] = NoFailure]
  /\ batch' = Truncate(t, batch[t].next + 1)
  /\ UNCHANGED <<log, committed, owner, crashes, rebalances>>

\* Publishing the dead letter fails: the record stays where it is and starts
\* a fresh round of attempts.
RecoverFails(t) ==
  /\ MustRecover(t)
  /\ SaveMayHaveHappened(t)
  /\ failures' = [failures EXCEPT ![t][batch[t].part] = NoFailure]
  /\ batch' = Truncate(t, batch[t].next)
  /\ UNCHANGED <<log, committed, owner, dead, crashes, rebalances>>

CommitAccepted(t) == owner[batch[t].part] = t

\* The container commits what the batch has handled.  The commit of a thread
\* that lost the partition is rejected by the group coordinator.
Commit(t) ==
  /\ Busy(t)
  /\ ~Delivering(t)
  /\ committed' = IF CommitAccepted(t)
                  THEN [committed EXCEPT ![batch[t].part] = batch[t].next - 1]
                  ELSE committed
  /\ batch' = [batch EXCEPT ![t] = NoBatch]
  /\ UNCHANGED <<log, owner, failures, index, dead, crashes, rebalances>>

\* Partition p moves to a thread that is inside poll().  The thread that
\* loses p may be in the middle of a batch and goes on with it.
Rebalance(t, p) ==
  /\ rebalances < MaxRebalances
  /\ owner[p] # t
  /\ ~Busy(t)
  /\ owner' = [owner EXCEPT ![p] = t]
  /\ rebalances' = rebalances + 1
  /\ UNCHANGED <<log, committed, batch, failures, index, dead, crashes>>

\* Replica r dies and comes back: all its threads lose their memory.
Crash(r) ==
  /\ crashes < MaxCrashes
  /\ \E t \in Threads : ReplicaOf[t] = r
  /\ batch' = [t \in Threads |-> IF ReplicaOf[t] = r THEN NoBatch ELSE batch[t]]
  /\ failures' = [t \in Threads |->
        IF ReplicaOf[t] = r THEN [p \in Partitions |-> NoFailure] ELSE failures[t]]
  /\ crashes' = crashes + 1
  /\ UNCHANGED <<log, committed, owner, index, dead, rebalances>>

Work(t) == \/ \E p \in Partitions : Poll(t, p)
           \/ Consume(t)
           \/ FailAndRetry(t)
           \/ Recover(t)
           \/ RecoverFails(t)
           \/ Commit(t)

Next == \/ \E e \in Events : AppendRecord(e)
        \/ \E t \in Threads : Work(t)
        \/ \E t \in Threads, p \in Partitions : Rebalance(t, p)
        \/ \E r \in Replicas : Crash(r)

Spec == Init /\ [][Next]_vars

\* A listener thread keeps running, polls each of its partitions in turn, and
\* the broker accepts a dead letter if it is asked again and again.  Nothing
\* is assumed of Elasticsearch.
Fairness == \A t \in Threads :
               /\ WF_vars(Consume(t) \/ FailAndRetry(t) \/ Recover(t) \/ RecoverFails(t) \/ Commit(t))
               /\ SF_vars(Recover(t))
               /\ \A p \in Partitions : SF_vars(Poll(t, p))

FairSpec == Spec /\ Fairness

-----------------------------------------------------------------------------
TypeOK ==
  /\ log \in [Partitions -> Seq(Events)]
  /\ committed \in [Partitions -> Nat]
  /\ owner \in [Partitions -> Threads]
  /\ batch \in [Threads -> Batch \cup {NoBatch}]
  /\ failures \in [Threads -> [Partitions -> [offset : Nat, count : Nat]]]
  /\ index \subseteq [id : Events, event : Events]
  /\ dead \subseteq [topic : {DeadLetterTopic}, part : Partitions, offset : Nat]
  /\ crashes \in Nat
  /\ rebalances \in Nat

\* No event is lost between the topic and the index: every record below the
\* committed offset is indexed or dead-lettered, whatever crashed, was
\* rebalanced, timed out or failed (KafkaConfig's error handler together with
\* ApiEventConsumer's rethrow; commit only after the batch is handled).
CommittedAreHandled ==
  \A p \in Partitions : \A i \in 1..committed[p] : i <= Len(log[p]) /\ Handled(p, i)

\* Redelivered records, records the producer sent twice and saves repeated by
\* a thread that lost its partition leave one document per event
\* (processEvent builds the document with the event's id).
OneDocumentPerEvent ==
  \A d1, d2 \in index : d1.event = d2.event => d1 = d2

\* A payload that does not deserialize never becomes a document, and only
\* records that are in the topic become dead letters.
IndexAndDeadLettersComeFromTopic ==
  /\ \A d \in index : /\ d.event \notin Poison
                      /\ \E i \in 1..Len(log[PartitionOf[d.event]]) :
                            log[PartitionOf[d.event]][i] = d.event
  /\ \A r \in dead : r.offset \in 1..Len(log[r.part])

\* A committed offset never goes back, although a thread that lost its
\* partition still tries to commit an older one.
OffsetsAdvance == \A p \in Partitions : committed'[p] >= committed[p]
OffsetsNeverRegress == [][OffsetsAdvance]_vars

\* What has been indexed or dead-lettered stays so: a crash, a retry or a
\* second save never takes a handled record away.
HandledStaysHandled ==
  [][\A p \in Partitions : \A i \in 1..Len(log[p]) : Handled(p, i) => Handled(p, i)']_vars

\* Every record of the topic is committed in the end, in particular the ones
\* behind an invalid payload or behind an event Elasticsearch always rejects
\* (README, Test Scenarios: "original topic unaffected").
EveryRecordIsConsumed ==
  \A p \in Partitions : \A n \in 1..MaxLog : Len(log[p]) >= n ~> committed[p] >= n

\* The contract of a consumer group (AtLeastOnce): a record is settled once
\* it is indexed or dead-lettered.
Group == INSTANCE AtLeastOnce WITH
            length  <- [p \in Partitions |-> Len(log[p])],
            offset  <- committed,
            settled <- {r \in Partitions \X (1..MaxLog) :
                            r[2] <= Len(log[r[1]]) /\ Handled(r[1], r[2])}

ImplementsAtLeastOnce == Group!AloSpec
=============================================================================
