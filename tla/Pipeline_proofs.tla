--------------------------- MODULE Pipeline_proofs ---------------------------
(***************************************************************************)
(* Safety of the analytics-service's consumer (EventIngest) and of the     *)
(* whole way of an event from its request to the index (Pipeline), for any *)
(* number of requests, retries, partitions, listener threads, replicas,    *)
(* crashes and rebalances.                                                 *)
(*                                                                         *)
(* First EventIngest.  CommittedAreHandled is not inductive: a commit      *)
(* publishes what a thread remembers of its batch, and the thread may have *)
(* lost the partition since it polled.  IInv adds what every thread, owner *)
(* or not, knows of the records below its cursor, and that the owner's     *)
(* cursor is not behind the committed offset.                              *)
(*                                                                         *)
(* Then Pipeline.  It implements Gateway and it implements EventIngest, so *)
(* what holds of each of them holds of it.  They meet in LogIsCopied:      *)
(* consumers are given no record that the leader has not.                  *)
(***************************************************************************)
EXTENDS Pipeline, FiniteSetTheorems, TLAPS

-----------------------------------------------------------------------------
(* EventIngest.                                                            *)

\* The cursor of a busy thread is inside the log, and every record below it
\* is handled, also when another thread owns the partition by now.
CursorsAreHandled ==
  \A t \in Threads : Busy(t) =>
     /\ batch[t].last <= Len(log[batch[t].part])
     /\ batch[t].next <= batch[t].last + 1
     /\ \A i \in 1..(batch[t].next - 1) : Handled(batch[t].part, i)

\* The group's offset does not overtake the batch of the thread that owns the
\* partition.
OwnersAreAhead ==
  \A t \in Threads : Busy(t) /\ owner[batch[t].part] = t =>
     committed[batch[t].part] <= batch[t].next - 1

\* Every document carries the id of its event.
IdsAreEvents == \A d \in index : d.id = d.event

IInv == /\ TypeOK
        /\ CommittedAreHandled
        /\ CursorsAreHandled
        /\ OwnersAreAhead
        /\ IdsAreEvents

-----------------------------------------------------------------------------
\* Saving an event keeps the documents of all events and adds its own, under
\* its own id.
LEMMA UpsertKeeps ==
  ASSUME TypeOK, IdsAreEvents, NEW e \in Events
  PROVE  /\ Upsert(index, e) \subseteq [id : Events, event : Events]
         /\ \A d \in Upsert(index, e) : d.id = d.event
         /\ \A d \in Upsert(index, e) : d \in index \/ d.event = e
         /\ \E d \in Upsert(index, e) : d.event = e
         /\ \A f \in Events : Indexed(f) => \E d \in Upsert(index, e) : d.event = f
<1> DEFINE doc == [id |-> e, event |-> e]
<1>1. Upsert(index, e) = {d \in index : d.id # e} \cup {doc}
  BY DEF Upsert, DocumentId
<1>2. doc \in [id : Events, event : Events] /\ doc.id = e /\ doc.event = e
  OBVIOUS
<1>3. index \subseteq [id : Events, event : Events]
  BY DEF TypeOK
<1>4. ASSUME NEW f \in Events, Indexed(f)
      PROVE  \E d \in Upsert(index, e) : d.event = f
  <2>1. PICK d \in index : d.event = f
    BY <1>4 DEF Indexed
  <2>2. CASE f = e
    BY <1>1, <1>2, <2>2
  <2>3. CASE f # e
    <3>1. d.id # e
      BY <2>1, <2>3 DEF IdsAreEvents
    <3> QED BY <1>1, <2>1, <3>1
  <2> QED BY <2>2, <2>3
<1> QED BY <1>1, <1>2, <1>3, <1>4 DEF IdsAreEvents

\* A record a busy thread delivers is an event of the topic.
LEMMA CurrentIsEvent ==
  ASSUME IInv, NEW t \in Threads, Delivering(t)
  PROVE  /\ batch[t] \in Batch
         /\ batch[t].next \in 1..Len(log[batch[t].part])
         /\ Current(t) \in Events
<1>1. batch[t] \in Batch
  BY DEF IInv, TypeOK, Delivering, Busy
<1>2. batch[t].next \in 1..Len(log[batch[t].part])
  BY <1>1 DEF IInv, TypeOK, CursorsAreHandled, Delivering, Batch
<1>3. log[batch[t].part] \in Seq(Events)
  BY <1>1 DEF IInv, TypeOK, Batch
<1> QED BY <1>1, <1>2, <1>3 DEF Current

\* How each action may change the index: not at all, or by one upsert.
LEMMA IndexSteps ==
  ASSUME IInv, [Next]_vars
  PROVE  \/ UNCHANGED index
         \/ \E t \in Threads : /\ Delivering(t)
                               /\ Current(t) \notin Poison
                               /\ index' = Upsert(index, Current(t))
                               /\ UNCHANGED log
BY DEF Next, Work, vars, AppendRecord, Poll, Consume, FailAndRetry, Recover,
       RecoverFails, SaveMayHaveHappened, MustRecover, Commit, Rebalance, Crash

\* No step unsettles a record of the topic, or takes one out of it.
LEMMA HandledIsStable ==
  ASSUME IInv, [Next]_vars, NEW p \in Partitions, NEW i \in 1..Len(log[p])
  PROVE  /\ i <= Len(log'[p])
         /\ log'[p][i] = log[p][i]
         /\ Handled(p, i) => Handled(p, i)'
<1>1. i <= Len(log'[p]) /\ log'[p][i] = log[p][i]
  <2>1. log[p] \in Seq(Events)
    BY DEF IInv, TypeOK
  <2>2. CASE UNCHANGED log
    BY <2>1, <2>2
  <2>3. ASSUME NEW e \in Events, AppendRecord(e)
        PROVE  i <= Len(log'[p]) /\ log'[p][i] = log[p][i]
    <3>1. log' = [log EXCEPT ![PartitionOf[e]] = Append(@, e)]
      BY <2>3 DEF AppendRecord
    <3>2. log \in [Partitions -> Seq(Events)]
      BY DEF IInv, TypeOK
    <3>3. CASE p = PartitionOf[e]
      <4>1. log'[p] = Append(log[p], e)
        BY <3>1, <3>2, <3>3
      <4> QED BY <4>1, <2>1
    <3>4. CASE p # PartitionOf[e]
      <4>1. log'[p] = log[p]
        BY <3>1, <3>2, <3>4
      <4> QED BY <4>1, <2>1
    <3> QED BY <3>3, <3>4
  <2> QED BY <2>2, <2>3 DEF Next, Work, vars, Poll, Consume, FailAndRetry, Recover,
                             RecoverFails, Commit, Rebalance, Crash
<1>2. dead \subseteq dead'
  BY DEF Next, Work, vars, AppendRecord, Poll, Consume, FailAndRetry, Recover,
         RecoverFails, Commit, Rebalance, Crash
<1>3. ASSUME NEW f \in Events, Indexed(f)
      PROVE  Indexed(f)'
  <2>1. CASE UNCHANGED index
    BY <1>3, <2>1 DEF Indexed
  <2>2. ASSUME NEW t \in Threads, Delivering(t), index' = Upsert(index, Current(t))
        PROVE  Indexed(f)'
    <3>1. Current(t) \in Events
      BY <2>2, CurrentIsEvent
    <3>2. \E d \in Upsert(index, Current(t)) : d.event = f
      BY <3>1, <1>3, UpsertKeeps DEF IInv
    <3> QED BY <3>2, <2>2 DEF Indexed
  <2> QED BY <2>1, <2>2, IndexSteps
<1>4. log[p][i] \in Events
  BY DEF IInv, TypeOK
<1> QED BY <1>1, <1>2, <1>3, <1>4 DEF Handled, DeadLettered

\* The failure tracker counts in natural numbers.
LEMMA AttemptsType ==
  ASSUME IInv, NEW t \in Threads, Delivering(t)
  PROVE  /\ AttemptsNow(t) \in Nat
         /\ batch[t].next \in Nat
         /\ batch[t].part \in Partitions
<1>1. batch[t] \in Batch
  BY CurrentIsEvent
<1>2. failures[t][batch[t].part] \in [offset : Nat, count : Nat]
  BY <1>1 DEF IInv, TypeOK, Batch
<1> QED BY <1>1, <1>2 DEF AttemptsNow, Batch

\* What the error handler leaves of a batch is a batch without deliveries.
LEMMA TruncateType ==
  ASSUME IInv, NEW t \in Threads, Busy(t), NEW n \in Nat \ {0}
  PROVE  /\ Truncate(t, n) \in [Threads -> Batch \cup {NoBatch}]
         /\ Truncate(t, n)[t] = [part |-> batch[t].part, next |-> n, last |-> n - 1]
         /\ \A u \in Threads \ {t} : Truncate(t, n)[u] = batch[u]
<1>1. batch[t] \in Batch /\ batch \in [Threads -> Batch \cup {NoBatch}]
  BY DEF IInv, TypeOK, Busy
<1> DEFINE c == [part |-> batch[t].part, next |-> n, last |-> batch[t].last]
<1>2. [batch[t] EXCEPT !.next = n] = c
  BY <1>1 DEF Batch
<1>3. [c EXCEPT !.last = n - 1] = [part |-> batch[t].part, next |-> n, last |-> n - 1]
  OBVIOUS
<1>4. Truncate(t, n) = [batch EXCEPT ![t] = [c EXCEPT !.last = n - 1]]
  BY <1>2 DEF Truncate
<1>5. [part |-> batch[t].part, next |-> n, last |-> n - 1] \in Batch
  BY <1>1 DEF Batch
<1> HIDE DEF c
<1> QED BY <1>1, <1>3, <1>4, <1>5

\* What a successful delivery does to the batch.
LEMMA ConsumeBatch ==
  ASSUME IInv, NEW t \in Threads, Consume(t)
  PROVE  /\ batch' \in [Threads -> Batch \cup {NoBatch}]
         /\ batch'[t] = [part |-> batch[t].part, next |-> batch[t].next + 1,
                         last |-> batch[t].last]
         /\ \A u \in Threads \ {t} : batch'[u] = batch[u]
<1> DEFINE b == [part |-> batch[t].part, next |-> batch[t].next + 1, last |-> batch[t].last]
<1>1. batch[t] \in Batch /\ batch \in [Threads -> Batch \cup {NoBatch}]
  BY DEF IInv, TypeOK, Consume, Delivering, Busy
<1>2. b \in Batch
  BY <1>1 DEF Batch
<1>3. [batch[t] EXCEPT !.next = batch[t].next + 1] = b
  BY <1>1 DEF Batch
<1>4. batch' = [batch EXCEPT ![t] = b]
  BY <1>3 DEF Consume
<1> HIDE DEF b
<1>5. batch'[t] = b
  BY <1>1, <1>4
<1> QED BY <1>1, <1>2, <1>4, <1>5 DEF b

\* What poll() returns is a batch inside the log.
LEMMA PollBatch ==
  ASSUME IInv, NEW t \in Threads, NEW p \in Partitions, Poll(t, p)
  PROVE  \E n \in 1..MaxPoll :
            /\ committed[p] + n <= Len(log[p])
            /\ batch' \in [Threads -> Batch \cup {NoBatch}]
            /\ batch'[t] = [part |-> p, next |-> committed[p] + 1, last |-> committed[p] + n]
            /\ \A u \in Threads \ {t} : batch'[u] = batch[u]
<1>1. PICK n \in 1..MaxPoll :
        /\ committed[p] + n <= Len(log[p])
        /\ batch' = [batch EXCEPT ![t] = [part |-> p, next |-> committed[p] + 1,
                                          last |-> committed[p] + n]]
  BY DEF Poll
<1>2. committed[p] \in Nat /\ n \in Nat /\ batch \in [Threads -> Batch \cup {NoBatch}]
  BY IngestAssumption DEF IInv, TypeOK
<1>3. [part |-> p, next |-> committed[p] + 1, last |-> committed[p] + n] \in Batch
  BY <1>2 DEF Batch
<1> QED BY <1>1, <1>2, <1>3

-----------------------------------------------------------------------------
\* Type correctness is preserved (with IInv, which bounds what is indexed).
LEMMA TypeStep ==
  ASSUME IInv, [Next]_vars
  PROVE  TypeOK'
<1> USE IngestAssumption
<1>t. TypeOK
  BY DEF IInv
<1>i. index' \subseteq [id : Events, event : Events]
  <2>1. CASE UNCHANGED index
    BY <2>1 DEF IInv, TypeOK
  <2>2. ASSUME NEW t \in Threads, Delivering(t), index' = Upsert(index, Current(t))
        PROVE  index' \subseteq [id : Events, event : Events]
    BY <2>2, CurrentIsEvent, UpsertKeeps DEF IInv
  <2> QED BY <2>1, <2>2, IndexSteps
<1>1. CASE UNCHANGED vars
  BY <1>1 DEF IInv, TypeOK, vars
<1>2. ASSUME NEW e \in Events, AppendRecord(e)
      PROVE  TypeOK'
  <2>1. log[PartitionOf[e]] \in Seq(Events) /\ PartitionOf[e] \in Partitions
    BY <1>t DEF TypeOK
  <2>2. Append(log[PartitionOf[e]], e) \in Seq(Events)
    BY <2>1
  <2>3. log' \in [Partitions -> Seq(Events)]
    BY <1>2, <2>1, <2>2, <1>t DEF AppendRecord, TypeOK
  <2> QED BY <1>2, <2>3, <1>t DEF TypeOK, AppendRecord
<1>3. ASSUME NEW t \in Threads, NEW p \in Partitions, Poll(t, p)
      PROVE  TypeOK'
  <2>1. batch' \in [Threads -> Batch \cup {NoBatch}]
    BY <1>3, PollBatch
  <2> QED BY <1>3, <2>1 DEF IInv, TypeOK, Poll
<1>4. ASSUME NEW t \in Threads, Consume(t)
      PROVE  TypeOK'
  <2>1. batch' \in [Threads -> Batch \cup {NoBatch}]
    BY <1>4, ConsumeBatch
  <2> QED BY <1>4, <2>1, <1>i DEF IInv, TypeOK, Consume
<1>5. ASSUME NEW t \in Threads, FailAndRetry(t)
      PROVE  TypeOK'
  <2>1. AttemptsNow(t) \in Nat /\ batch[t].next \in Nat \ {0} /\ Busy(t)
    BY <1>5, AttemptsType, CurrentIsEvent DEF FailAndRetry, Batch, Delivering
  <2>2. batch' \in [Threads -> Batch \cup {NoBatch}]
    BY <1>5, <2>1, TruncateType DEF FailAndRetry
  <2>3. failures' \in [Threads -> [Partitions -> [offset : Nat, count : Nat]]]
    BY <1>5, <2>1 DEF FailAndRetry, IInv, TypeOK
  <2> QED BY <1>5, <2>2, <2>3, <1>i DEF IInv, TypeOK, FailAndRetry
<1>6. ASSUME NEW t \in Threads, Recover(t) \/ RecoverFails(t)
      PROVE  TypeOK'
  <2>1. /\ batch[t].next \in Nat \ {0} /\ batch[t].next + 1 \in Nat \ {0}
        /\ Busy(t) /\ batch[t].part \in Partitions
    BY <1>6, CurrentIsEvent DEF Recover, RecoverFails, MustRecover, Batch, Delivering
  <2>2. batch' \in [Threads -> Batch \cup {NoBatch}]
    <3>1. Truncate(t, batch[t].next) \in [Threads -> Batch \cup {NoBatch}]
      BY <2>1, TruncateType
    <3>2. Truncate(t, batch[t].next + 1) \in [Threads -> Batch \cup {NoBatch}]
      BY <2>1, TruncateType
    <3> QED BY <1>6, <3>1, <3>2 DEF Recover, RecoverFails
  <2>3. failures' \in [Threads -> [Partitions -> [offset : Nat, count : Nat]]]
    <3>1. NoFailure \in [offset : Nat, count : Nat]
      BY DEF NoFailure
    <3>2. failures' = [failures EXCEPT ![t][batch[t].part] = NoFailure]
      BY <1>6 DEF Recover, RecoverFails
    <3> QED BY <3>1, <3>2, <1>t DEF TypeOK
  <2>4. dead' \subseteq [topic : {DeadLetterTopic}, part : Partitions, offset : Nat]
    BY <1>6, <2>1 DEF Recover, RecoverFails, DeadLetter, IInv, TypeOK
  <2> QED BY <1>6, <2>2, <2>3, <2>4, <1>i DEF IInv, TypeOK, Recover, RecoverFails
<1>7. ASSUME NEW t \in Threads, Commit(t)
      PROVE  TypeOK'
  <2>1. batch[t] \in Batch
    BY <1>7 DEF IInv, TypeOK, Commit, Busy
  <2>2. batch[t].next - 1 \in Nat
    BY <2>1 DEF Batch
  <2>3. committed' \in [Partitions -> Nat]
    BY <1>7, <2>2 DEF Commit, IInv, TypeOK
  <2> QED BY <1>7, <2>3 DEF IInv, TypeOK, Commit
<1>8. ASSUME NEW t \in Threads, NEW p \in Partitions, Rebalance(t, p)
      PROVE  TypeOK'
  <2>1. owner' \in [Partitions -> Threads] /\ rebalances' \in Nat
    BY <1>8, <1>t DEF Rebalance, TypeOK
  <2> QED BY <1>8, <2>1, <1>t DEF TypeOK, Rebalance
<1>9. ASSUME NEW r \in Replicas, Crash(r)
      PROVE  TypeOK'
  <2>1. batch' \in [Threads -> Batch \cup {NoBatch}]
    BY <1>9, <1>t DEF Crash, TypeOK
  <2>2. failures' \in [Threads -> [Partitions -> [offset : Nat, count : Nat]]]
    BY <1>9, <1>t DEF Crash, TypeOK, NoFailure
  <2> QED BY <1>9, <2>1, <2>2, <1>t DEF TypeOK, Crash
<1> QED BY <1>1, <1>2, <1>3, <1>4, <1>5, <1>6, <1>7, <1>8, <1>9 DEF Next, Work

-----------------------------------------------------------------------------
\* How each action may move a thread's cursor: not at all, forget it, start at
\* the committed offset, step over a record that is handled afterwards, or
\* stay on the record that failed.
CursorKept(u) == batch'[u] = batch[u]

CursorDropped(u) == batch'[u] = NoBatch

CursorPolled(u) ==
  /\ owner[batch'[u].part] = u
  /\ batch'[u].part \in Partitions
  /\ batch'[u].next = committed[batch'[u].part] + 1
  /\ batch'[u].last \in Nat
  /\ batch'[u].next <= batch'[u].last
  /\ batch'[u].last <= Len(log[batch'[u].part])
  /\ UNCHANGED <<log, committed, owner>>

CursorMoved(u) ==
  /\ Delivering(u)
  /\ batch'[u].part = batch[u].part
  /\ \/ batch'[u].next = batch[u].next
     \/ /\ batch'[u].next = batch[u].next + 1
        /\ \A p \in Partitions, i \in Nat :
              p = batch[u].part /\ i = batch[u].next => Handled(p, i)'
  /\ \/ batch'[u].last = batch[u].last
     \/ batch'[u].last = batch'[u].next - 1
  /\ UNCHANGED <<log, committed, owner>>

LEMMA CursorSteps ==
  ASSUME IInv, [Next]_vars, NEW u \in Threads
  PROVE  CursorKept(u) \/ CursorDropped(u) \/ CursorPolled(u) \/ CursorMoved(u)
<1> DEFINE Goal == CursorKept(u) \/ CursorDropped(u) \/ CursorPolled(u) \/ CursorMoved(u)
<1>t. TypeOK
  BY DEF IInv
<1>1. CASE UNCHANGED batch
  BY <1>1 DEF CursorKept
<1>2. ASSUME NEW t \in Threads, NEW p \in Partitions, Poll(t, p)
      PROVE  Goal
  <2>1. PICK n \in 1..MaxPoll :
            /\ committed[p] + n <= Len(log[p])
            /\ batch'[t] = [part |-> p, next |-> committed[p] + 1, last |-> committed[p] + n]
            /\ \A v \in Threads \ {t} : batch'[v] = batch[v]
    BY <1>2, PollBatch
  <2>2. CASE u # t
    BY <2>1, <2>2 DEF CursorKept
  <2>3. CASE u = t
    <3>1. committed[p] \in Nat /\ n \in Nat /\ n >= 1
      BY <1>t, IngestAssumption DEF TypeOK
    <3>2. /\ batch'[u].part = p
          /\ batch'[u].next = committed[p] + 1
          /\ batch'[u].last = committed[p] + n
      BY <2>1, <2>3
    <3>3. owner[p] = u /\ UNCHANGED <<log, committed, owner>>
      BY <1>2, <2>3 DEF Poll
    <3>4. CursorPolled(u)
      BY <2>1, <3>1, <3>2, <3>3 DEF CursorPolled
    <3> QED BY <3>4
  <2> QED BY <2>2, <2>3
<1>3. ASSUME NEW t \in Threads, Consume(t)
      PROVE  Goal
  <2>1. /\ batch'[t] = [part |-> batch[t].part, next |-> batch[t].next + 1,
                        last |-> batch[t].last]
        /\ \A v \in Threads \ {t} : batch'[v] = batch[v]
    BY <1>3, ConsumeBatch
  <2>2. CASE u # t
    BY <2>1, <2>2 DEF CursorKept
  <2>3. CASE u = t
    <3>1. Delivering(t) /\ UNCHANGED <<log, committed, owner>>
      BY <1>3 DEF Consume
    <3>2. \E d \in index' : d.event = Current(t)
      BY <1>3, <3>1, CurrentIsEvent, UpsertKeeps DEF Consume, IInv
    <3>3. ASSUME NEW p \in Partitions, NEW i \in Nat, p = batch[t].part, i = batch[t].next
          PROVE  Handled(p, i)'
      <4>1. Current(t) = log'[p][i]
        BY <3>1, <3>3 DEF Current
      <4> QED BY <3>2, <4>1 DEF Handled, Indexed
    <3>4. CursorMoved(u)
      BY <2>1, <2>3, <3>1, <3>3 DEF CursorMoved
    <3> QED BY <3>4
  <2> QED BY <2>2, <2>3
<1>4. ASSUME NEW t \in Threads, FailAndRetry(t) \/ RecoverFails(t)
      PROVE  Goal
  <2>1. Delivering(t) /\ Busy(t) /\ UNCHANGED <<log, committed, owner>>
    BY <1>4 DEF FailAndRetry, RecoverFails, MustRecover, Delivering
  <2>2. batch[t].next \in Nat \ {0}
    BY <2>1, CurrentIsEvent DEF Batch
  <2>3. /\ batch'[t] = [part |-> batch[t].part, next |-> batch[t].next,
                        last |-> batch[t].next - 1]
        /\ \A v \in Threads \ {t} : batch'[v] = batch[v]
    BY <1>4, <2>1, <2>2, TruncateType DEF FailAndRetry, RecoverFails
  <2>4. CASE u # t
    BY <2>3, <2>4 DEF CursorKept
  <2>5. CASE u = t
    <3>1. CursorMoved(u)
      BY <2>1, <2>3, <2>5 DEF CursorMoved
    <3> QED BY <3>1
  <2> QED BY <2>4, <2>5
<1>5. ASSUME NEW t \in Threads, Recover(t)
      PROVE  Goal
  <2>1. Delivering(t) /\ Busy(t) /\ UNCHANGED <<log, committed, owner>>
    BY <1>5 DEF Recover, MustRecover, Delivering
  <2>2. batch[t].next \in Nat \ {0} /\ batch[t].next + 1 \in Nat \ {0}
    BY <2>1, CurrentIsEvent DEF Batch
  <2>3. /\ batch'[t] = [part |-> batch[t].part, next |-> batch[t].next + 1,
                        last |-> (batch[t].next + 1) - 1]
        /\ \A v \in Threads \ {t} : batch'[v] = batch[v]
    BY <1>5, <2>1, <2>2, TruncateType DEF Recover
  <2>4. CASE u # t
    BY <2>3, <2>4 DEF CursorKept
  <2>5. CASE u = t
    <3>1. DeadLetter(batch[t].part, batch[t].next) \in dead'
      BY <1>5 DEF Recover
    <3>2. ASSUME NEW p \in Partitions, NEW i \in Nat, p = batch[t].part, i = batch[t].next
          PROVE  Handled(p, i)'
      <4>1. \E r \in dead' : r.part = p /\ r.offset = i
        BY <3>1, <3>2 DEF DeadLetter
      <4> QED BY <4>1 DEF Handled, DeadLettered
    <3>3. CursorMoved(u)
      BY <2>1, <2>3, <2>5, <3>2 DEF CursorMoved
    <3> QED BY <3>3
  <2> QED BY <2>4, <2>5
<1>6. ASSUME NEW t \in Threads, Commit(t)
      PROVE  Goal
  <2>1. batch' = [batch EXCEPT ![t] = NoBatch] /\ batch \in [Threads -> Batch \cup {NoBatch}]
    BY <1>6, <1>t DEF Commit, TypeOK
  <2> QED BY <2>1 DEF CursorKept, CursorDropped
<1>7. ASSUME NEW r \in Replicas, Crash(r)
      PROVE  Goal
  BY <1>7 DEF Crash, CursorKept, CursorDropped
<1> HIDE DEF Goal
<1> QED BY <1>1, <1>2, <1>3, <1>4, <1>5, <1>6, <1>7
        DEF Next, Work, vars, AppendRecord, Rebalance, Goal

-----------------------------------------------------------------------------
\* The same for the committed offset: only the thread that owns p moves it, to
\* the end of what it has handled.
LEMMA CommitSteps ==
  ASSUME IInv, [Next]_vars, NEW p \in Partitions
  PROVE  \/ committed'[p] = committed[p]
         \/ \E t \in Threads : /\ Commit(t)
                               /\ owner[p] = t
                               /\ batch[t].part = p
                               /\ committed'[p] = batch[t].next - 1
<1>t. TypeOK
  BY DEF IInv
<1>1. CASE UNCHANGED committed
  BY <1>1
<1>2. ASSUME NEW t \in Threads, Commit(t), owner[batch[t].part] = t, batch[t].part = p
      PROVE  committed'[p] = batch[t].next - 1
  <2>1. committed' = [committed EXCEPT ![p] = batch[t].next - 1]
    BY <1>2 DEF Commit, CommitAccepted
  <2> QED BY <2>1, <1>t DEF TypeOK
<1>3. ASSUME NEW t \in Threads, Commit(t), ~(owner[batch[t].part] = t /\ batch[t].part = p)
      PROVE  committed'[p] = committed[p]
  BY <1>3, <1>t DEF Commit, CommitAccepted, TypeOK
<1> QED BY <1>1, <1>2, <1>3
        DEF Next, Work, vars, AppendRecord, Poll, Consume, FailAndRetry, Recover,
            RecoverFails, Rebalance, Crash

\* A busy thread's batch, and the log of its partition, are well typed.
LEMMA BusyType ==
  ASSUME IInv, NEW t \in Threads, Busy(t)
  PROVE  /\ batch[t] \in Batch
         /\ batch[t].part \in Partitions
         /\ batch[t].next \in Nat \ {0}
         /\ batch[t].last \in Nat
         /\ Len(log[batch[t].part]) \in Nat
         /\ committed[batch[t].part] \in Nat
         /\ batch[t].next - 1 <= Len(log[batch[t].part])
<1>1. batch[t] \in Batch
  BY DEF IInv, TypeOK, Busy
<1>2. log[batch[t].part] \in Seq(Events) /\ committed[batch[t].part] \in Nat
  BY <1>1 DEF IInv, TypeOK, Batch
<1> QED BY <1>1, <1>2 DEF IInv, CursorsAreHandled, Batch

LEMMA CommittedStep ==
  ASSUME IInv, [Next]_vars
  PROVE  CommittedAreHandled'
<1> SUFFICES ASSUME NEW p \in Partitions, NEW i \in 1..committed'[p]
             PROVE  i <= Len(log'[p]) /\ Handled(p, i)'
  BY DEF CommittedAreHandled
<1>1. i \in 1..Len(log[p]) /\ Handled(p, i)
  <2>1. CASE committed'[p] = committed[p]
    <3>1. log[p] \in Seq(Events) /\ committed[p] \in Nat
      BY DEF IInv, TypeOK
    <3> QED BY <2>1, <3>1 DEF IInv, CommittedAreHandled
  <2>2. ASSUME NEW t \in Threads, Commit(t), batch[t].part = p,
               committed'[p] = batch[t].next - 1
        PROVE  i \in 1..Len(log[p]) /\ Handled(p, i)
    <3>1. Busy(t)
      BY <2>2 DEF Commit
    <3> QED BY <2>2, <3>1, BusyType DEF IInv, CursorsAreHandled
  <2> QED BY <2>1, <2>2, CommitSteps
<1> QED BY <1>1, HandledIsStable

LEMMA CursorsStep ==
  ASSUME IInv, [Next]_vars
  PROVE  CursorsAreHandled'
<1> SUFFICES ASSUME NEW t \in Threads, batch'[t] # NoBatch
             PROVE  /\ batch'[t].last <= Len(log'[batch'[t].part])
                    /\ batch'[t].next <= batch'[t].last + 1
                    /\ \A p \in Partitions : p = batch'[t].part =>
                          \A i \in 1..(batch'[t].next - 1) : Handled(p, i)'
  <2>1. \A t \in Threads : batch'[t] # NoBatch => batch'[t].part \in Partitions
    BY TypeStep DEF TypeOK, Batch
  <2> QED BY <2>1 DEF CursorsAreHandled, Busy
<1>1. CASE CursorKept(t)
  <2>1. Busy(t)
    BY <1>1 DEF CursorKept, Busy
  <2>2. /\ batch[t].last <= Len(log[batch[t].part])
        /\ batch[t].next <= batch[t].last + 1
        /\ \A i \in 1..(batch[t].next - 1) : Handled(batch[t].part, i)
    BY <2>1 DEF IInv, CursorsAreHandled
  <2>3. batch[t].last = 0 \/ batch[t].last \in 1..Len(log[batch[t].part])
    BY <2>1, <2>2, BusyType
  <2>4. Len(log'[batch[t].part]) \in Nat
    <3>1. log'[batch[t].part] \in Seq(Events)
      BY <2>1, BusyType, TypeStep DEF TypeOK
    <3> QED BY <3>1
  <2>5. batch[t].last <= Len(log'[batch[t].part])
    BY <2>1, <2>3, <2>4, BusyType, HandledIsStable
  <2>6. ASSUME NEW i \in 1..(batch[t].next - 1)
        PROVE  i \in 1..Len(log[batch[t].part])
    BY <2>1, <2>6, BusyType
  <2>7. ASSUME NEW p \in Partitions, p = batch[t].part, NEW i \in 1..(batch[t].next - 1)
        PROVE  Handled(p, i)'
    BY <2>2, <2>6, <2>7, HandledIsStable
  <2> QED BY <1>1, <2>2, <2>5, <2>7 DEF CursorKept
<1>2. CASE CursorDropped(t)
  BY <1>2 DEF CursorDropped
<1>3. CASE CursorPolled(t)
  <2> DEFINE q == batch'[t].part
  <2>1. q \in Partitions /\ UNCHANGED log /\ committed[q] \in Nat
    BY <1>3 DEF CursorPolled, IInv, TypeOK
  <2>2. ASSUME NEW p \in Partitions, p = q, NEW i \in 1..(batch'[t].next - 1)
        PROVE  Handled(p, i)'
    <3>1. i \in 1..committed[p]
      BY <1>3, <2>1, <2>2 DEF CursorPolled
    <3>2. i <= Len(log[p]) /\ Handled(p, i)
      BY <3>1 DEF IInv, CommittedAreHandled
    <3>3. i \in 1..Len(log[p])
      <4>1. log[p] \in Seq(Events)
        BY DEF IInv, TypeOK
      <4> QED BY <3>1, <3>2, <4>1
    <3> QED BY <3>2, <3>3, HandledIsStable
  <2>3. batch'[t].next <= batch'[t].last + 1
    BY <1>3, <2>1 DEF CursorPolled
  <2> QED BY <1>3, <2>1, <2>2, <2>3 DEF CursorPolled
<1>4. CASE CursorMoved(t)
  <2>1. Delivering(t) /\ Busy(t) /\ UNCHANGED log
    BY <1>4 DEF CursorMoved, Delivering
  <2>2. /\ batch[t].last <= Len(log[batch[t].part])
        /\ batch[t].next <= batch[t].last
        /\ \A i \in 1..(batch[t].next - 1) : Handled(batch[t].part, i)
    BY <2>1 DEF IInv, CursorsAreHandled, Delivering
  <2>3. /\ batch'[t].last <= Len(log'[batch'[t].part])
        /\ batch'[t].next <= batch'[t].last + 1
    <3>1. /\ batch[t].next \in Nat /\ batch[t].last \in Nat
          /\ Len(log[batch[t].part]) \in Nat
      BY <2>1, BusyType
    <3>2. log'[batch'[t].part] = log[batch[t].part]
      BY <1>4, <2>1 DEF CursorMoved
    <3>3. batch'[t].next \in {batch[t].next, batch[t].next + 1}
      BY <1>4 DEF CursorMoved
    <3>4. batch'[t].last \in {batch[t].last, batch'[t].next - 1}
      BY <1>4 DEF CursorMoved
    <3>5. CASE batch'[t].last = batch[t].last
      BY <2>2, <3>1, <3>2, <3>3, <3>5
    <3>6. CASE batch'[t].last = batch'[t].next - 1
      BY <2>2, <3>1, <3>2, <3>3, <3>6
    <3> QED BY <3>4, <3>5, <3>6
  <2>4. ASSUME NEW p \in Partitions, p = batch'[t].part, NEW i \in 1..(batch'[t].next - 1)
        PROVE  Handled(p, i)'
    <3>1. p = batch[t].part
      BY <1>4, <2>4 DEF CursorMoved
    <3>2. CASE i \in 1..(batch[t].next - 1)
      <4>1. i \in 1..Len(log[p]) /\ Handled(p, i)
        BY <2>1, <2>2, <3>1, <3>2, BusyType
      <4> QED BY <4>1, HandledIsStable
    <3>3. CASE i = batch[t].next /\ batch'[t].next = batch[t].next + 1
      <4>1. i \in Nat /\ batch'[t].next # batch[t].next
        BY <2>1, <3>3, BusyType
      <4> QED BY <1>4, <3>1, <3>3, <4>1 DEF CursorMoved
    <3> QED BY <1>4, <2>1, <2>4, <3>2, <3>3, BusyType DEF CursorMoved
  <2> QED BY <2>3, <2>4
<1> QED BY <1>1, <1>2, <1>3, <1>4, CursorSteps

LEMMA OwnersStep ==
  ASSUME IInv, [Next]_vars
  PROVE  OwnersAreAhead'
<1> SUFFICES ASSUME NEW t \in Threads, batch'[t] # NoBatch, owner'[batch'[t].part] = t
             PROVE  committed'[batch'[t].part] <= batch'[t].next - 1
  BY DEF OwnersAreAhead, Busy
<1>1. CASE CursorKept(t)
  <2>1. Busy(t)
    BY <1>1 DEF CursorKept, Busy
  <2>2. owner[batch[t].part] = t
    <3>1. CASE UNCHANGED owner
      BY <1>1, <3>1 DEF CursorKept
    <3>2. ASSUME NEW u \in Threads, NEW p \in Partitions, Rebalance(u, p)
          PROVE  owner[batch[t].part] = t
      BY <1>1, <2>1, <3>2, BusyType DEF Rebalance, CursorKept, Busy, IInv, TypeOK
    <3> QED BY <3>1, <3>2 DEF Next, Work, vars, AppendRecord, Poll, Consume, FailAndRetry,
                              Recover, RecoverFails, Commit, Crash
  <2>3. committed'[batch[t].part] = committed[batch[t].part]
    <3>1. ASSUME NEW u \in Threads, Commit(u), owner[batch[t].part] = u
          PROVE  FALSE
      <4>1. batch'[t] = NoBatch
        BY <2>2, <3>1 DEF Commit, IInv, TypeOK
      <4> QED BY <4>1
    <3> QED BY <2>1, <3>1, BusyType, CommitSteps
  <2> QED BY <1>1, <2>1, <2>2, <2>3 DEF CursorKept, IInv, OwnersAreAhead
<1>2. CASE CursorDropped(t)
  BY <1>2 DEF CursorDropped
<1>3. CASE CursorPolled(t)
  <2>1. committed[batch'[t].part] \in Nat
    BY <1>3 DEF CursorPolled, IInv, TypeOK
  <2> QED BY <1>3, <2>1 DEF CursorPolled
<1>4. CASE CursorMoved(t)
  <2>1. Busy(t) /\ owner[batch[t].part] = t /\ UNCHANGED <<log, committed, owner>>
    BY <1>4 DEF CursorMoved, Delivering
  <2>2. committed[batch[t].part] <= batch[t].next - 1
    BY <2>1 DEF IInv, OwnersAreAhead
  <2> QED BY <1>4, <2>1, <2>2, BusyType DEF CursorMoved
<1> QED BY <1>1, <1>2, <1>3, <1>4, CursorSteps

LEMMA IdsStep ==
  ASSUME IInv, [Next]_vars
  PROVE  IdsAreEvents'
<1>1. CASE UNCHANGED index
  BY <1>1 DEF IInv, IdsAreEvents
<1>2. ASSUME NEW t \in Threads, Delivering(t), index' = Upsert(index, Current(t))
      PROVE  IdsAreEvents'
  BY <1>2, CurrentIsEvent, UpsertKeeps DEF IInv, IdsAreEvents
<1> QED BY <1>1, <1>2, IndexSteps

-----------------------------------------------------------------------------
\* The strengthened invariant holds in every reachable state.
THEOREM Inductive == Spec => []IInv
<1>1. Init => IInv
  <2> SUFFICES ASSUME Init PROVE IInv
    OBVIOUS
  <2>1. TypeOK
    BY DEF Init, TypeOK, NoFailure
  <2> QED BY <2>1 DEF Init, IInv, CommittedAreHandled, CursorsAreHandled, OwnersAreAhead,
                      IdsAreEvents, Busy
<1>2. IInv /\ [Next]_vars => IInv'
  BY TypeStep, CommittedStep, CursorsStep, OwnersStep, IdsStep DEF IInv
<1> QED BY <1>1, <1>2, PTL DEF Spec

\* Every variable keeps its type, for any parameters.
THEOREM TypeCorrect == Spec => []TypeOK
<1>1. IInv => TypeOK
  BY DEF IInv
<1> QED BY <1>1, Inductive, PTL

\* No event is lost between the topic and the index: what the group has
\* committed is indexed or dead-lettered (ApiEventConsumer, KafkaConfig).
THEOREM NothingCommittedIsLost == Spec => []CommittedAreHandled
<1>1. IInv => CommittedAreHandled
  BY DEF IInv
<1> QED BY <1>1, Inductive, PTL

\* Redeliveries, producer duplicates and saves by threads that lost their
\* partition leave one document per event (processEvent's document id).
THEOREM EffectivelyOnce == Spec => []OneDocumentPerEvent
<1>1. IInv => OneDocumentPerEvent
  <2> SUFFICES ASSUME IInv, NEW d1 \in index, NEW d2 \in index, d1.event = d2.event
               PROVE  d1 = d2
    BY DEF OneDocumentPerEvent
  <2>1. d1.id = d2.id
    BY DEF IInv, IdsAreEvents
  <2>2. d1 \in [id : Events, event : Events] /\ d2 \in [id : Events, event : Events]
    BY DEF IInv, TypeOK
  <2> QED BY <2>1, <2>2
<1> QED BY <1>1, Inductive, PTL

\* A committed offset never goes back (the group coordinator's fencing and the
\* in-order batches of a listener thread).
THEOREM CommitsAdvance == Spec => OffsetsNeverRegress
<1>1. IInv /\ [Next]_vars => [OffsetsAdvance]_vars
  <2> SUFFICES ASSUME IInv, [Next]_vars, NEW p \in Partitions
               PROVE  committed'[p] >= committed[p]
    BY DEF OffsetsAdvance
  <2>1. committed[p] \in Nat
    BY DEF IInv, TypeOK
  <2>2. ASSUME NEW t \in Threads, Commit(t), owner[p] = t, batch[t].part = p,
               committed'[p] = batch[t].next - 1
        PROVE  committed'[p] >= committed[p]
    <3>1. Busy(t)
      BY <2>2 DEF Commit
    <3> QED BY <2>2, <3>1, BusyType DEF IInv, OwnersAreAhead
  <2> QED BY <2>1, <2>2, CommitSteps
<1> QED BY <1>1, Inductive, PTL DEF Spec, OffsetsNeverRegress

\* What is indexed or dead-lettered stays so.
THEOREM NothingIsUnsettled == Spec => HandledStaysHandled
<1> DEFINE Stays == \A p \in Partitions : \A i \in 1..Len(log[p]) : Handled(p, i) => Handled(p, i)'
<1>1. IInv /\ [Next]_vars => Stays
  BY HandledIsStable
<1>2. IInv /\ [Next]_vars => [Stays]_vars
  BY <1>1
<1> QED BY <1>2, Inductive, PTL DEF Spec, HandledStaysHandled

-----------------------------------------------------------------------------
\* The refinement mapping of Group (in module EventIngest), named.
lengthBar == [p \in Partitions |-> Len(log[p])]

settledBar == {r \in Partitions \X (1..MaxLog) :
                  r[2] <= Len(log[r[1]]) /\ Handled(r[1], r[2])}

LogBounded == \A p \in Partitions : Len(log[p]) <= MaxLog

THEOREM LogIsBounded == Spec => []LogBounded
<1>1. Init => LogBounded
  BY IngestAssumption DEF Init, LogBounded
<1>2. IInv /\ LogBounded /\ [Next]_vars => LogBounded'
  <2> SUFFICES ASSUME IInv, LogBounded, [Next]_vars, NEW p \in Partitions
               PROVE  Len(log'[p]) <= MaxLog
    BY DEF LogBounded
  <2>1. log \in [Partitions -> Seq(Events)]
    BY DEF IInv, TypeOK
  <2>2. ASSUME NEW e \in Events, AppendRecord(e)
        PROVE  Len(log'[p]) <= MaxLog
    <3>1. CASE p = PartitionOf[e]
      <4>1. log'[p] = Append(log[p], e) /\ Len(log[p]) < MaxLog /\ log[p] \in Seq(Events)
        BY <2>1, <2>2, <3>1 DEF AppendRecord
      <4>2. Len(log'[p]) = Len(log[p]) + 1
        BY <4>1
      <4> QED BY <4>1, <4>2, IngestAssumption
    <3>2. CASE p # PartitionOf[e]
      BY <2>1, <2>2, <3>2 DEF AppendRecord, LogBounded
    <3> QED BY <3>1, <3>2
  <2>3. CASE UNCHANGED log
    BY <2>3 DEF LogBounded
  <2> QED BY <2>2, <2>3 DEF Next, Work, vars, Poll, Consume, FailAndRetry, Recover,
                            RecoverFails, Commit, Rebalance, Crash
<1> QED BY <1>1, <1>2, Inductive, PTL DEF Spec

\* A record is settled under the mapping exactly when it is handled.
LEMMA SettledIsHandled ==
  ASSUME IInv, LogBounded, NEW p \in Partitions, NEW i \in Nat
  PROVE  <<p, i>> \in settledBar <=> i \in 1..Len(log[p]) /\ Handled(p, i)
<1>1. log[p] \in Seq(Events) /\ Len(log[p]) \in Nat /\ Len(log[p]) <= MaxLog
  BY DEF IInv, TypeOK, LogBounded
<1> QED BY <1>1, IngestAssumption DEF settledBar

\* Settled records are records of the topic and stay settled.
LEMMA SettledGrows ==
  ASSUME IInv, LogBounded, LogBounded', [Next]_vars
  PROVE  settledBar \subseteq settledBar'
<1> SUFFICES ASSUME NEW p \in Partitions, NEW i \in 1..MaxLog, <<p, i>> \in settledBar
             PROVE  <<p, i>> \in settledBar'
  BY DEF settledBar
<1>1. i \in 1..Len(log[p]) /\ Handled(p, i)
  BY SettledIsHandled, IngestAssumption
<1>2. i <= Len(log'[p]) /\ Handled(p, i)'
  BY <1>1, HandledIsStable
<1> QED BY <1>2 DEF settledBar

\* An append maps to the arrival of one record.
LEMMA AppendArrives ==
  ASSUME IInv, LogBounded, LogBounded', [Next]_vars, NEW e \in Events, AppendRecord(e)
  PROVE  Group!Arrive(PartitionOf[e])
<1> DEFINE p == PartitionOf[e]
           new == <<p, Len(log[p]) + 1>>
<1>1. log \in [Partitions -> Seq(Events)] /\ p \in Partitions
  BY IngestAssumption DEF IInv, TypeOK
<1>2. log[p] \in Seq(Events) /\ Len(log[p]) \in Nat
  BY <1>1
<1>3. log' = [log EXCEPT ![p] = Append(log[p], e)] /\ UNCHANGED <<committed, index, dead>>
  BY DEF AppendRecord
<1>4. Len(log'[p]) = Len(log[p]) + 1
  <2>1. log'[p] = Append(log[p], e)
    BY <1>1, <1>3
  <2> QED BY <2>1, <1>2
<1>5. \A q \in Partitions \ {p} : log'[q] = log[q]
  BY <1>1, <1>3
<1>6. lengthBar' = [lengthBar EXCEPT ![p] = @ + 1]
  BY <1>1, <1>4, <1>5 DEF lengthBar
<1>7. ASSUME NEW q \in Partitions, NEW i \in 1..MaxLog,
             <<q, i>> \in settledBar', <<q, i>> # new
      PROVE  <<q, i>> \in settledBar
  <2>1. i <= Len(log'[q]) /\ Handled(q, i)'
    BY <1>7 DEF settledBar
  <2>2. i \in 1..Len(log[q])
    <3>1. log[q] \in Seq(Events) /\ Len(log[q]) \in Nat
      BY <1>1
    <3>2. CASE q = p
      BY <1>2, <1>4, <1>7, <2>1, <3>2, IngestAssumption
    <3>3. CASE q # p
      BY <1>5, <2>1, <3>1, <3>3, IngestAssumption
    <3> QED BY <3>2, <3>3
  <2>3. log'[q][i] = log[q][i]
    BY <2>2, HandledIsStable
  <2>4. Handled(q, i)
    BY <1>3, <2>1, <2>3 DEF Handled, Indexed, DeadLettered
  <2> QED BY <2>2, <2>4 DEF settledBar
<1>8. settledBar' \subseteq settledBar \cup {new}
  <2> SUFFICES ASSUME NEW r \in settledBar', r # new
               PROVE  r \in settledBar
    OBVIOUS
  <2>1. PICK q \in Partitions, i \in 1..MaxLog : r = <<q, i>>
    BY DEF settledBar
  <2> QED BY <2>1, <1>7
<1>9. settledBar' = settledBar \/ settledBar' = settledBar \cup {new}
  BY <1>8, SettledGrows
<1>10. lengthBar[p] = Len(log[p])
  BY <1>1 DEF lengthBar
<1> QED BY <1>3, <1>6, <1>9, <1>10 DEF Group!Arrive, lengthBar, settledBar

\* A commit maps to a jump of the offset over settled records, or to a stutter.
LEMMA CommitJumps ==
  ASSUME IInv, LogBounded, NEW t \in Threads, Commit(t)
  PROVE  \/ UNCHANGED <<log, committed, index, dead>>
         \/ \E p \in Partitions : \E n \in 0..lengthBar[p] : Group!CommitTo(p, n)
<1> DEFINE p == batch[t].part
           n == batch[t].next - 1
<1>1. Busy(t) /\ UNCHANGED <<log, index, dead>>
  BY DEF Commit
<1>2. CASE ~CommitAccepted(t)
  BY <1>1, <1>2 DEF Commit
<1>3. CASE CommitAccepted(t)
  <2>1. p \in Partitions /\ n \in Nat /\ n <= Len(log[p]) /\ Len(log[p]) \in Nat
    BY <1>1, BusyType
  <2>2. committed[p] <= n
    BY <1>1, <1>3 DEF CommitAccepted, IInv, OwnersAreAhead
  <2>3. \A i \in 1..n : <<p, i>> \in settledBar
    <3> SUFFICES ASSUME NEW i \in 1..n PROVE <<p, i>> \in settledBar
      OBVIOUS
    <3>1. Handled(p, i)
      BY <1>1 DEF IInv, CursorsAreHandled
    <3>2. i \in Nat /\ i \in 1..Len(log[p])
      BY <2>1
    <3> QED BY <2>1, <3>1, <3>2, SettledIsHandled
  <2>4. lengthBar[p] = Len(log[p]) /\ lengthBar' = lengthBar /\ settledBar' = settledBar
    BY <1>1, <2>1 DEF lengthBar, settledBar, Handled, Indexed, DeadLettered
  <2>5. committed' = [committed EXCEPT ![p] = n]
    BY <1>3 DEF Commit
  <2>6. Group!CommitTo(p, n) /\ n \in 0..lengthBar[p]
    BY <2>1, <2>2, <2>3, <2>4, <2>5 DEF Group!CommitTo, lengthBar, settledBar
  <2> QED BY <2>1, <2>6
<1> QED BY <1>2, <1>3

\* The analytics consumer group implements the contract of AtLeastOnce, with
\* every thread, batch, retry, crash and rebalance hidden.
THEOREM ImplementsContract == Spec => ImplementsAtLeastOnce
<1>1. Init => Group!AloInit
  <2> SUFFICES ASSUME Init
               PROVE  /\ lengthBar = [p \in Partitions |-> 0]
                      /\ committed = [p \in Partitions |-> 0]
                      /\ settledBar = {}
    BY DEF Group!AloInit, lengthBar, settledBar
  <2>1. settledBar = {}
    BY IngestAssumption DEF Init, settledBar
  <2> QED BY <2>1 DEF Init, lengthBar
<1>2. IInv /\ LogBounded /\ LogBounded' /\ [Next]_vars => [Group!AloNext]_(Group!aloVars)
  <2> SUFFICES ASSUME IInv, LogBounded, LogBounded', [Next]_vars
               PROVE  \/ Group!AloNext
                      \/ UNCHANGED <<lengthBar, committed, settledBar>>
    BY DEF Group!aloVars, lengthBar, settledBar
  <2>1. ASSUME NEW e \in Events, AppendRecord(e)
        PROVE  Group!AloNext
    <3>1. PartitionOf[e] \in Partitions
      BY IngestAssumption
    <3> QED BY <2>1, <3>1, AppendArrives DEF Group!AloNext
  <2>2. CASE UNCHANGED <<log, committed, index, dead>>
    BY <2>2 DEF lengthBar, settledBar, Handled, Indexed, DeadLettered
  <2>3. ASSUME NEW t \in Threads, Commit(t)
        PROVE  \/ Group!AloNext
               \/ UNCHANGED <<log, committed, index, dead>>
    BY <2>3, CommitJumps DEF Group!AloNext, lengthBar
  <2>4. CASE UNCHANGED <<log, committed>>
    <3>1. settledBar \subseteq settledBar' /\ lengthBar' = lengthBar
      BY <2>4, SettledGrows DEF lengthBar
    <3>2. ASSUME NEW r \in settledBar'
          PROVE  r[1] \in Partitions /\ r[2] \in 1..lengthBar[r[1]]
      <4>1. r[1] \in Partitions /\ r[2] \in 1..MaxLog /\ r[2] <= Len(log[r[1]])
        BY <2>4 DEF settledBar
      <4>2. Len(log[r[1]]) \in Nat
        <5>1. log[r[1]] \in Seq(Events)
          BY <4>1 DEF IInv, TypeOK
        <5> QED BY <5>1
      <4> QED BY <4>1, <4>2, IngestAssumption DEF lengthBar
    <3>3. Group!Settle
      BY <2>4, <3>1, <3>2 DEF Group!Settle, lengthBar, settledBar
    <3> QED BY <3>3 DEF Group!AloNext
  <2> QED BY <2>1, <2>2, <2>3, <2>4
          DEF Next, Work, vars, Poll, Consume, FailAndRetry, Recover, RecoverFails,
              Rebalance, Crash
<1> QED BY <1>1, <1>2, Inductive, LogIsBounded, PTL
        DEF Spec, ImplementsAtLeastOnce, Group!AloSpec

-----------------------------------------------------------------------------
\* A record is in the partition its key sends it to.
LogIsKeyed == \A p \in Partitions : \A i \in 1..Len(log[p]) : PartitionOf[log[p][i]] = p

\* The current record of a delivery is in the topic, where its key sends it.
LEMMA CurrentInTopic ==
  ASSUME IInv, LogIsKeyed, NEW t \in Threads, Delivering(t)
  PROVE  LET e == Current(t)
         IN  \E i \in 1..Len(log[PartitionOf[e]]) : log[PartitionOf[e]][i] = e
<1>1. batch[t].next \in 1..Len(log[batch[t].part]) /\ batch[t].part \in Partitions
  BY CurrentIsEvent DEF Batch
<1>2. PartitionOf[Current(t)] = batch[t].part
  BY <1>1 DEF LogIsKeyed, Current
<1> QED BY <1>1, <1>2 DEF Current

\* A step keeps the partition of every record, and what is in the topic stays.
LEMMA TopicGrows ==
  ASSUME IInv, LogIsKeyed, [Next]_vars
  PROVE  /\ LogIsKeyed'
         /\ \A p \in Partitions : \A i \in 1..Len(log[p]) :
               i \in 1..Len(log'[p]) /\ log'[p][i] = log[p][i]
<1>t. log \in [Partitions -> Seq(Events)]
  BY DEF IInv, TypeOK
<1>1. ASSUME NEW p \in Partitions, NEW i \in 1..Len(log[p])
      PROVE  i \in 1..Len(log'[p]) /\ log'[p][i] = log[p][i]
  <2>1. TypeOK'
    BY TypeStep
  <2>2. log'[p] \in Seq(Events)
    BY <2>1 DEF TypeOK
  <2>3. Len(log'[p]) \in Nat
    BY <2>2
  <2> QED BY <2>3, HandledIsStable
<1>2. LogIsKeyed'
  <2>1. CASE UNCHANGED log
    BY <2>1 DEF LogIsKeyed
  <2>2. ASSUME NEW e \in Events, AppendRecord(e)
        PROVE  LogIsKeyed'
    <3>1. PartitionOf[e] \in Partitions
      BY IngestAssumption
    <3>2. log' = [log EXCEPT ![PartitionOf[e]] = Append(@, e)]
      BY <2>2 DEF AppendRecord
    <3>3. ASSUME NEW p \in Partitions, NEW i \in 1..Len(log'[p])
          PROVE  PartitionOf[log'[p][i]] = p
      <4>1. log[p] \in Seq(Events)
        BY <1>t
      <4>2. CASE p = PartitionOf[e]
        <5>1. log'[p] = Append(log[p], e)
          BY <1>t, <3>2, <4>2
        <5>2. i \in 1..Len(log[p]) \/ log'[p][i] = e
          BY <4>1, <5>1
        <5>3. CASE i \in 1..Len(log[p])
          BY <1>1, <5>3 DEF LogIsKeyed
        <5> QED BY <4>2, <5>2, <5>3
      <4>3. CASE p # PartitionOf[e]
        <5>1. log'[p] = log[p]
          BY <1>t, <3>2, <4>3
        <5> QED BY <5>1 DEF LogIsKeyed
      <4> QED BY <4>2, <4>3
    <3> QED BY <3>3 DEF LogIsKeyed
  <2> QED BY <2>1, <2>2 DEF Next, Work, vars, Poll, Consume, FailAndRetry, Recover,
                            RecoverFails, Commit, Rebalance, Crash
<1> QED BY <1>1, <1>2

\* The only new dead letter is one of the record being delivered.
LEMMA DeadSteps ==
  ASSUME IInv, [Next]_vars, NEW r \in dead'
  PROVE  \/ r \in dead
         \/ \E t \in Threads : /\ Delivering(t)
                               /\ r = DeadLetter(batch[t].part, batch[t].next)
BY DEF Next, Work, vars, AppendRecord, Poll, Consume, FailAndRetry, Recover,
       RecoverFails, MustRecover, Commit, Rebalance, Crash

\* No payload that does not deserialize becomes a document, and documents and
\* dead letters are of records of the topic (IndexAndDeadLettersComeFromTopic):
\* also when a thread goes on with a batch of a partition it has lost.
THEOREM NothingIsInvented == Spec => []IndexAndDeadLettersComeFromTopic
<1>1. Init => LogIsKeyed /\ IndexAndDeadLettersComeFromTopic
  <2> SUFFICES ASSUME Init PROVE LogIsKeyed /\ IndexAndDeadLettersComeFromTopic
    OBVIOUS
  <2>1. \A p \in Partitions : log[p] = <<>>
    BY DEF Init
  <2>2. Len(<<>>) = 0 /\ 1..0 = {}
    OBVIOUS
  <2> QED BY <2>1, <2>2 DEF Init, LogIsKeyed, IndexAndDeadLettersComeFromTopic
<1>2. /\ IInv /\ LogIsKeyed /\ IndexAndDeadLettersComeFromTopic /\ [Next]_vars
      => LogIsKeyed' /\ IndexAndDeadLettersComeFromTopic'
  <2> SUFFICES ASSUME IInv, LogIsKeyed, IndexAndDeadLettersComeFromTopic, [Next]_vars
               PROVE  LogIsKeyed' /\ IndexAndDeadLettersComeFromTopic'
    OBVIOUS
  <2> DEFINE InTopic(e) == \E i \in 1..Len(log[PartitionOf[e]]) : log[PartitionOf[e]][i] = e
  <2>1. ASSUME NEW d \in index'
        PROVE  d.event \in Events /\ d.event \notin Poison /\ InTopic(d.event)
    <3>1. CASE d \in index
      BY <3>1 DEF IInv, TypeOK, IndexAndDeadLettersComeFromTopic
    <3>2. ASSUME NEW t \in Threads, Delivering(t), Current(t) \notin Poison,
                 index' = Upsert(index, Current(t)), d \notin index
          PROVE  d.event \in Events /\ d.event \notin Poison /\ InTopic(d.event)
      <4>1. Current(t) \in Events
        BY <3>2, CurrentIsEvent
      <4>2. d.event = Current(t)
        BY <3>2, <4>1, UpsertKeeps DEF IInv
      <4> QED BY <3>2, <4>1, <4>2, CurrentInTopic
    <3> QED BY <3>1, <3>2, IndexSteps
  <2>2. ASSUME NEW e \in Events, InTopic(e)
        PROVE  InTopic(e)'
    <3>1. PartitionOf[e] \in Partitions
      BY IngestAssumption
    <3> QED BY <2>2, <3>1, TopicGrows
  <2>3. ASSUME NEW r \in dead'
        PROVE  r.part \in Partitions /\ r.offset \in 1..Len(log[r.part])
    <3>1. CASE r \in dead
      BY <3>1 DEF IInv, TypeOK, IndexAndDeadLettersComeFromTopic
    <3>2. ASSUME NEW t \in Threads, Delivering(t),
                 r = DeadLetter(batch[t].part, batch[t].next)
          PROVE  r.part \in Partitions /\ r.offset \in 1..Len(log[r.part])
      <4>1. batch[t].next \in 1..Len(log[batch[t].part]) /\ batch[t].part \in Partitions
        BY <3>2, CurrentIsEvent DEF Batch
      <4> QED BY <3>2, <4>1 DEF DeadLetter
    <3> QED BY <3>1, <3>2, DeadSteps
  <2> QED BY <2>1, <2>2, <2>3, TopicGrows DEF IndexAndDeadLettersComeFromTopic
<1> QED BY <1>1, <1>2, Inductive, PTL DEF Spec

-----------------------------------------------------------------------------
(* Pipeline.                                                               *)

GP == INSTANCE Gateway_proofs

\* What consumers may read, the leader has.
LogIsCopied ==
  \A r \in Requests : /\ IsFiniteSet(Offsets(r))
                     /\ Cardinality(Offsets(r)) <= copies[r]

\* The two services, step by step.
LEMMA IngestSteps == [PipelineNext]_allVars => [Next]_vars
<1>0. Requests \subseteq Events
  BY PipelineAssumption
<1>1. CASE UNCHANGED allVars
  BY <1>1 DEF allVars
<1>2. CASE Connect \/ GatewayDies
  BY <1>2 DEF Connect, GatewayDies
<1>3. ASSUME NEW r \in Requests,
             Finally(r) \/ Sender(r) \/ LeaderAppends(r) \/ Replicate(r) \/ LeaderFails(r)
      PROVE  [Next]_vars
  BY <1>0, <1>3 DEF Finally, Sender, LeaderAppends, Replicate, LeaderFails, Next
<1>4. ASSUME NEW e \in Events \ Requests, Foreign(e)
      PROVE  [Next]_vars
  BY <1>4 DEF Foreign, Next
<1>5. CASE Ingest
  BY <1>5 DEF Ingest, Next
<1> QED BY <1>1, <1>2, <1>3, <1>4, <1>5 DEF PipelineNext

LEMMA GatewaySteps == [PipelineNext]_allVars => [G!Next]_(G!vars)
<1>0. UNCHANGED gatewayVars => UNCHANGED G!vars
  BY DEF gatewayVars, G!vars, G!producer, G!outcome, G!topic, G!life
<1>1. CASE UNCHANGED allVars
  BY <1>0, <1>1 DEF allVars
<1>2. CASE Connect \/ GatewayDies
  BY <1>2 DEF Connect, GatewayDies, G!Next
<1>3. ASSUME NEW r \in Requests,
             Finally(r) \/ Sender(r) \/ LeaderAppends(r) \/ LeaderFails(r)
      PROVE  [G!Next]_(G!vars)
  BY <1>3 DEF Finally, Sender, LeaderAppends, LeaderFails, G!Next
<1>4. ASSUME NEW r \in Requests, Replicate(r)
      PROVE  [G!Next]_(G!vars)
  BY <1>0, <1>4 DEF Replicate
<1>5. ASSUME NEW e \in Events \ Requests, Foreign(e)
      PROVE  [G!Next]_(G!vars)
  BY <1>0, <1>5 DEF Foreign
<1>6. CASE Ingest
  BY <1>0, <1>6 DEF Ingest
<1> QED BY <1>1, <1>2, <1>3, <1>4, <1>5, <1>6 DEF PipelineNext

\* The topic between them takes nothing from either service: the pipeline does
\* what the analytics-service does with a topic that anybody writes to ...
THEOREM PipelineImplementsIngest == PipelineSpec => Spec
<1>1. PipelineInit => Init
  BY DEF PipelineInit
<1> QED BY <1>1, IngestSteps, PTL DEF PipelineSpec, Spec

\* ... and what the gateway does with a broker that may answer as it likes.
THEOREM PipelineImplementsGateway == PipelineSpec => G!Spec
<1>1. PipelineInit => G!Init
  BY DEF PipelineInit
<1> QED BY <1>1, GatewaySteps, PTL DEF PipelineSpec, G!Spec

-----------------------------------------------------------------------------
\* What a step does to the records of a request that consumers may read.
LEMMA OffsetsAppend ==
  ASSUME TypeOK, NEW e \in Events, AppendRecord(e), NEW r \in Requests
  PROVE  Offsets(r)' = IF r = e THEN Offsets(r) \cup {Len(log[PartitionOf[r]]) + 1}
                                ELSE Offsets(r)
<1> DEFINE p == PartitionOf[r]
<1>1. p \in Partitions /\ r \in Events
  BY PipelineAssumption, IngestAssumption
<1>2. log[p] \in Seq(Events) /\ Len(log[p]) \in Nat
  BY <1>1 DEF TypeOK
<1>3. CASE PartitionOf[e] = p
  <2>1. log'[p] = Append(log[p], e)
    BY <1>1, <1>3 DEF AppendRecord, TypeOK
  <2>2. /\ Len(log'[p]) = Len(log[p]) + 1
        /\ log'[p][Len(log[p]) + 1] = e
        /\ \A i \in 1..Len(log[p]) : log'[p][i] = log[p][i]
    BY <1>2, <2>1
  <2>3. 1..Len(log'[p]) = 1..Len(log[p]) \cup {Len(log[p]) + 1}
    BY <1>2, <2>2
  <2>4. /\ Offsets(r) = {i \in 1..Len(log[p]) : log[p][i] = r}
        /\ Offsets(r)' = {i \in 1..Len(log'[p]) : log'[p][i] = r}
    BY DEF Offsets
  <2> QED BY <2>2, <2>3, <2>4
<1>4. CASE PartitionOf[e] # p
  <2>1. log'[p] = log[p]
    BY <1>1, <1>4 DEF AppendRecord, TypeOK
  <2> QED BY <1>4, <2>1 DEF Offsets
<1> QED BY <1>3, <1>4

LEMMA OffsetsKept ==
  ASSUME UNCHANGED log, NEW r \in Requests
  PROVE  Offsets(r)' = Offsets(r)
BY DEF Offsets

\* Who changes what LogIsCopied relates: the leader appends, a follower
\* fetches, another program writes, a leader fails, or the gateway dies with
\* records on their way.
LEMMA CopyCases ==
  ASSUME [PipelineNext]_allVars
  PROVE  \/ UNCHANGED <<log, copies>>
         \/ GatewayDies
         \/ \E r \in Requests : LeaderAppends(r) \/ Replicate(r) \/ LeaderFails(r)
         \/ \E e \in Events \ Requests : Foreign(e)
<1>1. CASE UNCHANGED allVars
  BY <1>1 DEF allVars, vars, gatewayVars
<1>2. CASE Connect
  BY <1>2 DEF Connect, G!Connect, G!topic, vars
<1>3. ASSUME NEW r \in Requests, Finally(r) \/ Sender(r)
      PROVE  UNCHANGED <<log, copies>>
  BY <1>3 DEF Finally, Sender, vars, G!topic, G!Finally, G!End, G!Unblock, G!BlockTimesOut,
              G!Sender, G!Send, G!Expire, G!Acknowledge, G!AttemptFails
<1>4. CASE Ingest
  BY <1>4 DEF Ingest, gatewayVars, Work, Poll, Consume, FailAndRetry, Recover, RecoverFails,
              Commit, Rebalance, Crash
<1> QED BY <1>1, <1>2, <1>3, <1>4 DEF PipelineNext

\* A leader that fails takes only what its followers have not.
LEMMA CopiedStep ==
  ASSUME TypeOK, G!TypeOK, LogIsCopied, [PipelineNext]_allVars
  PROVE  LogIsCopied'
<1>t. copies \in [Requests -> Nat]
  BY DEF G!TypeOK
<1>c. \A r \in Requests : Cardinality(Offsets(r)) \in Nat /\ copies[r] \in Nat
  BY <1>t, FS_CardinalityType DEF LogIsCopied
<1> SUFFICES ASSUME NEW q \in Requests
             PROVE  IsFiniteSet(Offsets(q)') /\ Cardinality(Offsets(q)') <= copies'[q]
  BY DEF LogIsCopied
<1>q. IsFiniteSet(Offsets(q)) /\ Cardinality(Offsets(q)) <= copies[q]
  BY DEF LogIsCopied
<1>1. CASE UNCHANGED <<log, copies>>
  BY <1>1, <1>q, OffsetsKept
<1>2. ASSUME NEW r \in Requests, LeaderAppends(r)
      PROVE  IsFiniteSet(Offsets(q)') /\ Cardinality(Offsets(q)') <= copies'[q]
  <2>1. UNCHANGED log
    BY <1>2 DEF LeaderAppends, vars
  <2>2. copies' = [copies EXCEPT ![r] = @ + 1]
    BY <1>2 DEF LeaderAppends, G!AppendRecord
  <2>3. copies'[q] >= copies[q]
    BY <1>t, <1>c, <2>2
  <2>4. copies'[q] \in Nat
    BY <1>t, <1>c, <2>2
  <2> QED BY <1>c, <1>q, <2>1, <2>3, <2>4, OffsetsKept
<1>3. ASSUME NEW r \in Requests, Replicate(r)
      PROVE  IsFiniteSet(Offsets(q)') /\ Cardinality(Offsets(q)') <= copies'[q]
  <2>1. /\ AppendRecord(r) /\ Cardinality(Offsets(r)) < copies[r]
        /\ UNCHANGED copies
    BY <1>3 DEF Replicate, Unreplicated, gatewayVars
  <2>2. r \in Events
    BY PipelineAssumption
  <2>3. CASE q = r
    <3>1. Offsets(q)' = Offsets(q) \cup {Len(log[PartitionOf[q]]) + 1}
      BY <2>1, <2>2, <2>3, OffsetsAppend
    <3>2. /\ IsFiniteSet(Offsets(q)')
          /\ Cardinality(Offsets(q)') <= Cardinality(Offsets(q)) + 1
      <4>1. IsFiniteSet(Offsets(q) \cup {Len(log[PartitionOf[q]]) + 1})
        BY <1>q, FS_AddElement
      <4>2. \/ Cardinality(Offsets(q)') = Cardinality(Offsets(q)) + 1
            \/ Cardinality(Offsets(q)') = Cardinality(Offsets(q))
        BY <1>q, <3>1, FS_AddElement
      <4> QED BY <1>c, <3>1, <4>1, <4>2
    <3>3. Cardinality(Offsets(q)') \in Nat
      BY <3>2, FS_CardinalityType
    <3> QED BY <1>c, <2>1, <2>3, <3>2, <3>3
  <2>4. CASE q # r
    BY <1>q, <2>1, <2>2, <2>4, OffsetsAppend
  <2> QED BY <2>3, <2>4
<1>4. ASSUME NEW r \in Requests, LeaderFails(r)
      PROVE  IsFiniteSet(Offsets(q)') /\ Cardinality(Offsets(q)') <= copies'[q]
  <2>1. /\ UNCHANGED log
        /\ copies' = [copies EXCEPT ![r] = @ - 1]
        /\ Cardinality(Offsets(r)) < copies[r]
    BY <1>4 DEF LeaderFails, Unreplicated, vars, G!LeaderFails
  <2>2. CASE q = r
    <3>1. copies'[q] = copies[q] - 1
      BY <1>t, <2>1, <2>2
    <3> QED BY <1>c, <1>q, <2>1, <2>2, <3>1, OffsetsKept
  <2>3. CASE q # r
    <3>1. copies'[q] = copies[q]
      BY <1>t, <2>1, <2>3
    <3> QED BY <1>q, <2>1, <3>1, OffsetsKept
  <2> QED BY <2>2, <2>3
<1>5. ASSUME NEW e \in Events \ Requests, Foreign(e)
      PROVE  IsFiniteSet(Offsets(q)') /\ Cardinality(Offsets(q)') <= copies'[q]
  <2>1. AppendRecord(e) /\ UNCHANGED copies
    BY <1>5 DEF Foreign, gatewayVars
  <2>2. Offsets(q)' = Offsets(q)
    BY <2>1, OffsetsAppend
  <2> QED BY <1>q, <2>1, <2>2
<1>6. CASE GatewayDies
  <2>1. UNCHANGED log
    BY <1>6 DEF GatewayDies, vars
  <2>2. PICK arriving \in SUBSET (inFlight \ appended) :
           copies' = [r \in Requests |-> IF r \in arriving THEN copies[r] + 1 ELSE copies[r]]
    BY <1>6 DEF GatewayDies, G!GatewayDies
  <2>3. copies'[q] \in {copies[q], copies[q] + 1}
    BY <2>2
  <2> QED BY <1>c, <1>q, <2>1, <2>3, OffsetsKept
<1> QED BY <1>1, <1>2, <1>3, <1>4, <1>5, <1>6, CopyCases

-----------------------------------------------------------------------------
\* What is proved of the gateway alone holds of the pipeline.
LEMMA GatewayConstants == GP!GatewayAssumption
BY PipelineAssumption DEF GP!GatewayAssumption, G!GatewayAssumption

LEMMA SameCardinality == \A S : G!Cardinality(S) = GP!Cardinality(S)
BY DEF G!Cardinality, GP!Cardinality

LEMMA GatewaySafety ==
  PipelineSpec => [](G!TypeOK /\ G!EventsAreAccountedFor /\ G!TopicAgreesWithAcks)
<1>1. G!Init => GP!Init
  BY DEF G!Init, GP!Init
<1>2. [G!Next]_(G!vars) => [GP!Next]_(GP!vars)
  <2>1. UNCHANGED G!vars => UNCHANGED GP!vars
    BY DEF G!vars, G!producer, G!outcome, G!topic, G!life,
           GP!vars, GP!producer, GP!outcome, GP!topic, GP!life
  <2>2. G!Connect \/ G!GatewayDies => GP!Connect \/ GP!GatewayDies
    BY DEF G!Connect, G!GatewayDies, G!InMemory, G!producer, G!outcome, G!topic, G!life,
           GP!Connect, GP!GatewayDies, GP!InMemory, GP!producer, GP!outcome, GP!topic, GP!life
  <2>3. ASSUME NEW r \in Requests, G!Finally(r)
        PROVE  GP!Finally(r)
    BY <2>3, SameCardinality DEF G!Finally, G!End, G!Unblock, G!BlockTimesOut, G!Blocked,
           G!MustWait, G!producer, G!outcome, G!topic, G!life,
           GP!Finally, GP!End, GP!Unblock, GP!BlockTimesOut, GP!Blocked, GP!MustWait,
           GP!producer, GP!outcome, GP!topic, GP!life
  <2>4. ASSUME NEW r \in Requests, G!Sender(r)
        PROVE  GP!Sender(r)
    BY <2>4, SameCardinality DEF G!Sender, G!Send, G!Expire, G!Acknowledge, G!AttemptFails,
           G!MayRetry, G!GiveUp, G!outcome, G!topic, G!life,
           GP!Sender, GP!Send, GP!Expire, GP!Acknowledge, GP!AttemptFails, GP!MayRetry,
           GP!GiveUp, GP!outcome, GP!topic, GP!life
  <2>5. ASSUME NEW r \in Requests, G!AppendRecord(r) \/ G!LeaderFails(r)
        PROVE  GP!AppendRecord(r) \/ GP!LeaderFails(r)
    BY <2>5 DEF G!AppendRecord, G!LeaderFails, G!producer, G!outcome, G!life,
           GP!AppendRecord, GP!LeaderFails, GP!producer, GP!outcome, GP!life
  <2> QED BY <2>1, <2>2, <2>3, <2>4, <2>5 DEF G!Next, GP!Next
<1>3. G!Spec => GP!Spec
  BY <1>1, <1>2, PTL DEF G!Spec, GP!Spec
<1>4. GP!Spec => []GP!TypeOK /\ []GP!EventsAreAccountedFor /\ []GP!TopicAgreesWithAcks
  BY GP!TypeCorrect, GP!NoSilentLoss, GP!AcknowledgedAreThere, GatewayConstants
<1>5. GP!TypeOK /\ GP!EventsAreAccountedFor /\ GP!TopicAgreesWithAcks
      => G!TypeOK /\ G!EventsAreAccountedFor /\ G!TopicAgreesWithAcks
  BY DEF GP!TypeOK, GP!EventsAreAccountedFor, GP!TopicAgreesWithAcks,
         G!TypeOK, G!EventsAreAccountedFor, G!TopicAgreesWithAcks
<1> QED BY <1>3, <1>4, <1>5, PipelineImplementsGateway, PTL

\* The leader has every record that consumers are given.
THEOREM TopicIsCopied == PipelineSpec => []LogIsCopied
<1>1. PipelineInit => LogIsCopied
  <2> SUFFICES ASSUME PipelineInit, NEW r \in Requests
               PROVE  IsFiniteSet(Offsets(r)) /\ Cardinality(Offsets(r)) <= copies[r]
    BY DEF LogIsCopied
  <2>1. log[PartitionOf[r]] = <<>>
    BY PipelineAssumption, IngestAssumption DEF PipelineInit, Init
  <2>2. Len(<<>>) = 0 /\ 1..0 = {}
    OBVIOUS
  <2>3. Offsets(r) = {}
    BY <2>1, <2>2 DEF Offsets
  <2>4. copies[r] = 0
    BY DEF PipelineInit, G!Init
  <2> QED BY <2>3, <2>4, FS_EmptySet
<1> QED BY <1>1, CopiedStep, GatewaySafety, PipelineImplementsIngest, TypeCorrect, PTL
        DEF PipelineSpec

\* No event is lost on its way from the request to the index, except with the
\* leader of its partition (NoEventIsLost).
THEOREM NothingIsLostOnTheWay == PipelineSpec => []NoEventIsLost
<1>1. /\ TypeOK /\ CommittedAreHandled /\ LogIsCopied
      /\ G!TypeOK /\ G!EventsAreAccountedFor /\ G!TopicAgreesWithAcks
      => NoEventIsLost
  <2> SUFFICES ASSUME TypeOK, CommittedAreHandled, LogIsCopied,
                      G!TypeOK, G!EventsAreAccountedFor, G!TopicAgreesWithAcks,
                      NEW r \in Requests, request[r] = "done",
                      r \notin waiting \cup inFlight, r \notin logged \cup died, ~Unreplicated(r),
                      ~(lost > 0)
               PROVE  \/ \E i \in Offsets(r) : i > committed[PartitionOf[r]]
                      \/ EventHandled(r)
    BY DEF NoEventIsLost
  <2>1. r \in acked /\ lost = 0
    <3> DEFINE places == <<waiting, inFlight, acked, logged, died>>
    <3>a. DOMAIN places = {1, 2, 3, 4, 5}
      OBVIOUS
    <3>b. UNION {places[i] : i \in DOMAIN places}
          = waiting \cup inFlight \cup acked \cup logged \cup died
      BY <3>a
    <3>1. r \in waiting \cup inFlight \cup acked \cup logged \cup died
      BY <3>b DEF G!EventsAreAccountedFor
    <3> QED BY <3>1 DEF G!TypeOK
  <2>2. copies[r] > 0 /\ copies[r] \in Nat
    BY <2>1 DEF G!TopicAgreesWithAcks, G!TypeOK
  <2>3. Offsets(r) # {}
    BY <2>2, FS_EmptySet DEF Unreplicated
  <2>4. PICK i \in Offsets(r) : TRUE
    BY <2>3
  <2> DEFINE p == PartitionOf[r]
  <2>5. p \in Partitions /\ committed[p] \in Nat
    BY PipelineAssumption, IngestAssumption DEF TypeOK
  <2>6. i \in 1..Len(log[p]) /\ log[p][i] = r /\ i \in Nat
    BY <2>4 DEF Offsets
  <2>7. CASE i \in 1..committed[p]
    BY <2>4, <2>5, <2>6, <2>7 DEF CommittedAreHandled, Handled, EventHandled
  <2>8. CASE i \notin 1..committed[p]
    BY <2>4, <2>5, <2>6, <2>8
  <2> QED BY <2>7, <2>8
<1> QED BY <1>1, PipelineImplementsIngest, TypeCorrect, NothingCommittedIsLost,
           TopicIsCopied, GatewaySafety, PTL

\* The index holds one document of a request, and none before it has ended.
THEOREM CountedOnce == PipelineSpec => []RequestsAreCountedOnce
<1>1. /\ TypeOK /\ OneDocumentPerEvent /\ IndexAndDeadLettersComeFromTopic /\ LogIsCopied
      /\ G!TypeOK /\ G!TopicAgreesWithAcks
      => RequestsAreCountedOnce
  <2> SUFFICES ASSUME TypeOK, OneDocumentPerEvent, IndexAndDeadLettersComeFromTopic,
                      LogIsCopied, G!TypeOK, G!TopicAgreesWithAcks,
                      NEW r \in Requests, NEW d1 \in index, NEW d2 \in index,
                      d1.event = r, d2.event = r
               PROVE  d1 = d2 /\ request[r] = "done"
    BY DEF RequestsAreCountedOnce
  <2>1. d1 = d2
    BY DEF OneDocumentPerEvent
  <2>2. Offsets(r) # {}
    BY DEF IndexAndDeadLettersComeFromTopic, Offsets
  <2>3. copies[r] > 0
    <3>1. /\ IsFiniteSet(Offsets(r)) /\ Cardinality(Offsets(r)) <= copies[r]
          /\ copies[r] \in Nat
      BY DEF LogIsCopied, G!TypeOK
    <3>2. Cardinality(Offsets(r)) \in Nat /\ Cardinality(Offsets(r)) # 0
      BY <2>2, <3>1, FS_EmptySet, FS_CardinalityType
    <3> QED BY <3>1, <3>2
  <2> QED BY <2>1, <2>3 DEF G!TopicAgreesWithAcks
<1> QED BY <1>1, PipelineImplementsIngest, TypeCorrect, EffectivelyOnce, NothingIsInvented,
           TopicIsCopied, GatewaySafety, PTL
=============================================================================
