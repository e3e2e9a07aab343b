------------------------ MODULE AlertService_proofs ------------------------
(***************************************************************************)
(* The cooldown of the alert-service, for any partitions, threads, keys    *)
(* and cooldown, through any restarts and rebalances.                      *)
(*                                                                         *)
(* An alert is checked, sent and only then entered into lastAlertTime.     *)
(* What ties the three together: an alert without a time is being raised   *)
(* by the thread it names (RaisingOK, UnstampedIsRaised), and the map and  *)
(* the alerts with a time agree both ways (MapCovers, MapHasAlert).  That  *)
(* no two threads raise the same key is a matter of partitions: while no   *)
(* rebalance has happened a batch is in the hands of the partition's owner *)
(* (OwnersHoldBatches), and a key has one partition (LogKeyed).            *)
(***************************************************************************)
EXTENDS AlertService, TLAPS

LogKeyed ==
  \A p \in Partitions : \A i \in 1..Len(log[p]) :
     log[p][i] \in Aggregations => PartitionOf[log[p][i].key] = p

BatchesInLog ==
  \A t \in Threads : Busy(t) => batch[t].last <= Len(log[batch[t].part])

InEvaluate ==
  \A t \in Threads : pc[t] # "deliver" => Delivering(t) /\ Current(t) \in Aggregations

OwnersHoldBatches ==
  rebalances = 0 => \A t \in Threads : Busy(t) => owner[batch[t].part] = t

Consuming == /\ TypeOK
             /\ LogKeyed
             /\ BatchesInLog
             /\ InEvaluate
             /\ OwnersHoldBatches

Sending == {"slack", "email", "stamp"}

RaisingOK ==
  \A t \in Threads :
     /\ pc[t] \in Sending <=> raising[t] # NoAlert
     /\ raising[t] # NoAlert => /\ raising[t] \in alerts
                                /\ raising[t].thread = t
                                /\ raising[t].epoch = epoch
                                /\ raising[t].stamped = NoTime
                                /\ PartitionOf[raising[t].key] = batch[t].part
     /\ pc[t] = "email" => "slack" \in raising[t].tried
     /\ pc[t] = "stamp" => raising[t].tried = Channels

UnstampedIsRaised ==
  \A a \in alerts : a.stamped = NoTime /\ a.epoch = epoch => \E t \in Threads : raising[t] = a

AlertTimes ==
  \A a \in alerts : /\ a.at <= now
                    /\ a.epoch <= epoch
                    /\ a.stamped # NoTime => a.at <= a.stamped /\ a.stamped <= now

MapTimes ==
  \A k \in Keys, y \in AlertTypes : lastAlertTime[k][y] # NoTime => lastAlertTime[k][y] <= now

\* The map is not behind any alert of this process.
MapCovers ==
  \A a \in alerts : a.stamped # NoTime /\ a.epoch = epoch =>
     /\ lastAlertTime[a.key][a.type] # NoTime
     /\ a.stamped <= lastAlertTime[a.key][a.type]

\* An entry of the map is the time of an alert that went to both channels.
MapHasAlert ==
  \A k \in Keys, y \in AlertTypes : lastAlertTime[k][y] # NoTime =>
     \E a \in alerts : /\ a.key = k /\ a.type = y /\ a.epoch = epoch
                       /\ a.tried = Channels
                       /\ a.stamped = lastAlertTime[k][y]

Alerting == /\ RaisingOK
            /\ UnstampedIsRaised
            /\ AlertTimes
            /\ MapTimes
            /\ MapCovers
            /\ MapHasAlert
            /\ CooldownHolds
            /\ ApartWithoutRebalance
            /\ SuppressedOnlyAfterAlert

IInv == Consuming /\ Alerting

-----------------------------------------------------------------------------
(* The consumer.                                                           *)

\* What the constants give the proofs below.
LEMMA ConstantTypes ==
  /\ Cooldown \in Nat /\ MaxPoll \in Nat
  /\ NoBatch \notin Batch /\ NoTime \notin Nat /\ NoAlert \notin AlertType
  /\ PartitionOf \in [Keys -> Partitions]
  /\ \A a \in Aggregations : a.key \in Keys /\ a.breaches \subseteq AlertTypes
BY AlertAssumption DEF AggregationType

\* The batch of a busy thread, and the record it delivers.
LEMMA CurrentType ==
  ASSUME Consuming, NEW t \in Threads, Busy(t)
  PROVE  /\ batch[t] \in Batch
         /\ Delivering(t) => /\ batch[t].next \in 1..Len(log[batch[t].part])
                             /\ Current(t) \in Aggregations => PartitionOf[Current(t).key] = batch[t].part
<1>1. batch[t] \in Batch
  BY DEF Busy, Consuming, TypeOK
<1>2. /\ batch[t].part \in Partitions /\ batch[t].next \in Nat \ {0} /\ batch[t].last \in Nat
      /\ batch[t].last <= Len(log[batch[t].part])
  BY <1>1 DEF Batch, Consuming, BatchesInLog
<1>3. Len(log[batch[t].part]) \in Nat
  BY <1>2 DEF Consuming, TypeOK
<1>4. ASSUME Delivering(t)
      PROVE  batch[t].next \in 1..Len(log[batch[t].part])
  BY <1>2, <1>3, <1>4 DEF Delivering
<1> QED BY <1>1, <1>2, <1>4 DEF Current, Consuming, LogKeyed

\* A thread in its batch goes on to the next record.
LEMMA NextRecordMoves ==
  ASSUME Consuming, NEW t \in Threads, Delivering(t), NextRecord(t)
  PROVE  /\ batch' \in [Threads -> Batch \cup {NoBatch}]
         /\ batch'[t] \in Batch
         /\ batch'[t].part = batch[t].part /\ batch'[t].last = batch[t].last
         /\ pc' \in [Threads -> {"deliver", "check", "slack", "email", "stamp"}]
         /\ pc'[t] = "deliver"
         /\ \A u \in Threads \ {t} : batch'[u] = batch[u] /\ pc'[u] = pc[u]
<1>1. batch[t] \in Batch /\ batch \in [Threads -> Batch \cup {NoBatch}]
  BY CurrentType DEF Delivering, Consuming, TypeOK
<1>2. [batch[t] EXCEPT !.next = @ + 1] \in Batch
  BY <1>1 DEF Batch
<1>3. batch' = [batch EXCEPT ![t] = [batch[t] EXCEPT !.next = @ + 1]]
  BY DEF NextRecord
<1>4. /\ [batch[t] EXCEPT !.next = @ + 1].part = batch[t].part
      /\ [batch[t] EXCEPT !.next = @ + 1].last = batch[t].last
  BY <1>1 DEF Batch
<1> QED BY <1>1, <1>2, <1>3, <1>4 DEF NextRecord, Consuming, TypeOK

\* A thread in evaluate() goes on to the next rule, or to the next record.
LEMMA NextRuleMoves ==
  ASSUME Consuming, NEW t \in Threads, Delivering(t), NextRule(t)
  PROVE  /\ batch' \in [Threads -> Batch \cup {NoBatch}]
         /\ batch'[t] \in Batch
         /\ batch'[t].part = batch[t].part /\ batch'[t].last = batch[t].last
         /\ pc' \in [Threads -> {"deliver", "check", "slack", "email", "stamp"}]
         /\ rule' \in [Threads -> AlertTypes]
         /\ pc'[t] = "deliver" \/ (pc'[t] = "check" /\ batch' = batch)
         /\ \A u \in Threads \ {t} : batch'[u] = batch[u] /\ pc'[u] = pc[u]
<1>1. CASE rule[t] = "LATENCY_HIGH"
  BY <1>1, CurrentType DEF NextRule, Consuming, TypeOK, AlertTypes, Delivering
<1>2. CASE rule[t] # "LATENCY_HIGH"
  BY <1>2, NextRecordMoves DEF NextRule, Consuming, TypeOK
<1> QED BY <1>1, <1>2

\* What of the log, the batches and the assignment a step may change, for the
\* conjuncts that speak of them.
LEMMA ConsumerFrame ==
  ASSUME Consuming, NEW t \in Threads,
         UNCHANGED <<log, owner, rebalances>>,
         Delivering(t), pc[t] # "deliver" => Current(t) \in Aggregations,
         batch'[t] \in Batch,
         batch'[t].part = batch[t].part, batch'[t].last = batch[t].last,
         pc'[t] = "deliver" \/ (batch' = batch /\ Current(t) \in Aggregations),
         \A u \in Threads \ {t} : batch'[u] = batch[u] /\ pc'[u] = pc[u]
  PROVE  LogKeyed' /\ BatchesInLog' /\ InEvaluate' /\ OwnersHoldBatches'
<1>1. Busy(t) /\ batch'[t] # NoBatch
  BY ConstantTypes DEF Delivering
<1>2. LogKeyed'
  BY DEF Consuming, LogKeyed
<1>3. BatchesInLog'
  BY <1>1 DEF Consuming, BatchesInLog, Busy
<1>4. InEvaluate'
  <2> SUFFICES ASSUME NEW u \in Threads, pc'[u] # "deliver"
               PROVE  Delivering(u)' /\ Current(u)' \in Aggregations
    BY DEF InEvaluate
  <2>1. batch'[u] = batch[u] /\ Delivering(u) /\ Current(u) \in Aggregations
    BY DEF Consuming, InEvaluate
  <2> QED BY <2>1 DEF Delivering, Busy, Current
<1>5. OwnersHoldBatches'
  BY <1>1 DEF Consuming, OwnersHoldBatches, Busy
<1> QED BY <1>2, <1>3, <1>4, <1>5

-----------------------------------------------------------------------------
\* The types of what a step does to the alerts.
LEMMA AlertTypesOK ==
  ASSUME IInv, NEW t \in Threads
  PROVE  /\ CheckFires(t) => raising' \in [Threads -> AlertType \cup {NoAlert}] /\ alerts' \subseteq AlertType
         /\ \A channel \in Channels, next \in {"slack", "email", "stamp"} :
               TryChannel(t, channel, next) =>
                  raising' \in [Threads -> AlertType \cup {NoAlert}] /\ alerts' \subseteq AlertType
         /\ StartCooldown(t) => /\ raising' \in [Threads -> AlertType \cup {NoAlert}]
                                /\ alerts' \subseteq AlertType
                                /\ lastAlertTime' \in [Keys -> [AlertTypes -> Nat \cup {NoTime}]]
         /\ CheckSuppressed(t) =>
               suppressed' \subseteq SuppressedType
<1>0. /\ raising \in [Threads -> AlertType \cup {NoAlert}] /\ alerts \subseteq AlertType
      /\ now \in Nat /\ epoch \in Nat /\ rule[t] \in AlertTypes
      /\ lastAlertTime \in [Keys -> [AlertTypes -> Nat \cup {NoTime}]]
      /\ suppressed \subseteq SuppressedType
  BY DEF IInv, Consuming, TypeOK
<1>1. pc[t] = "check" => Current(t).key \in Keys /\ CurrentRecord(t) \in Partitions \X Nat
  BY ConstantTypes, CurrentType DEF IInv, Consuming, InEvaluate, Delivering, CurrentRecord, Batch
<1>2. pc[t] \in Sending => raising[t] \in AlertType
  BY <1>0 DEF IInv, Alerting, RaisingOK
<1>3. ASSUME CheckFires(t)
      PROVE  raising' \in [Threads -> AlertType \cup {NoAlert}] /\ alerts' \subseteq AlertType
  <2> DEFINE a == [key |-> Current(t).key, type |-> rule[t], record |-> CurrentRecord(t),
                   at |-> now, epoch |-> epoch, thread |-> t, tried |-> {}, stamped |-> NoTime]
  <2>1. a \in AlertType
    BY <1>0, <1>1, <1>3 DEF CheckFires, Checking, AlertType
  <2>2. raising' = [raising EXCEPT ![t] = a] /\ alerts' = alerts \cup {a}
    BY <1>3 DEF CheckFires
  <2> QED BY <1>0, <2>1, <2>2
<1>4. ASSUME NEW channel \in Channels, NEW next \in {"slack", "email", "stamp"},
             TryChannel(t, channel, next)
      PROVE  raising' \in [Threads -> AlertType \cup {NoAlert}] /\ alerts' \subseteq AlertType
  <2> DEFINE a == [raising[t] EXCEPT !.tried = @ \cup {channel}]
  <2>1. a \in AlertType
    BY <1>2, <1>4 DEF TryChannel, AlertType, Channels, Sending
  <2>2. raising' = [raising EXCEPT ![t] = a] /\ alerts' = (alerts \ {raising[t]}) \cup {a}
    BY <1>4 DEF TryChannel, Progress
  <2> QED BY <1>0, <2>1, <2>2
<1>5. ASSUME StartCooldown(t)
      PROVE  /\ raising' \in [Threads -> AlertType \cup {NoAlert}]
             /\ alerts' \subseteq AlertType
             /\ lastAlertTime' \in [Keys -> [AlertTypes -> Nat \cup {NoTime}]]
  <2> DEFINE a == [raising[t] EXCEPT !.stamped = now]
  <2>1. raising[t] \in AlertType
    BY <1>2, <1>5 DEF StartCooldown, Sending
  <2>2. a \in AlertType
    BY <1>0, <2>1 DEF AlertType
  <2>3. raising' = [raising EXCEPT ![t] = NoAlert] /\ alerts' = (alerts \ {raising[t]}) \cup {a}
    BY <1>5 DEF StartCooldown
  <2>4. lastAlertTime' \in [Keys -> [AlertTypes -> Nat \cup {NoTime}]]
    BY <1>0, <1>5, <2>1 DEF StartCooldown, Stamped, AlertType
  <2> QED BY <1>0, <2>2, <2>3, <2>4
<1>6. ASSUME CheckSuppressed(t)
      PROVE  suppressed' \subseteq SuppressedType
  BY <1>0, <1>1, <1>6 DEF CheckSuppressed, Checking, SuppressedType
<1> QED BY <1>3, <1>4, <1>5, <1>6

\* A step inside evaluate(), which leaves the consumer's variables alone.
LEMMA EvaluateSteps ==
  ASSUME IInv, NEW t \in Threads,
         SkipRecord(t) \/ Evaluate(t) \/ CheckOk(t) \/ CheckSuppressed(t) \/ CheckFires(t)
           \/ SendSlack(t) \/ SendEmail(t) \/ StartCooldown(t)
  PROVE  Consuming'
<1>c. Consuming
  BY DEF IInv
<1>d. Delivering(t) /\ batch[t] \in Batch
  <2>1. Delivering(t)
    BY <1>c DEF SkipRecord, Evaluate, CheckOk, CheckSuppressed, CheckFires, Checking, SendSlack,
                SendEmail, TryChannel, StartCooldown, Consuming, InEvaluate
  <2> QED BY <1>c, <2>1, CurrentType DEF Delivering
<1>e. pc[t] # "deliver" => Current(t) \in Aggregations
  BY <1>c DEF Consuming, InEvaluate
<1>1. CASE SkipRecord(t)
  <2>1. TypeOK'
    BY <1>c, <1>d, <1>1, NextRecordMoves DEF SkipRecord, consumerVars, Consuming, TypeOK
  <2> QED BY <1>c, <1>d, <1>e, <1>1, <2>1, NextRecordMoves, ConsumerFrame
          DEF SkipRecord, consumerVars, Consuming
<1>2. CASE Evaluate(t)
  <2>1. TypeOK'
    BY <1>c, <1>2 DEF Evaluate, consumerVars, Consuming, TypeOK, AlertTypes
  <2>2. \A u \in Threads \ {t} : pc'[u] = pc[u]
    BY <1>c, <1>2 DEF Evaluate, Consuming, TypeOK
  <2> QED BY <1>c, <1>d, <1>e, <1>2, <2>1, <2>2, ConsumerFrame
          DEF Evaluate, IsSkipped, consumerVars, Consuming
<1>3. CASE CheckOk(t) \/ CheckSuppressed(t) \/ StartCooldown(t)
  <2>0. NextRule(t) /\ pc[t] # "deliver" /\ UNCHANGED <<now, consumerVars>>
    BY <1>3 DEF CheckOk, CheckSuppressed, StartCooldown, Checking
  <2>1. TypeOK'
    <3>1. CASE CheckOk(t)
      BY <1>c, <1>d, <2>0, <3>1, NextRuleMoves DEF CheckOk, consumerVars, Consuming, TypeOK
    <3>2. CASE CheckSuppressed(t)
      BY <1>c, <1>d, <2>0, <3>2, NextRuleMoves, AlertTypesOK
         DEF CheckSuppressed, consumerVars, Consuming, TypeOK
    <3>3. CASE StartCooldown(t)
      BY <1>c, <1>d, <2>0, <3>3, NextRuleMoves, AlertTypesOK
         DEF StartCooldown, consumerVars, Consuming, TypeOK
    <3> QED BY <1>3, <3>1, <3>2, <3>3
  <2> QED BY <1>c, <1>d, <1>e, <2>0, <2>1, NextRuleMoves, ConsumerFrame
          DEF consumerVars, Consuming
<1>4. CASE CheckFires(t)
  <2>1. TypeOK'
    BY <1>c, <1>4, AlertTypesOK DEF CheckFires, consumerVars, Consuming, TypeOK
  <2>2. \A u \in Threads \ {t} : pc'[u] = pc[u]
    BY <1>c, <1>4 DEF CheckFires, Consuming, TypeOK
  <2> QED BY <1>c, <1>d, <1>e, <1>4, <2>1, <2>2, ConsumerFrame
          DEF CheckFires, Checking, consumerVars, Consuming
<1>5. ASSUME NEW channel \in Channels, NEW next \in {"slack", "email", "stamp"},
             TryChannel(t, channel, next)
      PROVE  Consuming'
  <2>1. TypeOK'
    BY <1>c, <1>5, AlertTypesOK DEF TryChannel, consumerVars, Consuming, TypeOK
  <2>2. \A u \in Threads \ {t} : pc'[u] = pc[u]
    BY <1>c, <1>5 DEF TryChannel, Consuming, TypeOK
  <2> QED BY <1>c, <1>d, <1>e, <1>5, <2>1, <2>2, ConsumerFrame
          DEF TryChannel, Channels, consumerVars, Consuming
<1> QED BY <1>1, <1>2, <1>3, <1>4, <1>5 DEF SendSlack, SendEmail, AfterSlack, Channels

\* The other steps of the consumer.
LEMMA ConsumingSteps ==
  ASSUME IInv, [Next]_vars
  PROVE  Consuming'
<1>c. Consuming
  BY DEF IInv
<1>1. CASE UNCHANGED vars
  BY <1>c, <1>1 DEF vars, Consuming, TypeOK, LogKeyed, BatchesInLog, InEvaluate, OwnersHoldBatches,
                    Busy, Delivering, Current
<1>2. CASE Tick
  <2>1. now' \in Nat
    BY <1>c, <1>2 DEF Tick, Consuming, TypeOK
  <2>2. TypeOK'
    BY <1>c, <1>2, <2>1 DEF Tick, consumerVars, Consuming, TypeOK
  <2> QED BY <1>c, <1>2, <2>2
          DEF Tick, consumerVars, Consuming, LogKeyed, BatchesInLog, InEvaluate, OwnersHoldBatches,
              Busy, Delivering, Current
<1>3. ASSUME NEW p \in Partitions, NEW a \in Aggregations \cup Invalid, Publish(p, a)
      PROVE  Consuming'
  <2>1. log' \in [Partitions -> Seq(Aggregations \cup Invalid)]
    BY <1>c, <1>3 DEF Publish, Consuming, TypeOK
  <2>2. \A q \in Partitions : /\ Len(log[q]) \in Nat
                              /\ Len(log'[q]) \in Nat /\ Len(log[q]) <= Len(log'[q])
                              /\ \A i \in 1..Len(log[q]) : log'[q][i] = log[q][i]
                              /\ \A i \in 1..Len(log'[q]) : i \in 1..Len(log[q]) \/ (q = p /\ log'[q][i] = a)
    BY <1>c, <1>3 DEF Publish, Consuming, TypeOK
  <2>3. TypeOK'
    BY <1>c, <1>3, <2>1 DEF Publish, Consuming, TypeOK
  <2>4. LogKeyed'
    BY <1>c, <1>3, <2>2 DEF Publish, Consuming, LogKeyed
  <2>5. BatchesInLog'
    <3> SUFFICES ASSUME NEW t \in Threads, Busy(t)
                 PROVE  batch[t].last <= Len(log'[batch[t].part])
      BY <1>3 DEF Publish, BatchesInLog, Busy
    <3>1. batch[t].part \in Partitions /\ batch[t].last \in Nat /\ batch[t].last <= Len(log[batch[t].part])
      BY <1>c, CurrentType DEF Consuming, BatchesInLog, Batch
    <3> QED BY <2>2, <3>1
  <2>6. InEvaluate'
    <3> SUFFICES ASSUME NEW t \in Threads, pc[t] # "deliver"
                 PROVE  Delivering(t)' /\ Current(t)' \in Aggregations
      BY <1>3 DEF Publish, InEvaluate
    <3>1. Delivering(t) /\ Current(t) \in Aggregations
      BY <1>c DEF Consuming, InEvaluate
    <3>2. batch[t].part \in Partitions /\ batch[t].next \in 1..Len(log[batch[t].part])
      BY <1>c, <3>1, CurrentType DEF Delivering, Batch
    <3>3. Current(t)' = Current(t)
      BY <1>3, <2>2, <3>2 DEF Publish, Current
    <3> QED BY <1>3, <3>1, <3>3 DEF Publish, Delivering, Busy
  <2> QED BY <1>c, <1>3, <2>3, <2>4, <2>5, <2>6
          DEF Publish, Consuming, OwnersHoldBatches, Busy
<1>4. ASSUME NEW t \in Threads, NEW p \in Partitions, Poll(t, p)
      PROVE  Consuming'
  <2>1. PICK n \in 1..MaxPoll :
           /\ committed[p] + n <= Len(log[p])
           /\ batch' = [batch EXCEPT ![t] = [part |-> p, next |-> committed[p] + 1,
                                             last |-> committed[p] + n]]
    BY <1>4 DEF Poll
  <2>2. /\ [part |-> p, next |-> committed[p] + 1, last |-> committed[p] + n] \in Batch
        /\ n \in Nat
    BY <1>c, ConstantTypes DEF Batch, Consuming, TypeOK
  <2>3. TypeOK'
    BY <1>c, <1>4, <2>1, <2>2 DEF Poll, consumerVars, Consuming, TypeOK
  <2>4. pc[t] = "deliver"
    BY <1>c, <1>4 DEF Poll, Consuming, InEvaluate, Delivering
  <2>5. /\ batch'[t] = [part |-> p, next |-> committed[p] + 1, last |-> committed[p] + n]
        /\ \A u \in Threads \ {t} : batch'[u] = batch[u]
    BY <1>c, <2>1 DEF Consuming, TypeOK
  <2>6. LogKeyed' /\ BatchesInLog'
    BY <1>c, <1>4, <2>1, <2>5 DEF Poll, consumerVars, Consuming, LogKeyed, BatchesInLog, Busy
  <2>7. InEvaluate'
    BY <1>c, <1>4, <2>4, <2>5 DEF Poll, consumerVars, Consuming, InEvaluate, Delivering, Busy, Current
  <2>8. OwnersHoldBatches'
    BY <1>c, <1>4, <2>5 DEF Poll, consumerVars, Consuming, OwnersHoldBatches, Busy
  <2> QED BY <2>3, <2>6, <2>7, <2>8 DEF Consuming
<1>5. ASSUME NEW t \in Threads, Commit(t)
      PROVE  Consuming'
  <2>1. batch[t].part \in Partitions /\ batch[t].next - 1 \in Nat
    BY <1>c, <1>5, CurrentType DEF Commit, Batch
  <2>2. TypeOK'
    BY <1>c, <1>5, <2>1 DEF Commit, Consuming, TypeOK
  <2>3. pc[t] = "deliver"
    BY <1>c, <1>5 DEF Commit, Consuming, InEvaluate
  <2>4. batch'[t] = NoBatch /\ \A u \in Threads \ {t} : batch'[u] = batch[u]
    BY <1>c, <1>5 DEF Commit, Consuming, TypeOK
  <2> QED BY <1>c, <1>5, <2>2, <2>3, <2>4
          DEF Commit, Consuming, LogKeyed, BatchesInLog, InEvaluate, OwnersHoldBatches,
              Busy, Delivering, Current
<1>6. ASSUME NEW t \in Threads, NEW p \in Partitions, Rebalance(t, p)
      PROVE  Consuming'
  <2>1. rebalances' \in Nat /\ rebalances' # 0
    BY <1>c, <1>6 DEF Rebalance, Consuming, TypeOK
  <2>2. TypeOK'
    BY <1>c, <1>6, <2>1 DEF Rebalance, Consuming, TypeOK
  <2> QED BY <1>c, <1>6, <2>1, <2>2
          DEF Rebalance, Consuming, LogKeyed, BatchesInLog, InEvaluate, OwnersHoldBatches,
              Busy, Delivering, Current
<1>7. CASE Restart
  <2>1. epoch' \in Nat
    BY <1>c, <1>7 DEF Restart, Consuming, TypeOK
  <2>2. TypeOK'
    BY <1>c, <1>7, <2>1 DEF Restart, Consuming, TypeOK, AlertTypes
  <2> QED BY <1>c, <1>7, <2>2
          DEF Restart, Consuming, LogKeyed, BatchesInLog, InEvaluate, OwnersHoldBatches, Busy
<1> QED BY <1>1, <1>2, <1>3, <1>4, <1>5, <1>6, <1>7, EvaluateSteps DEF Next, Listen

-----------------------------------------------------------------------------
(* The alerts.                                                             *)

\* The alert that thread t is sending.
LEMMA RaisedType ==
  ASSUME IInv, NEW t \in Threads, pc[t] \in Sending
  PROVE  /\ raising[t] \in AlertType /\ raising[t] \in alerts
         /\ raising[t].thread = t /\ raising[t].epoch = epoch /\ raising[t].stamped = NoTime
         /\ raising[t].key \in Keys /\ raising[t].type \in AlertTypes /\ raising[t].at \in Nat
         /\ PartitionOf[raising[t].key] = batch[t].part
<1>1. raising[t] # NoAlert /\ raising \in [Threads -> AlertType \cup {NoAlert}]
  BY DEF IInv, Alerting, RaisingOK, Consuming, TypeOK
<1>2. raising[t] \in AlertType
  BY <1>1
<1>3. raising[t].key \in Keys /\ raising[t].type \in AlertTypes /\ raising[t].at \in Nat
  BY <1>2 DEF AlertType
<1> QED BY <1>1, <1>2, <1>3 DEF IInv, Alerting, RaisingOK

\* The numbers of an alert, of the clock and of the map.
LEMMA Times ==
  ASSUME IInv
  PROVE  /\ now \in Nat /\ epoch \in Nat /\ rebalances \in Nat /\ Cooldown \in Nat
         /\ \A a \in alerts : /\ a.key \in Keys /\ a.type \in AlertTypes
                              /\ a.at \in Nat /\ a.epoch \in Nat
                              /\ a.stamped # NoTime => a.stamped \in Nat
         /\ \A key \in Keys, y \in AlertTypes :
               lastAlertTime[key][y] # NoTime => lastAlertTime[key][y] \in Nat
<1>1. /\ alerts \subseteq AlertType
      /\ lastAlertTime \in [Keys -> [AlertTypes -> Nat \cup {NoTime}]]
      /\ now \in Nat /\ epoch \in Nat /\ rebalances \in Nat
  BY DEF IInv, Consuming, TypeOK
<1>2. \A a \in AlertType : /\ a.key \in Keys /\ a.type \in AlertTypes
                           /\ a.at \in Nat /\ a.epoch \in Nat /\ a.stamped \in Nat \cup {NoTime}
  BY DEF AlertType
<1> QED BY <1>1, <1>2, ConstantTypes

\* A step that leaves the alerts and the cooldown alone.
LEMMA QuietSteps ==
  ASSUME IInv,
         UNCHANGED <<raising, lastAlertTime, alerts, epoch>>,
         now' \in Nat, now <= now',
         rebalances' = 0 => rebalances = 0,
         \A t \in Threads : \/ pc'[t] = pc[t] /\ (pc[t] \in Sending => batch'[t] = batch[t])
                            \/ pc[t] \notin Sending /\ pc'[t] \notin Sending
  PROVE  /\ RaisingOK' /\ UnstampedIsRaised' /\ AlertTimes' /\ MapTimes' /\ MapCovers'
         /\ MapHasAlert' /\ CooldownHolds' /\ ApartWithoutRebalance'
         /\ suppressed' = suppressed => SuppressedOnlyAfterAlert'
<1>1. RaisingOK'
  BY DEF IInv, Alerting, RaisingOK, Sending
<1>2. UnstampedIsRaised'
  BY DEF IInv, Alerting, UnstampedIsRaised
<1>3. AlertTimes' /\ MapTimes'
  BY Times DEF IInv, Alerting, AlertTimes, MapTimes
<1>4. MapCovers' /\ MapHasAlert'
  BY DEF IInv, Alerting, MapCovers, MapHasAlert
<1>5. CooldownHolds'
  BY DEF IInv, Alerting, CooldownHolds
<1>6. ApartWithoutRebalance'
  BY DEF IInv, Alerting, ApartWithoutRebalance
<1>7. suppressed' = suppressed => SuppressedOnlyAfterAlert'
  BY DEF IInv, Alerting, SuppressedOnlyAfterAlert
<1> QED BY <1>1, <1>2, <1>3, <1>4, <1>5, <1>6, <1>7

\* A breach is suppressed because of an entry of the map, which has its alert.
LEMMA SuppressedSteps ==
  ASSUME IInv, NEW t \in Threads, CheckSuppressed(t)
  PROVE  Alerting'
<1>1. Delivering(t) /\ pc[t] = "check" /\ Current(t).key \in Keys /\ rule[t] \in AlertTypes
  BY ConstantTypes DEF CheckSuppressed, Checking, IInv, Consuming, InEvaluate, TypeOK
<1>2. \A u \in Threads : \/ pc'[u] = pc[u] /\ (pc[u] \in Sending => batch'[u] = batch[u])
                         \/ pc[u] \notin Sending /\ pc'[u] \notin Sending
  BY <1>1, NextRuleMoves DEF CheckSuppressed, IInv, Sending
<1>3. /\ RaisingOK' /\ UnstampedIsRaised' /\ AlertTimes' /\ MapTimes' /\ MapCovers'
      /\ MapHasAlert' /\ CooldownHolds' /\ ApartWithoutRebalance'
  BY <1>2, Times, QuietSteps DEF CheckSuppressed, consumerVars
<1>4. SuppressedOnlyAfterAlert'
  <2> SUFFICES ASSUME NEW s \in suppressed'
               PROVE  \E a \in alerts : /\ SameKey(a, s) /\ a.tried = Channels
                                        /\ a.stamped # NoTime /\ s.at <= a.stamped + Cooldown
    BY DEF SuppressedOnlyAfterAlert, CheckSuppressed, SameKey
  <2>1. CASE s \in suppressed
    BY <2>1 DEF IInv, Alerting, SuppressedOnlyAfterAlert
  <2>2. CASE s = [key |-> Current(t).key, type |-> rule[t], record |-> CurrentRecord(t),
                  at |-> now, epoch |-> epoch]
    <3> DEFINE last == lastAlertTime[Current(t).key][rule[t]]
    <3>1. last # NoTime /\ ~(now > last + Cooldown)
      BY DEF CheckSuppressed, IsCooledDown
    <3>2. last \in Nat /\ now <= last + Cooldown
      BY <1>1, <3>1, Times
    <3>3. PICK a \in alerts : /\ a.key = Current(t).key /\ a.type = rule[t] /\ a.epoch = epoch
                              /\ a.tried = Channels /\ a.stamped = last
      BY <1>1, <3>1 DEF IInv, Alerting, MapHasAlert
    <3> QED BY <2>2, <3>1, <3>2, <3>3 DEF SameKey
  <2> QED BY <2>1, <2>2 DEF CheckSuppressed
<1> QED BY <1>3, <1>4 DEF Alerting

\* A new alert: its key is not cooling down, and while no rebalance has taken
\* place no other thread is raising it.
LEMMA FireSteps ==
  ASSUME IInv, NEW t \in Threads, CheckFires(t)
  PROVE  Alerting'
<1> DEFINE new == [key |-> Current(t).key, type |-> rule[t], record |-> CurrentRecord(t),
                   at |-> now, epoch |-> epoch, thread |-> t, tried |-> {}, stamped |-> NoTime]
           last == lastAlertTime[Current(t).key][rule[t]]
<1>1. /\ Delivering(t) /\ pc[t] = "check" /\ Current(t) \in Aggregations
      /\ Current(t).key \in Keys /\ rule[t] \in AlertTypes
      /\ PartitionOf[Current(t).key] = batch[t].part
  BY ConstantTypes, CurrentType DEF CheckFires, Checking, IInv, Consuming, InEvaluate, TypeOK, Delivering
<1>2. /\ raising' = [raising EXCEPT ![t] = new]
      /\ alerts' = alerts \cup {new}
      /\ pc' = [pc EXCEPT ![t] = "slack"]
      /\ UNCHANGED <<now, batch, lastAlertTime, suppressed, epoch, rebalances>>
  BY DEF CheckFires, consumerVars
<1>3. /\ new.key = Current(t).key /\ new.type = rule[t] /\ new.at = now /\ new.epoch = epoch
      /\ new.thread = t /\ new.tried = {} /\ new.stamped = NoTime /\ new # NoAlert
  <2>1. raising'[t] = new /\ raising' \in [Threads -> AlertType \cup {NoAlert}]
    BY <1>2, AlertTypesOK DEF IInv, Consuming, TypeOK
  <2>2. new \in AlertType
    <3>1. CurrentRecord(t) \in Partitions \X Nat
      BY <1>1, CurrentType DEF IInv, Delivering, CurrentRecord, Batch
    <3> QED BY <1>1, <3>1, Times DEF AlertType
  <2> QED BY <2>2, ConstantTypes
<1>4. \A u \in Threads \ {t} : raising'[u] = raising[u] /\ pc'[u] = pc[u]
  BY <1>2 DEF IInv, Consuming, TypeOK
<1>5. raising'[t] = new /\ pc'[t] = "slack"
  BY <1>2 DEF IInv, Consuming, TypeOK
<1>6. raising[t] = NoAlert
  BY <1>1 DEF IInv, Alerting, RaisingOK, Sending
<1>a. RaisingOK'
  BY <1>1, <1>2, <1>3, <1>4, <1>5 DEF IInv, Alerting, RaisingOK, Sending
<1>b. UnstampedIsRaised'
  BY <1>2, <1>4, <1>5, <1>6, Times, ConstantTypes
     DEF IInv, Alerting, UnstampedIsRaised, Consuming, TypeOK
<1>c. AlertTimes' /\ MapTimes'
  BY <1>2, <1>3, Times DEF IInv, Alerting, AlertTimes, MapTimes
<1>d. MapCovers' /\ MapHasAlert'
  BY <1>2, <1>3 DEF IInv, Alerting, MapCovers, MapHasAlert
<1>e. ASSUME NEW b \in alerts, SameKey(new, b), b.stamped # NoTime
      PROVE  now > b.stamped + Cooldown /\ b.at <= b.stamped
  <2>1. last # NoTime /\ b.stamped <= last
    BY <1>e, <1>3 DEF SameKey, IInv, Alerting, MapCovers
  <2>2. now > last + Cooldown
    BY <2>1 DEF CheckFires, IsCooledDown
  <2>3. last \in Nat /\ b.stamped \in Nat /\ Cooldown \in Nat /\ now \in Nat
    BY <1>1, <1>e, <2>1, Times
  <2> QED BY <1>e, <2>1, <2>2, <2>3 DEF IInv, Alerting, AlertTimes
<1>f. CooldownHolds'
  <2> SUFFICES ASSUME NEW a \in alerts', NEW b \in alerts', SameKey(a, b), b.stamped # NoTime
               PROVE  a.at <= b.stamped \/ a.at > b.stamped + Cooldown
    BY DEF CooldownHolds, SameKey
  <2>1. b \in alerts
    BY <1>2, <1>3
  <2>2. CASE a \in alerts
    BY <2>1, <2>2 DEF IInv, Alerting, CooldownHolds
  <2>3. CASE a = new
    BY <1>e, <1>3, <2>1, <2>3
  <2> QED BY <1>2, <2>2, <2>3
<1>g. ASSUME rebalances = 0, NEW b \in alerts, SameKey(new, b)
      PROVE  now > b.at + Cooldown
  <2>1. b.stamped # NoTime
    <3> SUFFICES ASSUME b.stamped = NoTime PROVE FALSE
      OBVIOUS
    <3>1. PICK u \in Threads : raising[u] = b
      BY <1>3, <1>g DEF SameKey, IInv, Alerting, UnstampedIsRaised
    <3>2. raising[u] # NoAlert /\ u # t
      BY <1>6, <3>1, ConstantTypes DEF IInv, Consuming, TypeOK
    <3>3. pc[u] \in Sending
      BY <3>2 DEF IInv, Alerting, RaisingOK
    <3>4. batch[u].part = batch[t].part
      BY <1>1, <1>3, <1>g, <3>1, <3>3, RaisedType DEF SameKey
    <3>5. Busy(u) /\ Busy(t)
      BY <1>1, <3>3 DEF IInv, Consuming, InEvaluate, Delivering, Sending
    <3> QED BY <1>g, <3>2, <3>4, <3>5 DEF IInv, Consuming, OwnersHoldBatches
  <2>2. now > b.stamped + Cooldown /\ b.at <= b.stamped
    BY <1>e, <1>g, <2>1
  <2> QED BY <2>1, <2>2, Times
<1>h. ApartWithoutRebalance'
  <2> SUFFICES ASSUME rebalances = 0, NEW a \in alerts', NEW b \in alerts', SameKey(a, b), a # b
               PROVE  a.at > b.at + Cooldown \/ b.at > a.at + Cooldown
    BY <1>2 DEF ApartWithoutRebalance, SameKey
  <2>1. CASE a \in alerts /\ b \in alerts
    BY <2>1 DEF IInv, Alerting, ApartWithoutRebalance
  <2>2. CASE a = new /\ b \in alerts
    BY <1>3, <1>g, <2>2
  <2>3. CASE b = new /\ a \in alerts
    BY <1>3, <1>g, <2>3 DEF SameKey
  <2> QED BY <1>2, <2>1, <2>2, <2>3
<1>i. SuppressedOnlyAfterAlert'
  BY <1>2 DEF IInv, Alerting, SuppressedOnlyAfterAlert, SameKey
<1> QED BY <1>a, <1>b, <1>c, <1>d, <1>f, <1>h, <1>i DEF Alerting

\* An alert that is being sent is replaced by itself, one step further.
LEMMA ReplaceSteps ==
  ASSUME IInv, NEW t \in Threads, pc[t] \in Sending, NEW new,
         new.key = raising[t].key, new.type = raising[t].type,
         new.at = raising[t].at, new.epoch = raising[t].epoch,
         new.stamped = NoTime \/ new.stamped = now,
         alerts' = (alerts \ {raising[t]}) \cup {new},
         UNCHANGED <<suppressed, rebalances>>
  PROVE  CooldownHolds' /\ ApartWithoutRebalance' /\ SuppressedOnlyAfterAlert'
<1> DEFINE old == raising[t]
<1>1. old \in alerts /\ old.stamped = NoTime
  BY RaisedType
<1>2. \A b : /\ SameKey(new, b) <=> SameKey(old, b)
             /\ SameKey(b, new) <=> SameKey(b, old)
  BY DEF SameKey
<1>3. \A b \in alerts : b.at <= now
  BY DEF IInv, Alerting, AlertTimes
<1>4. CooldownHolds'
  <2> SUFFICES ASSUME NEW a \in alerts', NEW b \in alerts', SameKey(a, b), b.stamped # NoTime
               PROVE  a.at <= b.stamped \/ a.at > b.stamped + Cooldown
    BY DEF CooldownHolds, SameKey
  <2>1. PICK c \in alerts : c.at = a.at /\ \A d : SameKey(c, d) <=> SameKey(a, d)
    BY <1>1, <1>2
  <2>2. CASE b \in alerts
    BY <2>1, <2>2 DEF IInv, Alerting, CooldownHolds
  <2>3. CASE b = new
    BY <1>3, <2>1, <2>3
  <2> QED BY <2>2, <2>3
<1>5. ApartWithoutRebalance'
  <2> SUFFICES ASSUME rebalances = 0, NEW a \in alerts', NEW b \in alerts', SameKey(a, b), a # b
               PROVE  a.at > b.at + Cooldown \/ b.at > a.at + Cooldown
    BY DEF ApartWithoutRebalance, SameKey
  <2>0. \A c, d \in alerts : SameKey(c, d) /\ c # d => c.at > d.at + Cooldown \/ d.at > c.at + Cooldown
    BY DEF IInv, Alerting, ApartWithoutRebalance
  <2>1. CASE a = new
    <3>1. b \in alerts /\ b # old /\ SameKey(old, b)
      BY <1>2, <2>1
    <3> QED BY <1>1, <2>0, <2>1, <3>1
  <2>2. CASE b = new
    <3>1. a \in alerts /\ a # old /\ SameKey(a, old)
      BY <1>2, <2>2
    <3> QED BY <1>1, <2>0, <2>2, <3>1
  <2> QED BY <2>0, <2>1, <2>2
<1>6. SuppressedOnlyAfterAlert'
  <2> SUFFICES ASSUME NEW s \in suppressed
               PROVE  \E a \in alerts' : /\ SameKey(a, s) /\ a.tried = Channels
                                         /\ a.stamped # NoTime /\ s.at <= a.stamped + Cooldown
    BY DEF SuppressedOnlyAfterAlert, SameKey
  <2>1. PICK a \in alerts : /\ SameKey(a, s) /\ a.tried = Channels
                            /\ a.stamped # NoTime /\ s.at <= a.stamped + Cooldown
    BY DEF IInv, Alerting, SuppressedOnlyAfterAlert
  <2> QED BY <1>1, <2>1
<1> QED BY <1>4, <1>5, <1>6

\* A channel is tried.
LEMMA ChannelSteps ==
  ASSUME IInv, NEW t \in Threads, SendSlack(t) \/ SendEmail(t)
  PROVE  Alerting'
<1>1. PICK channel \in Channels, next \in {"email", "stamp"} :
         /\ TryChannel(t, channel, next)
         /\ channel = "slack" <=> next = "email"
  BY DEF SendSlack, SendEmail, AfterSlack, Channels
<1> DEFINE old == raising[t]
           new == [old EXCEPT !.tried = @ \cup {channel}]
<1>2. pc[t] = channel /\ pc[t] \in Sending
  BY <1>1 DEF TryChannel, Channels, Sending
<1>3. /\ old \in AlertType /\ old \in alerts /\ old # NoAlert
      /\ old.thread = t /\ old.epoch = epoch /\ old.stamped = NoTime
      /\ PartitionOf[old.key] = batch[t].part
  BY <1>2, RaisedType, ConstantTypes
<1>4. /\ raising' = [raising EXCEPT ![t] = new]
      /\ alerts' = (alerts \ {old}) \cup {new}
      /\ pc' = [pc EXCEPT ![t] = next]
      /\ UNCHANGED <<now, batch, lastAlertTime, suppressed, epoch, rebalances>>
  BY <1>1 DEF TryChannel, Progress, consumerVars
<1>5. /\ new.key = old.key /\ new.type = old.type /\ new.at = old.at /\ new.epoch = old.epoch
      /\ new.thread = old.thread /\ new.stamped = old.stamped
      /\ new.tried = old.tried \cup {channel} /\ new # NoAlert
  <2>1. new \in AlertType
    BY <1>3 DEF AlertType
  <2> QED BY <1>3, <2>1, ConstantTypes DEF AlertType
<1> HIDE DEF new
<1>6. /\ raising'[t] = new /\ pc'[t] = next
      /\ \A u \in Threads \ {t} : raising'[u] = raising[u] /\ pc'[u] = pc[u]
  BY <1>4 DEF IInv, Consuming, TypeOK
<1>7. next = "stamp" => new.tried = Channels
  <2>1. old.tried \subseteq Channels
    BY <1>3 DEF AlertType
  <2>2. channel = "email" => "slack" \in old.tried
    BY <1>2 DEF IInv, Alerting, RaisingOK
  <2> QED BY <1>1, <1>5, <2>1, <2>2 DEF Channels
<1>8. \A u \in Threads \ {t} : raising[u] # NoAlert => raising[u] \in alerts'
  BY <1>3, <1>4 DEF IInv, Alerting, RaisingOK
<1>a. RaisingOK'
  <2> SUFFICES ASSUME NEW u \in Threads
               PROVE  /\ pc'[u] \in Sending <=> raising'[u] # NoAlert
                      /\ raising'[u] # NoAlert => /\ raising'[u] \in alerts'
                                                  /\ raising'[u].thread = u
                                                  /\ raising'[u].epoch = epoch'
                                                  /\ raising'[u].stamped = NoTime
                                                  /\ PartitionOf[raising'[u].key] = batch'[u].part
                      /\ pc'[u] = "email" => "slack" \in raising'[u].tried
                      /\ pc'[u] = "stamp" => raising'[u].tried = Channels
    BY DEF RaisingOK
  <2>1. CASE u = t
    <3>1. next = "email" => "slack" \in new.tried
      BY <1>1, <1>5
    <3> QED BY <1>3, <1>4, <1>5, <1>6, <1>7, <2>1, <3>1 DEF Sending
  <2>2. CASE u # t
    BY <1>4, <1>6, <1>8, <2>2 DEF IInv, Alerting, RaisingOK
  <2> QED BY <2>1, <2>2
<1>b. UnstampedIsRaised'
  BY <1>4, <1>6 DEF IInv, Alerting, UnstampedIsRaised
<1>c. AlertTimes' /\ MapTimes'
  BY <1>3, <1>4, <1>5 DEF IInv, Alerting, AlertTimes, MapTimes
<1>d. MapCovers' /\ MapHasAlert'
  BY <1>3, <1>4, <1>5 DEF IInv, Alerting, MapCovers, MapHasAlert
<1>e. CooldownHolds' /\ ApartWithoutRebalance' /\ SuppressedOnlyAfterAlert'
  BY <1>2, <1>3, <1>4, <1>5, ReplaceSteps
<1> QED BY <1>a, <1>b, <1>c, <1>d, <1>e DEF Alerting

\* The time of the alert is entered into the map.
LEMMA StampSteps ==
  ASSUME IInv, NEW t \in Threads, StartCooldown(t)
  PROVE  Alerting'
<1> DEFINE old == raising[t]
           new == [old EXCEPT !.stamped = now]
<1>2. pc[t] = "stamp" /\ pc[t] \in Sending /\ Delivering(t)
  BY DEF StartCooldown, Sending, IInv, Consuming, InEvaluate
<1>3. /\ old \in AlertType /\ old \in alerts /\ old # NoAlert
      /\ old.thread = t /\ old.epoch = epoch /\ old.stamped = NoTime /\ old.tried = Channels
      /\ old.key \in Keys /\ old.type \in AlertTypes
  BY <1>2, RaisedType, ConstantTypes DEF IInv, Alerting, RaisingOK
<1>4. /\ raising' = [raising EXCEPT ![t] = NoAlert]
      /\ alerts' = (alerts \ {old}) \cup {new}
      /\ lastAlertTime' = [lastAlertTime EXCEPT ![old.key][old.type] = now]
      /\ UNCHANGED <<now, suppressed, epoch, rebalances>>
  BY DEF StartCooldown, Stamped, consumerVars
<1>5. /\ new.key = old.key /\ new.type = old.type /\ new.at = old.at /\ new.epoch = old.epoch
      /\ new.tried = old.tried /\ new.stamped = now
  BY <1>3 DEF AlertType
<1> HIDE DEF new
<1>6. /\ raising'[t] = NoAlert /\ pc'[t] \notin Sending
      /\ \A u \in Threads \ {t} : raising'[u] = raising[u] /\ pc'[u] = pc[u] /\ batch'[u] = batch[u]
  BY <1>2, <1>4, NextRuleMoves DEF StartCooldown, Sending, IInv, Consuming, TypeOK
<1>7. /\ lastAlertTime'[old.key][old.type] = now
      /\ \A k \in Keys, y \in AlertTypes :
            (k = old.key /\ y = old.type) \/ lastAlertTime'[k][y] = lastAlertTime[k][y]
  BY <1>3, <1>4 DEF IInv, Consuming, TypeOK
<1>n. now \in Nat /\ now # NoTime
  BY Times, ConstantTypes
<1>8. \A u \in Threads \ {t} : raising[u] # NoAlert => raising[u] \in alerts'
  BY <1>3, <1>4 DEF IInv, Alerting, RaisingOK
<1>a. RaisingOK'
  <2> SUFFICES ASSUME NEW u \in Threads
               PROVE  /\ pc'[u] \in Sending <=> raising'[u] # NoAlert
                      /\ raising'[u] # NoAlert => /\ raising'[u] \in alerts'
                                                  /\ raising'[u].thread = u
                                                  /\ raising'[u].epoch = epoch'
                                                  /\ raising'[u].stamped = NoTime
                                                  /\ PartitionOf[raising'[u].key] = batch'[u].part
                      /\ pc'[u] = "email" => "slack" \in raising'[u].tried
                      /\ pc'[u] = "stamp" => raising'[u].tried = Channels
    BY DEF RaisingOK
  <2>1. CASE u = t
    BY <1>6, <2>1 DEF Sending
  <2>2. CASE u # t
    BY <1>4, <1>6, <1>8, <2>2 DEF IInv, Alerting, RaisingOK
  <2> QED BY <2>1, <2>2
<1>b. UnstampedIsRaised'
  BY <1>4, <1>5, <1>6, <1>n DEF IInv, Alerting, UnstampedIsRaised
<1>c. AlertTimes' /\ MapTimes'
  <2>1. AlertTimes'
    BY <1>3, <1>4, <1>5, <1>n DEF IInv, Alerting, AlertTimes
  <2>2. MapTimes'
    BY <1>4, <1>7, <1>n DEF IInv, Alerting, MapTimes
  <2> QED BY <2>1, <2>2
<1>d. MapCovers'
  <2> SUFFICES ASSUME NEW a \in alerts', a.stamped # NoTime, a.epoch = epoch
               PROVE  /\ lastAlertTime'[a.key][a.type] # NoTime
                      /\ a.stamped <= lastAlertTime'[a.key][a.type]
    BY <1>4 DEF MapCovers
  <2>1. CASE a = new
    BY <1>5, <1>7, <1>n, <2>1
  <2>2. CASE a \in alerts
    <3>1. a.key \in Keys /\ a.type \in AlertTypes /\ a.stamped <= now
      BY <2>2, Times DEF IInv, Alerting, AlertTimes
    <3>2. /\ lastAlertTime[a.key][a.type] # NoTime
          /\ a.stamped <= lastAlertTime[a.key][a.type]
      BY <2>2 DEF IInv, Alerting, MapCovers
    <3> QED BY <1>7, <1>n, <3>1, <3>2
  <2> QED BY <1>4, <2>1, <2>2
<1>e. MapHasAlert'
  <2> SUFFICES ASSUME NEW k \in Keys, NEW y \in AlertTypes, lastAlertTime'[k][y] # NoTime
               PROVE  \E a \in alerts' : /\ a.key = k /\ a.type = y /\ a.epoch = epoch
                                         /\ a.tried = Channels
                                         /\ a.stamped = lastAlertTime'[k][y]
    BY <1>4 DEF MapHasAlert
  <2>1. CASE k = old.key /\ y = old.type
    BY <1>3, <1>4, <1>5, <1>7, <2>1
  <2>2. CASE lastAlertTime'[k][y] = lastAlertTime[k][y]
    <3>1. PICK a \in alerts : /\ a.key = k /\ a.type = y /\ a.epoch = epoch
                              /\ a.tried = Channels /\ a.stamped = lastAlertTime[k][y]
      BY <2>2 DEF IInv, Alerting, MapHasAlert
    <3> QED BY <1>3, <1>4, <2>2, <3>1
  <2> QED BY <1>7, <2>1, <2>2
<1>f. CooldownHolds' /\ ApartWithoutRebalance' /\ SuppressedOnlyAfterAlert'
  BY <1>2, <1>3, <1>4, <1>5, ReplaceSteps
<1> QED BY <1>a, <1>b, <1>c, <1>d, <1>e, <1>f DEF Alerting

\* A new process has no alerts and an empty map.
LEMMA RestartSteps ==
  ASSUME IInv, Restart
  PROVE  Alerting'
<1>1. /\ epoch' = epoch + 1
      /\ UNCHANGED <<now, alerts, suppressed, rebalances>>
      /\ \A t \in Threads : raising'[t] = NoAlert /\ pc'[t] = "deliver"
      /\ \A k \in Keys, y \in AlertTypes : lastAlertTime'[k][y] = NoTime
  BY DEF Restart
<1>2. \A a \in alerts : a.epoch # epoch' /\ a.epoch <= epoch' /\ a.key \in Keys /\ a.type \in AlertTypes
  BY <1>1, Times DEF IInv, Alerting, AlertTimes
<1>3. RaisingOK'
  BY <1>1 DEF RaisingOK, Sending
<1>4. UnstampedIsRaised' /\ MapCovers' /\ MapTimes' /\ MapHasAlert'
  BY <1>1, <1>2 DEF UnstampedIsRaised, MapCovers, MapTimes, MapHasAlert
<1>5. AlertTimes'
  BY <1>1, <1>2 DEF IInv, Alerting, AlertTimes
<1>6. CooldownHolds' /\ ApartWithoutRebalance' /\ SuppressedOnlyAfterAlert'
  BY <1>1 DEF IInv, Alerting, CooldownHolds, ApartWithoutRebalance, SuppressedOnlyAfterAlert, SameKey
<1> QED BY <1>3, <1>4, <1>5, <1>6 DEF Alerting

\* Each step keeps what ties the alerts to the map and to the threads.
LEMMA AlertingSteps ==
  ASSUME IInv, [Next]_vars
  PROVE  Alerting'
<1>c. Consuming
  BY DEF IInv
<1>q. ASSUME UNCHANGED <<raising, lastAlertTime, alerts, suppressed, epoch>>,
             now' \in Nat, now <= now',
             rebalances' = 0 => rebalances = 0,
             \A t \in Threads : \/ pc'[t] = pc[t] /\ (pc[t] \in Sending => batch'[t] = batch[t])
                                \/ pc[t] \notin Sending /\ pc'[t] \notin Sending
      PROVE  Alerting'
  BY <1>q, QuietSteps DEF Alerting
<1>n. now \in Nat /\ rebalances \in Nat /\ MaxTime \in Nat
  BY Times, AlertAssumption
<1>1. CASE UNCHANGED vars
  BY <1>q, <1>n, <1>1 DEF vars
<1>2. CASE Tick
  BY <1>q, <1>n, <1>2 DEF Tick, consumerVars
<1>3. ASSUME NEW p \in Partitions, NEW a \in Aggregations \cup Invalid, Publish(p, a)
      PROVE  Alerting'
  BY <1>q, <1>n, <1>3 DEF Publish
<1>4. ASSUME NEW t \in Threads, NEW p \in Partitions, Poll(t, p)
      PROVE  Alerting'
  <2>1. pc[t] = "deliver" /\ pc' = pc /\ \A u \in Threads \ {t} : batch'[u] = batch[u]
    BY <1>c, <1>4 DEF Poll, Consuming, InEvaluate, Delivering, TypeOK
  <2> QED BY <1>q, <1>n, <1>4, <2>1 DEF Poll, consumerVars, Sending
<1>5. ASSUME NEW t \in Threads, SkipRecord(t)
      PROVE  Alerting'
  <2>1. /\ pc[t] = "deliver" /\ pc'[t] = "deliver"
        /\ \A u \in Threads \ {t} : batch'[u] = batch[u] /\ pc'[u] = pc[u]
    BY <1>c, <1>5, NextRecordMoves DEF SkipRecord
  <2> QED BY <1>q, <1>n, <1>5, <2>1 DEF SkipRecord, consumerVars, Sending
<1>6. ASSUME NEW t \in Threads, Evaluate(t)
      PROVE  Alerting'
  <2>1. pc[t] = "deliver" /\ pc'[t] = "check" /\ \A u \in Threads \ {t} : pc'[u] = pc[u]
    BY <1>c, <1>6 DEF Evaluate, Consuming, TypeOK
  <2> QED BY <1>q, <1>n, <1>6, <2>1 DEF Evaluate, consumerVars, Sending
<1>7. ASSUME NEW t \in Threads, CheckOk(t)
      PROVE  Alerting'
  <2>1. /\ pc[t] = "check" /\ pc'[t] \in {"deliver", "check"}
        /\ \A u \in Threads \ {t} : batch'[u] = batch[u] /\ pc'[u] = pc[u]
    BY <1>c, <1>7, NextRuleMoves DEF CheckOk, Checking
  <2> QED BY <1>q, <1>n, <1>7, <2>1 DEF CheckOk, consumerVars, Sending
<1>8. ASSUME NEW t \in Threads, Commit(t)
      PROVE  Alerting'
  <2>1. pc[t] = "deliver" /\ pc' = pc /\ \A u \in Threads \ {t} : batch'[u] = batch[u]
    BY <1>c, <1>8 DEF Commit, Consuming, InEvaluate, TypeOK
  <2> QED BY <1>q, <1>n, <1>8, <2>1 DEF Commit, Sending
<1>9. ASSUME NEW t \in Threads, NEW p \in Partitions, Rebalance(t, p)
      PROVE  Alerting'
  BY <1>q, <1>n, <1>9 DEF Rebalance
<1> QED BY <1>1, <1>2, <1>3, <1>4, <1>5, <1>6, <1>7, <1>8, <1>9, SuppressedSteps, FireSteps,
           ChannelSteps, StampSteps, RestartSteps DEF Next, Listen

-----------------------------------------------------------------------------
\* The invariant is inductive.
THEOREM Inductive == Spec => []IInv
<1>1. Init => IInv
  <2> SUFFICES ASSUME Init PROVE IInv
    OBVIOUS
  <2>1. TypeOK
    BY DEF Init, TypeOK, AlertTypes
  <2>2. Consuming
    BY <2>1 DEF Init, Consuming, LogKeyed, BatchesInLog, InEvaluate, OwnersHoldBatches, Busy
  <2>3. Alerting
    BY DEF Init, Alerting, RaisingOK, UnstampedIsRaised, AlertTimes, MapTimes, MapCovers, MapHasAlert,
           CooldownHolds, ApartWithoutRebalance, SuppressedOnlyAfterAlert, Sending
  <2> QED BY <2>2, <2>3 DEF IInv
<1>2. IInv /\ [Next]_vars => IInv'
  BY ConsumingSteps, AlertingSteps DEF IInv
<1> QED BY <1>1, <1>2, PTL DEF Spec

\* Every state of the alert-service is well typed.
THEOREM TypeCorrect == Spec => []TypeOK
<1>1. IInv => TypeOK
  BY DEF IInv, Consuming
<1> QED BY <1>1, Inductive, PTL

\* For any threads, keys and cooldown, and through rebalances, redeliveries and
\* restarts: no alert is raised while its key cools down.
THEOREM NoAlertWhileCooling == Spec => []CooldownHolds
<1>1. IInv => CooldownHolds
  BY DEF IInv, Alerting
<1> QED BY <1>1, Inductive, PTL

\* As long as no partition moves, the alerts of a key and rule are more than
\* the cooldown apart.
THEOREM AlertsAreApart == Spec => []ApartWithoutRebalance
<1>1. IInv => ApartWithoutRebalance
  BY DEF IInv, Alerting
<1> QED BY <1>1, Inductive, PTL

\* A breach is suppressed only after an alert of its key and rule went to both
\* channels.
THEOREM SuppressionIsJustified == Spec => []SuppressedOnlyAfterAlert
<1>1. IInv => SuppressedOnlyAfterAlert
  BY DEF IInv, Alerting
<1> QED BY <1>1, Inductive, PTL

-----------------------------------------------------------------------------
(* The contract of the consumer group.                                     *)

CommittedAreEvaluated ==
  \A p \in Partitions : /\ committed[p] <= Len(log[p])
                        /\ \A i \in 1..committed[p] : SkippedOrEvaluated(p, i)

\* What a busy thread has behind it is evaluated, whether or not it still owns
\* the partition.
CursorOK(t) ==
  Busy(t) => /\ batch[t].next <= batch[t].last + 1
             /\ \A p \in Partitions, i \in Nat :
                   p = batch[t].part /\ i \in 1..(batch[t].next - 1) => SkippedOrEvaluated(p, i)

\* The owner of a partition is not behind its committed offset.
OwnerOK(t) ==
  Busy(t) /\ owner[batch[t].part] = t => committed[batch[t].part] <= batch[t].next - 1

\* Inside evaluate(): the rule before the current one is done with, and the
\* alert being sent is that of the current rule and record.
RuleOK(t) ==
  /\ pc[t] # "deliver" /\ rule[t] = "ERROR_RATE_HIGH" /\ "LATENCY_HIGH" \in Current(t).breaches
        => Noticed(CurrentRecord(t), "LATENCY_HIGH")
  /\ pc[t] \in Sending => raising[t].record = CurrentRecord(t) /\ raising[t].type = rule[t]

CInv == /\ CommittedAreEvaluated
        /\ \A t \in Threads : CursorOK(t) /\ OwnerOK(t) /\ RuleOK(t)

\* The records of the topic stay where they are.
LEMMA LogGrows ==
  ASSUME IInv, [Next]_vars, NEW p \in Partitions
  PROVE  /\ Len(log[p]) \in Nat /\ Len(log'[p]) \in Nat /\ Len(log[p]) <= Len(log'[p])
         /\ \A i \in 1..Len(log[p]) : log'[p][i] = log[p][i]
<1>1. log \in [Partitions -> Seq(Aggregations \cup Invalid)] /\ Len(log[p]) \in Nat
  BY DEF IInv, Consuming, TypeOK
<1>2. ASSUME NEW q \in Partitions, NEW a \in Aggregations \cup Invalid, Publish(q, a)
      PROVE  /\ Len(log'[p]) \in Nat /\ Len(log[p]) <= Len(log'[p])
             /\ \A i \in 1..Len(log[p]) : log'[p][i] = log[p][i]
  BY <1>1, <1>2 DEF Publish
<1>3. CASE UNCHANGED log
  BY <1>1, <1>3
<1> QED BY <1>1, <1>2, <1>3
        DEF Next, Listen, vars, Tick, Poll, SkipRecord, Evaluate, CheckOk, CheckSuppressed, CheckFires,
            SendSlack, SendEmail, TryChannel, StartCooldown, Commit, Rebalance, Restart, consumerVars

\* What was acted upon stays so: only an alert that is being sent is replaced.
LEMMA NoticedStays ==
  ASSUME IInv, [Next]_vars
  PROVE  \A r, y : Noticed(r, y) => Noticed(r, y)'
<1>1. suppressed \subseteq suppressed'
  BY DEF Next, Listen, vars, Tick, Publish, Poll, SkipRecord, Evaluate, CheckOk, CheckSuppressed,
         CheckFires, SendSlack, SendEmail, TryChannel, StartCooldown, Commit, Rebalance, Restart
<1>2. ASSUME NEW a \in alerts, a.stamped # NoTime
      PROVE  a \in alerts'
  <2>1. ASSUME NEW t \in Threads, pc[t] \in Sending
        PROVE  a # raising[t]
    BY <1>2, <2>1, RaisedType
  <2>2. ASSUME NEW t \in Threads, SendSlack(t) \/ SendEmail(t) \/ StartCooldown(t)
        PROVE  a \in alerts'
    BY <2>1, <2>2 DEF SendSlack, SendEmail, TryChannel, Progress, StartCooldown, Sending
  <2>3. CASE alerts \subseteq alerts'
    BY <2>3
  <2> QED BY <2>2, <2>3
          DEF Next, Listen, vars, Tick, Publish, Poll, SkipRecord, Evaluate, CheckOk, CheckSuppressed,
              CheckFires, Commit, Rebalance, Restart
<1> QED BY <1>1, <1>2 DEF Noticed

LEMMA EvaluatedStays ==
  ASSUME IInv, [Next]_vars, NEW p \in Partitions, NEW i \in 1..Len(log[p]), SkippedOrEvaluated(p, i)
  PROVE  SkippedOrEvaluated(p, i)'
<1>1. log'[p][i] = log[p][i]
  BY LogGrows
<1> QED BY <1>1, NoticedStays DEF SkippedOrEvaluated

LEMMA CommittedStay ==
  ASSUME IInv, CInv, [Next]_vars, UNCHANGED committed
  PROVE  CommittedAreEvaluated'
<1> SUFFICES ASSUME NEW p \in Partitions
             PROVE  /\ committed[p] <= Len(log'[p])
                    /\ \A i \in 1..committed[p] : SkippedOrEvaluated(p, i)'
  BY DEF CommittedAreEvaluated
<1>1. committed[p] \in Nat /\ committed[p] <= Len(log[p])
  BY DEF IInv, Consuming, TypeOK, CInv, CommittedAreEvaluated
<1>2. \A i \in 1..committed[p] : i \in 1..Len(log[p]) /\ SkippedOrEvaluated(p, i)
  BY <1>1, LogGrows DEF CInv, CommittedAreEvaluated
<1> QED BY <1>1, <1>2, LogGrows, EvaluatedStays

\* What is behind the cursor of a busy thread stays evaluated.
LEMMA BehindStays ==
  ASSUME IInv, CInv, [Next]_vars, NEW t \in Threads, Busy(t)
  PROVE  /\ batch[t].next <= batch[t].last + 1
         /\ \A p \in Partitions, i \in Nat :
               p = batch[t].part /\ i \in 1..(batch[t].next - 1) => SkippedOrEvaluated(p, i)'
<1>1. batch[t] \in Batch /\ batch[t].last <= Len(log[batch[t].part])
  BY CurrentType DEF IInv, Consuming, BatchesInLog
<1>2. batch[t].next <= batch[t].last + 1
  BY DEF CInv, CursorOK
<1>3. ASSUME NEW p \in Partitions, NEW i \in Nat,
             p = batch[t].part, i \in 1..(batch[t].next - 1)
      PROVE  SkippedOrEvaluated(p, i)'
  <2>1. i \in 1..Len(log[p])
    BY <1>1, <1>2, <1>3, LogGrows DEF Batch
  <2>2. SkippedOrEvaluated(p, i)
    BY <1>3 DEF CInv, CursorOK
  <2> QED BY <2>1, <2>2, EvaluatedStays
<1> QED BY <1>2, <1>3

\* A thread no step touches.
LEMMA OtherThreads ==
  ASSUME IInv, CInv, [Next]_vars, NEW t \in Threads,
         batch'[t] = batch[t], pc'[t] = pc[t], rule'[t] = rule[t], raising'[t] = raising[t]
  PROVE  CursorOK(t)' /\ RuleOK(t)'
<1>1. CursorOK(t)'
  <2>1. CASE Busy(t)
    BY <2>1, BehindStays DEF CursorOK, Busy
  <2>2. CASE ~Busy(t)
    BY <2>2 DEF CursorOK, Busy
  <2> QED BY <2>1, <2>2
<1>2. RuleOK(t)'
  <2>1. CurrentRecord(t)' = CurrentRecord(t)
    BY DEF CurrentRecord
  <2>2. pc[t] # "deliver" => Current(t)' = Current(t)
    <3> SUFFICES ASSUME pc[t] # "deliver" PROVE Current(t)' = Current(t)
      OBVIOUS
    <3>1. batch[t].part \in Partitions /\ batch[t].next \in 1..Len(log[batch[t].part])
      BY CurrentType DEF IInv, Consuming, InEvaluate, Delivering, Batch
    <3> QED BY <3>1, LogGrows DEF Current
  <2>3. ASSUME NEW r, r = CurrentRecord(t), Noticed(r, "LATENCY_HIGH")
        PROVE  Noticed(CurrentRecord(t), "LATENCY_HIGH")'
    <3>1. Noticed(r, "LATENCY_HIGH")'
      BY <2>3, NoticedStays
    <3> QED BY <2>1, <2>3, <3>1 DEF Noticed
  <2> QED BY <2>1, <2>2, <2>3 DEF CInv, RuleOK
<1> QED BY <1>1, <1>2
\* A thread that goes on to the next record has evaluated the current one.
LEMMA CursorMoves ==
  ASSUME IInv, CInv, [Next]_vars, NEW t \in Threads, Delivering(t), NextRecord(t),
         NEW p \in Partitions, NEW n \in Nat, p = batch[t].part, n = batch[t].next,
         SkippedOrEvaluated(p, n)'
  PROVE  CursorOK(t)'
<1>1. batch[t] \in Batch /\ batch[t].next <= batch[t].last
  BY CurrentType DEF IInv, Delivering
<1>2. /\ batch'[t].part = p /\ batch'[t].next = n + 1 /\ batch'[t].last = batch[t].last
  BY <1>1 DEF NextRecord, IInv, Consuming, TypeOK, Batch
<1>3. \A i \in Nat : i \in 1..(n - 1) => SkippedOrEvaluated(p, i)'
  BY BehindStays DEF Delivering
<1>4. \A i \in 1..n : i \in Nat /\ (i \in 1..(n - 1) \/ i = n)
  OBVIOUS
<1>5. n + 1 <= batch[t].last + 1 /\ (n + 1) - 1 = n
  BY <1>1 DEF Batch
<1> QED BY <1>2, <1>3, <1>4, <1>5 DEF CursorOK

\* The rules of the current record are done with when the last one is.
LEMMA LastRuleEvaluates ==
  ASSUME IInv, CInv, [Next]_vars, NEW t \in Threads, pc[t] # "deliver", rule[t] # "LATENCY_HIGH",
         NEW p \in Partitions, NEW n \in Nat, p = batch[t].part, n = batch[t].next,
         "ERROR_RATE_HIGH" \in Current(t).breaches => Noticed(<<p, n>>, "ERROR_RATE_HIGH")'
  PROVE  SkippedOrEvaluated(p, n)'
<1>1. Current(t) \in Aggregations /\ n \in 1..Len(log[p]) /\ Current(t) = log[p][n]
  BY CurrentType DEF IInv, Consuming, InEvaluate, Delivering, Current
<1>2. log'[p][n] = log[p][n]
  BY <1>1, LogGrows
<1>3. rule[t] = "ERROR_RATE_HIGH"
  BY DEF IInv, Consuming, TypeOK, AlertTypes
<1>4. "LATENCY_HIGH" \in Current(t).breaches => Noticed(<<p, n>>, "LATENCY_HIGH")'
  BY <1>3, NoticedStays DEF CInv, RuleOK, CurrentRecord
<1>5. Current(t).breaches \subseteq AlertTypes
  BY <1>1, ConstantTypes
<1>6. \A y \in log[p][n].breaches : Noticed(<<p, n>>, y)'
  BY <1>1, <1>4, <1>5 DEF AlertTypes
<1>7. (\A y \in log'[p][n].breaches : Noticed(<<p, n>>, y)') => SkippedOrEvaluated(p, n)'
  BY DEF SkippedOrEvaluated
<1> QED BY <1>2, <1>6, <1>7

\* A thread that is done with the current rule.
LEMMA RuleMoves ==
  ASSUME IInv, CInv, [Next]_vars, NEW t \in Threads, pc[t] # "deliver", NextRule(t),
         NEW p \in Partitions, NEW n \in Nat, p = batch[t].part, n = batch[t].next,
         NEW y \in AlertTypes, y = rule[t],
         y \in Current(t).breaches => Noticed(<<p, n>>, y)'
  PROVE  CursorOK(t)' /\ RuleOK(t)'
<1>1. Delivering(t)
  BY DEF IInv, Consuming, InEvaluate
<1>2. CASE rule[t] = "LATENCY_HIGH"
  <2>1. /\ batch' = batch /\ pc'[t] = "check" /\ rule'[t] = "ERROR_RATE_HIGH"
    BY <1>2 DEF NextRule, IInv, Consuming, TypeOK
  <2>2. CursorOK(t)'
    BY <1>1, <2>1, BehindStays DEF CursorOK, Busy, Delivering
  <2>3. Current(t)' = Current(t) /\ CurrentRecord(t)' = <<p, n>>
    <3>1. n \in 1..Len(log[p])
      BY <1>1, CurrentType DEF IInv, Delivering
    <3> QED BY <2>1, <3>1, LogGrows DEF Current, CurrentRecord
  <2>4. y \in Current(t).breaches => Noticed(CurrentRecord(t), y)'
    BY <2>3 DEF Noticed
  <2> QED BY <1>2, <2>1, <2>2, <2>3, <2>4 DEF RuleOK, Sending
<1>3. CASE rule[t] # "LATENCY_HIGH"
  <2>1. NextRecord(t)
    BY <1>3 DEF NextRule
  <2>2. SkippedOrEvaluated(p, n)'
    BY <1>3, LastRuleEvaluates DEF AlertTypes
  <2>3. pc'[t] = "deliver"
    BY <1>1, <2>1, NextRecordMoves DEF IInv
  <2> QED BY <1>1, <2>1, <2>2, <2>3, CursorMoves DEF RuleOK, Sending
<1> QED BY <1>2, <1>3

\* The owner stays ahead in every step that commits nothing and moves no partition.
LEMMA OwnersStay ==
  ASSUME IInv, CInv, NEW t \in Threads, UNCHANGED <<committed, owner>>,
         \/ batch'[t] = batch[t]
         \/ Delivering(t) /\ NextRecord(t)
  PROVE  OwnerOK(t)'
<1>1. CASE batch'[t] = batch[t]
  BY <1>1 DEF CInv, OwnerOK, Busy
<1>2. CASE Delivering(t) /\ NextRecord(t)
  <2>1. batch[t] \in Batch /\ committed[batch[t].part] \in Nat
    BY <1>2, CurrentType DEF IInv, Consuming, TypeOK, Delivering, Batch
  <2>2. batch'[t].part = batch[t].part /\ batch'[t].next = batch[t].next + 1
    BY <1>2, <2>1 DEF NextRecord, IInv, Consuming, TypeOK, Batch
  <2>3. owner[batch[t].part] = t => committed[batch[t].part] <= batch[t].next - 1
    BY <1>2 DEF CInv, OwnerOK, Delivering
  <2> QED BY <2>1, <2>2, <2>3 DEF OwnerOK, Batch
<1> QED BY <1>1, <1>2
\* A thread in evaluate() sends the alert of the current rule and record.
LEMMA AlertIsOfRecord ==
  ASSUME IInv, CInv, [Next]_vars, NEW t \in Threads,
         CheckFires(t) \/ SendSlack(t) \/ SendEmail(t)
  PROVE  RuleOK(t)'
<1>1. /\ batch' = batch /\ rule' = rule
      /\ pc[t] # "deliver"
      /\ raising'[t].record = CurrentRecord(t) /\ raising'[t].type = rule[t]
  <2>1. CASE CheckFires(t)
    BY <2>1 DEF CheckFires, Checking, IInv, Consuming, TypeOK
  <2>2. ASSUME NEW channel \in Channels, NEW next \in {"email", "stamp"}, TryChannel(t, channel, next)
        PROVE  /\ batch' = batch /\ rule' = rule
               /\ pc[t] # "deliver"
               /\ raising'[t].record = CurrentRecord(t) /\ raising'[t].type = rule[t]
    <3>1. pc[t] \in Sending
      BY <2>2 DEF TryChannel, Channels, Sending
    <3>2. raising[t] \in AlertType
      BY <3>1, RaisedType
    <3>3. raising'[t] = [raising[t] EXCEPT !.tried = @ \cup {channel}]
      BY <2>2 DEF TryChannel, Progress, IInv, Consuming, TypeOK
    <3>4. raising'[t].record = raising[t].record /\ raising'[t].type = raising[t].type
      BY <3>2, <3>3 DEF AlertType
    <3> QED BY <2>2, <3>1, <3>4 DEF TryChannel, CInv, RuleOK, Sending
  <2> QED BY <2>1, <2>2 DEF SendSlack, SendEmail, AfterSlack, Channels
<1>2. batch[t].part \in Partitions /\ batch[t].next \in 1..Len(log[batch[t].part])
  BY <1>1, CurrentType DEF IInv, Consuming, InEvaluate, Delivering, Batch
<1>3. Current(t)' = Current(t) /\ CurrentRecord(t)' = CurrentRecord(t)
  BY <1>1, <1>2, LogGrows DEF Current, CurrentRecord
<1>4. ASSUME NEW r, r = CurrentRecord(t), Noticed(r, "LATENCY_HIGH")
      PROVE  Noticed(CurrentRecord(t), "LATENCY_HIGH")'
  <2>1. Noticed(r, "LATENCY_HIGH")'
    BY <1>4, NoticedStays
  <2> QED BY <1>3, <1>4, <2>1 DEF Noticed
<1> QED BY <1>1, <1>3, <1>4 DEF CInv, RuleOK

\* A thread that ends the check of a rule has acted upon its breach.
LEMMA RuleIsDone ==
  ASSUME IInv, CInv, [Next]_vars, NEW t \in Threads,
         CheckOk(t) \/ CheckSuppressed(t) \/ StartCooldown(t)
  PROVE  CursorOK(t)' /\ RuleOK(t)'
<1>1. pc[t] # "deliver" /\ NextRule(t)
  BY DEF CheckOk, CheckSuppressed, StartCooldown, Checking
<1>2. Delivering(t) /\ batch[t] \in Batch
  BY <1>1, CurrentType DEF IInv, Consuming, InEvaluate, Delivering
<1>3. PICK p \in Partitions, n \in Nat, y \in AlertTypes :
         p = batch[t].part /\ n = batch[t].next /\ y = rule[t]
  BY <1>2 DEF Batch, IInv, Consuming, TypeOK
<1>4. CASE CheckOk(t)
  BY <1>1, <1>3, <1>4, RuleMoves DEF CheckOk, Breached
<1>5. CASE CheckSuppressed(t)
  <2> DEFINE new == [key |-> Current(t).key, type |-> rule[t], record |-> CurrentRecord(t),
                     at |-> now, epoch |-> epoch]
  <2>1. new \in suppressed' /\ new.record = <<p, n>> /\ new.type = y
    BY <1>3, <1>5 DEF CheckSuppressed, CurrentRecord
  <2>2. Noticed(<<p, n>>, y)'
    BY <2>1 DEF Noticed
  <2> QED BY <1>1, <1>3, <2>2, RuleMoves
<1>6. CASE StartCooldown(t)
  <2>1. pc[t] = "stamp" /\ pc[t] \in Sending
    BY <1>6 DEF StartCooldown, Sending
  <2> DEFINE new == [raising[t] EXCEPT !.stamped = now]
  <2>2. raising[t] \in AlertType /\ raising[t].tried = Channels /\ now # NoTime
    BY <2>1, RaisedType, Times, ConstantTypes DEF IInv, Alerting, RaisingOK
  <2>3. new.record = <<p, n>> /\ new.type = y /\ new.tried = Channels /\ new.stamped # NoTime
    BY <1>3, <2>1, <2>2 DEF AlertType, CInv, RuleOK, CurrentRecord
  <2>4. new \in alerts'
    BY <1>6 DEF StartCooldown
  <2>5. Noticed(<<p, n>>, y)'
    BY <2>3, <2>4 DEF Noticed
  <2> QED BY <1>1, <1>3, <2>5, RuleMoves
<1> QED BY <1>4, <1>5, <1>6

\* Only thread t moves in a step of its evaluation.
LEMMA OthersWait ==
  ASSUME IInv, NEW t \in Threads,
         SkipRecord(t) \/ Evaluate(t) \/ CheckOk(t) \/ CheckSuppressed(t) \/ CheckFires(t)
           \/ SendSlack(t) \/ SendEmail(t) \/ StartCooldown(t)
  PROVE  /\ UNCHANGED <<log, committed, owner>>
         /\ batch'[t] = batch[t] \/ (Delivering(t) /\ NextRecord(t))
         /\ \A u \in Threads \ {t} : /\ batch'[u] = batch[u] /\ pc'[u] = pc[u]
                                     /\ rule'[u] = rule[u] /\ raising'[u] = raising[u]
<1>1. pc[t] # "deliver" => Delivering(t)
  BY DEF IInv, Consuming, InEvaluate
<1>2. /\ batch \in [Threads -> Batch \cup {NoBatch}] /\ raising \in [Threads -> AlertType \cup {NoAlert}]
      /\ pc \in [Threads -> {"deliver", "check", "slack", "email", "stamp"}]
      /\ rule \in [Threads -> AlertTypes]
  BY DEF IInv, Consuming, TypeOK
<1>3. UNCHANGED <<log, committed, owner>>
  BY DEF SkipRecord, Evaluate, CheckOk, CheckSuppressed, CheckFires, SendSlack, SendEmail, TryChannel,
         StartCooldown, consumerVars
<1>4. CASE SkipRecord(t)
  BY <1>2, <1>3, <1>4 DEF SkipRecord, NextRecord
<1>5. CASE CheckOk(t) \/ CheckSuppressed(t) \/ StartCooldown(t)
  <2>1. pc[t] # "deliver" /\ NextRule(t)
    BY <1>5 DEF CheckOk, CheckSuppressed, StartCooldown, Checking
  <2>2. \A u \in Threads \ {t} : raising'[u] = raising[u]
    BY <1>2, <1>5 DEF CheckOk, CheckSuppressed, StartCooldown
  <2> QED BY <1>1, <1>2, <1>3, <2>1, <2>2 DEF NextRule, NextRecord
<1>6. CASE Evaluate(t) \/ CheckFires(t) \/ SendSlack(t) \/ SendEmail(t)
  BY <1>2, <1>3, <1>6 DEF Evaluate, CheckFires, SendSlack, SendEmail, TryChannel, Progress
<1> QED BY <1>4, <1>5, <1>6

\* A step inside evaluate().
LEMMA EvaluationKeeps ==
  ASSUME IInv, CInv, [Next]_vars, NEW t \in Threads,
         SkipRecord(t) \/ Evaluate(t) \/ CheckOk(t) \/ CheckSuppressed(t) \/ CheckFires(t)
           \/ SendSlack(t) \/ SendEmail(t) \/ StartCooldown(t)
  PROVE  CInv'
<1>1. CommittedAreEvaluated'
  BY OthersWait, CommittedStay
<1>2. \A u \in Threads \ {t} : CursorOK(u)' /\ RuleOK(u)'
  BY OthersWait, OtherThreads
<1>3. \A u \in Threads : OwnerOK(u)'
  BY OthersWait, OwnersStay
<1>4. CursorOK(t)' /\ RuleOK(t)'
  <2>1. CASE SkipRecord(t)
    <3>1. Delivering(t) /\ NextRecord(t) /\ batch[t] \in Batch /\ pc'[t] = "deliver"
      BY <2>1, CurrentType, NextRecordMoves DEF SkipRecord, IInv, Delivering
    <3>2. PICK p \in Partitions, n \in Nat : p = batch[t].part /\ n = batch[t].next
      BY <3>1 DEF Batch
    <3>3. n \in 1..Len(log[p]) /\ SkippedOrEvaluated(p, n)
      BY <2>1, <3>1, <3>2, CurrentType DEF SkipRecord, SkippedOrEvaluated, Current, IInv, Delivering
    <3>4. SkippedOrEvaluated(p, n)'
      BY <3>3, EvaluatedStays
    <3>5. CursorOK(t)'
      BY <3>1, <3>2, <3>4, CursorMoves
    <3> QED BY <3>1, <3>5 DEF RuleOK, Sending
  <2>2. CASE Evaluate(t)
    <3>1. batch' = batch /\ rule'[t] = "LATENCY_HIGH" /\ pc'[t] = "check"
      BY <2>2 DEF Evaluate, IInv, Consuming, TypeOK
    <3>2. CursorOK(t)'
      BY <2>2, <3>1, BehindStays DEF CursorOK, Busy, Evaluate, Delivering
    <3> QED BY <3>1, <3>2 DEF RuleOK, Sending
  <2>3. CASE CheckOk(t) \/ CheckSuppressed(t) \/ StartCooldown(t)
    BY <2>3, RuleIsDone
  <2>4. CASE CheckFires(t) \/ SendSlack(t) \/ SendEmail(t)
    <3>1. Busy(t) /\ batch' = batch
      BY <2>4 DEF CheckFires, SendSlack, SendEmail, TryChannel, Checking, IInv, Consuming, InEvaluate,
                  Delivering
    <3>2. CursorOK(t)'
      BY <3>1, BehindStays DEF CursorOK
    <3> QED BY <2>4, <3>2, AlertIsOfRecord
  <2> QED BY <2>1, <2>2, <2>3, <2>4
<1> QED BY <1>1, <1>2, <1>3, <1>4 DEF CInv
\* Each step keeps what the contract rests on.
LEMMA ContractSteps ==
  ASSUME IInv, CInv, [Next]_vars
  PROVE  CInv'
<1>0. /\ committed \in [Partitions -> Nat] /\ owner \in [Partitions -> Threads]
      /\ batch \in [Threads -> Batch \cup {NoBatch}]
  BY DEF IInv, Consuming, TypeOK
<1>1. CASE UNCHANGED <<committed, owner, batch, pc, rule, raising>>
  BY <1>1, CommittedStay, OtherThreads, OwnersStay DEF CInv
<1>2. ASSUME NEW t \in Threads, NEW p \in Partitions, Poll(t, p)
      PROVE  CInv'
  <2>1. PICK n \in 1..MaxPoll :
           /\ committed[p] + n <= Len(log[p])
           /\ batch' = [batch EXCEPT ![t] = [part |-> p, next |-> committed[p] + 1,
                                             last |-> committed[p] + n]]
    BY <1>2 DEF Poll
  <2>2. /\ batch'[t] = [part |-> p, next |-> committed[p] + 1, last |-> committed[p] + n]
        /\ \A u \in Threads \ {t} : batch'[u] = batch[u]
        /\ UNCHANGED <<committed, owner, log, pc, rule, raising>>
        /\ committed[p] \in Nat /\ n \in Nat /\ n >= 1
    BY <1>0, <1>2, <2>1, ConstantTypes DEF Poll, consumerVars
  <2>3. pc[t] = "deliver"
    BY <1>2 DEF Poll, IInv, Consuming, InEvaluate, Delivering
  <2>4. CursorOK(t)'
    <3>1. \A i \in 1..committed[p] : i \in 1..Len(log[p]) /\ SkippedOrEvaluated(p, i)
      BY <2>1, <2>2, LogGrows DEF CInv, CommittedAreEvaluated
    <3>2. \A i \in 1..committed[p] : SkippedOrEvaluated(p, i)'
      BY <3>1, EvaluatedStays
    <3> QED BY <2>2, <3>2 DEF CursorOK
  <2>5. OwnerOK(t)' /\ RuleOK(t)'
    BY <2>2, <2>3 DEF OwnerOK, RuleOK, Sending
  <2>6. ASSUME NEW u \in Threads \ {t}
        PROVE  CursorOK(u)' /\ OwnerOK(u)' /\ RuleOK(u)'
    BY <2>2, OtherThreads, OwnersStay
  <2> QED BY <2>2, <2>4, <2>5, <2>6, CommittedStay DEF CInv
<1>3. ASSUME NEW t \in Threads, Commit(t)
      PROVE  CInv'
  <2> DEFINE p == batch[t].part
             n == batch[t].next - 1
  <2>1. /\ batch[t] \in Batch /\ p \in Partitions /\ n \in Nat /\ n <= Len(log[p])
        /\ UNCHANGED <<log, owner, pc, rule, raising>>
        /\ batch'[t] = NoBatch /\ \A u \in Threads \ {t} : batch'[u] = batch[u]
    BY <1>0, <1>3, CurrentType DEF Commit, IInv, Consuming, BatchesInLog, CInv, CursorOK, Batch
  <2>2. pc[t] = "deliver"
    BY <1>3 DEF Commit, IInv, Consuming, InEvaluate
  <2>3. \A i \in 1..n : SkippedOrEvaluated(p, i)
    BY <1>3, <2>1 DEF Commit, CInv, CursorOK
  <2>4. committed' = committed \/ (owner[p] = t /\ committed' = [committed EXCEPT ![p] = n])
    BY <1>3 DEF Commit, CommitAccepted
  <2>5. CommittedAreEvaluated'
    <3>1. CASE committed' = committed
      BY <3>1, CommittedStay
    <3>2. CASE owner[p] = t /\ committed' = [committed EXCEPT ![p] = n]
      <4>1. ASSUME NEW q \in Partitions
            PROVE  /\ committed'[q] \in Nat /\ committed'[q] <= Len(log[q])
                   /\ \A i \in 1..committed'[q] : SkippedOrEvaluated(q, i)
        BY <1>0, <2>1, <2>3, <3>2 DEF CInv, CommittedAreEvaluated
      <4>2. ASSUME NEW q \in Partitions, NEW i \in 1..committed'[q]
            PROVE  SkippedOrEvaluated(q, i)'
        <5>1. i \in 1..Len(log[q]) /\ SkippedOrEvaluated(q, i)
          BY <4>1, LogGrows
        <5> QED BY <5>1, EvaluatedStays
      <4> QED BY <2>1, <4>1, <4>2 DEF CommittedAreEvaluated
    <3> QED BY <2>4, <3>1, <3>2
  <2>6. CursorOK(t)' /\ OwnerOK(t)' /\ RuleOK(t)'
    BY <2>1, <2>2 DEF CursorOK, OwnerOK, RuleOK, Busy, Sending
  <2>7. ASSUME NEW u \in Threads \ {t}
        PROVE  CursorOK(u)' /\ OwnerOK(u)' /\ RuleOK(u)'
    <3>1. CursorOK(u)' /\ RuleOK(u)'
      BY <2>1, OtherThreads
    <3>2. OwnerOK(u)'
      BY <1>0, <2>1, <2>4, CurrentType DEF CInv, OwnerOK, Busy, IInv, Batch
    <3> QED BY <3>1, <3>2
  <2> QED BY <2>5, <2>6, <2>7 DEF CInv
<1>4. ASSUME NEW t \in Threads, NEW p \in Partitions, Rebalance(t, p)
      PROVE  CInv'
  <2>1. /\ UNCHANGED <<committed, batch, pc, rule, raising>> /\ batch[t] = NoBatch
        /\ \A q \in Partitions : owner'[q] = owner[q] \/ owner'[q] = t
    BY <1>0, <1>4 DEF Rebalance, Busy
  <2>2. \A u \in Threads : CursorOK(u)' /\ RuleOK(u)'
    BY <2>1, OtherThreads
  <2>3. \A u \in Threads : OwnerOK(u)'
    BY <2>1, CurrentType DEF CInv, OwnerOK, Busy, IInv, Batch
  <2> QED BY <2>1, <2>2, <2>3, CommittedStay DEF CInv
<1>5. CASE Restart
  BY <1>5, CommittedStay DEF Restart, CInv, CursorOK, OwnerOK, RuleOK, Busy, Sending
<1>6. ASSUME NEW t \in Threads, Listen(t)
      PROVE  CInv'
  BY <1>3, <1>6, EvaluationKeeps DEF Listen
<1> QED BY <1>1, <1>2, <1>4, <1>5, <1>6
        DEF Next, vars, Tick, Publish, consumerVars
\* What the contract rests on is inductive too.
THEOREM ContractInductive == Spec => []CInv
<1>1. Init => CInv
  BY DEF Init, CInv, CommittedAreEvaluated, CursorOK, OwnerOK, RuleOK, Busy, Sending
<1>2. IInv /\ CInv /\ [Next]_vars => CInv'
  BY ContractSteps
<1> QED BY <1>1, <1>2, Inductive, PTL DEF Spec

\* The refinement mapping of Group (in module AlertService), named.
lengthBar == [p \in Partitions |-> Len(log[p])]

settledBar == {r \in Partitions \X (1..MaxLog) :
                  r[2] <= Len(log[r[1]]) /\ SkippedOrEvaluated(r[1], r[2])}

LogBounded == \A p \in Partitions : Len(log[p]) <= MaxLog

\* An aggregation published is one more record of its partition.
LEMMA PublishAppends ==
  ASSUME IInv, NEW p \in Partitions, NEW a \in Aggregations \cup Invalid, Publish(p, a)
  PROVE  /\ Len(log'[p]) = Len(log[p]) + 1 /\ Len(log[p]) < MaxLog
         /\ \A q \in Partitions \ {p} : log'[q] = log[q]
         /\ UNCHANGED <<committed, alerts, suppressed>>
<1>1. log \in [Partitions -> Seq(Aggregations \cup Invalid)]
  BY DEF IInv, Consuming, TypeOK
<1>2. log'[p] = Append(log[p], a)
  BY <1>1 DEF Publish
<1> QED BY <1>1, <1>2 DEF Publish

\* The bound on the topic, which the mapping names.
THEOREM LogIsBounded == Spec => []LogBounded
<1>1. Init => LogBounded
  BY AlertAssumption DEF Init, LogBounded
<1>2. IInv /\ LogBounded /\ [Next]_vars => LogBounded'
  <2> SUFFICES ASSUME IInv, LogBounded, [Next]_vars
               PROVE  LogBounded'
    OBVIOUS
  <2>1. ASSUME NEW p \in Partitions, NEW a \in Aggregations \cup Invalid, Publish(p, a)
        PROVE  LogBounded'
    <3>1. Len(log[p]) \in Nat /\ MaxLog \in Nat
      BY LogGrows, AlertAssumption
    <3> QED BY <2>1, <3>1, PublishAppends DEF LogBounded
  <2>2. CASE UNCHANGED log
    BY <2>2 DEF LogBounded
  <2> QED BY <2>1, <2>2
          DEF Next, Listen, vars, Tick, Poll, SkipRecord, Evaluate, CheckOk, CheckSuppressed, CheckFires,
              SendSlack, SendEmail, TryChannel, StartCooldown, Commit, Rebalance, Restart, consumerVars
<1> QED BY <1>1, <1>2, Inductive, PTL DEF Spec

\* A record is settled under the mapping exactly when it is evaluated.
LEMMA SettledIsEvaluated ==
  ASSUME IInv, LogBounded, NEW p \in Partitions, NEW i \in Nat
  PROVE  <<p, i>> \in settledBar <=> i \in 1..Len(log[p]) /\ SkippedOrEvaluated(p, i)
<1>1. Len(log[p]) \in Nat /\ Len(log[p]) <= MaxLog
  BY DEF IInv, Consuming, TypeOK, LogBounded
<1> QED BY <1>1, AlertAssumption DEF settledBar

\* Settled records stay settled.
LEMMA SettledGrows ==
  ASSUME IInv, LogBounded, [Next]_vars
  PROVE  settledBar \subseteq settledBar'
<1> SUFFICES ASSUME NEW p \in Partitions, NEW i \in 1..MaxLog, <<p, i>> \in settledBar
             PROVE  <<p, i>> \in settledBar'
  BY DEF settledBar
<1>1. i \in 1..Len(log[p]) /\ SkippedOrEvaluated(p, i)
  BY SettledIsEvaluated, AlertAssumption
<1>2. i <= Len(log'[p]) /\ SkippedOrEvaluated(p, i)'
  BY <1>1, LogGrows, EvaluatedStays
<1> QED BY <1>2 DEF settledBar

\* A published aggregation maps to the arrival of one record, which is settled
\* at once if it needs nothing.
LEMMA PublishArrives ==
  ASSUME IInv, LogBounded, LogBounded', [Next]_vars,
         NEW p \in Partitions, NEW a \in Aggregations \cup Invalid, Publish(p, a)
  PROVE  Group!Arrive(p)
<1> DEFINE new == <<p, Len(log[p]) + 1>>
<1>1. lengthBar' = [lengthBar EXCEPT ![p] = @ + 1] /\ lengthBar[p] = Len(log[p])
  BY PublishAppends DEF lengthBar
<1>2. ASSUME NEW q \in Partitions, NEW i \in 1..MaxLog,
             <<q, i>> \in settledBar', <<q, i>> # new
      PROVE  <<q, i>> \in settledBar
  <2>1. i <= Len(log'[q]) /\ SkippedOrEvaluated(q, i)'
    BY <1>2 DEF settledBar
  <2>2. i \in 1..Len(log[q]) /\ log'[q][i] = log[q][i]
    BY <1>2, <2>1, LogGrows, PublishAppends, AlertAssumption
  <2>3. SkippedOrEvaluated(q, i)
    BY <2>1, <2>2, PublishAppends DEF SkippedOrEvaluated, Noticed
  <2> QED BY <2>2, <2>3 DEF settledBar
<1>3. settledBar' \subseteq settledBar \cup {new}
  <2> SUFFICES ASSUME NEW r \in settledBar', r # new
               PROVE  r \in settledBar
    OBVIOUS
  <2>1. PICK q \in Partitions, i \in 1..MaxLog : r = <<q, i>>
    BY DEF settledBar
  <2> QED BY <2>1, <1>2
<1>4. settledBar' = settledBar \/ settledBar' = settledBar \cup {new}
  BY <1>3, SettledGrows
<1> QED BY <1>1, <1>4, PublishAppends DEF Group!Arrive, lengthBar, settledBar

\* A commit maps to a jump of the offset over settled records, or to a stutter.
LEMMA CommitJumps ==
  ASSUME IInv, CInv, LogBounded, NEW t \in Threads, Commit(t)
  PROVE  \/ UNCHANGED <<log, committed, alerts, suppressed>>
         \/ \E p \in Partitions : \E n \in 0..lengthBar[p] : Group!CommitTo(p, n)
<1> DEFINE p == batch[t].part
           n == batch[t].next - 1
<1>1. Busy(t) /\ UNCHANGED <<log, alerts, suppressed>>
  BY DEF Commit
<1>2. CASE ~CommitAccepted(t)
  BY <1>1, <1>2 DEF Commit
<1>3. CASE CommitAccepted(t)
  <2>1. p \in Partitions /\ n \in Nat /\ n <= Len(log[p]) /\ Len(log[p]) \in Nat
    BY <1>1, CurrentType DEF IInv, Consuming, BatchesInLog, TypeOK, CInv, CursorOK, Batch
  <2>2. committed[p] <= n
    BY <1>1, <1>3 DEF CommitAccepted, CInv, OwnerOK
  <2>3. \A i \in 1..n : <<p, i>> \in settledBar
    <3> SUFFICES ASSUME NEW i \in 1..n PROVE <<p, i>> \in settledBar
      OBVIOUS
    <3>1. i \in Nat /\ i \in 1..Len(log[p]) /\ SkippedOrEvaluated(p, i)
      BY <1>1, <2>1 DEF CInv, CursorOK
    <3> QED BY <2>1, <3>1, SettledIsEvaluated
  <2>4. lengthBar[p] = Len(log[p]) /\ lengthBar' = lengthBar /\ settledBar' = settledBar
    BY <1>1, <2>1 DEF lengthBar, settledBar, SkippedOrEvaluated, Noticed
  <2>5. committed' = [committed EXCEPT ![p] = n]
    BY <1>3 DEF Commit
  <2>6. Group!CommitTo(p, n) /\ n \in 0..lengthBar[p]
    BY <2>1, <2>2, <2>3, <2>4, <2>5 DEF Group!CommitTo, lengthBar, settledBar
  <2> QED BY <2>1, <2>6
<1> QED BY <1>2, <1>3

\* The alert-service implements the contract of AtLeastOnce: no readable
\* aggregation is committed of which a breach was neither alerted nor
\* suppressed, through restarts in the middle of an alert, rebalances in the
\* middle of a batch, and threads that evaluate one record at the same time.
\* An unreadable record counts as settled when it is skipped: the service has
\* no dead-letter topic to keep it.
THEOREM ImplementsContract == Spec => ImplementsAtLeastOnce
<1>1. Init => Group!AloInit
  <2> SUFFICES ASSUME Init
               PROVE  /\ lengthBar = [p \in Partitions |-> 0]
                      /\ committed = [p \in Partitions |-> 0]
                      /\ settledBar = {}
    BY DEF Group!AloInit, lengthBar, settledBar
  <2>1. settledBar = {}
    BY AlertAssumption DEF Init, settledBar
  <2> QED BY <2>1 DEF Init, lengthBar
<1>2. IInv /\ CInv /\ LogBounded /\ LogBounded' /\ [Next]_vars => [Group!AloNext]_(Group!aloVars)
  <2> SUFFICES ASSUME IInv, CInv, LogBounded, LogBounded', [Next]_vars
               PROVE  \/ Group!AloNext
                      \/ UNCHANGED <<lengthBar, committed, settledBar>>
    BY DEF Group!aloVars, lengthBar, settledBar
  <2>1. ASSUME NEW p \in Partitions, NEW a \in Aggregations \cup Invalid, Publish(p, a)
        PROVE  Group!AloNext
    BY <2>1, PublishArrives DEF Group!AloNext
  <2>2. CASE UNCHANGED <<log, committed, alerts, suppressed>>
    BY <2>2 DEF lengthBar, settledBar, SkippedOrEvaluated, Noticed
  <2>3. ASSUME NEW t \in Threads, Commit(t)
        PROVE  \/ Group!AloNext
               \/ UNCHANGED <<log, committed, alerts, suppressed>>
    BY <2>3, CommitJumps DEF Group!AloNext, lengthBar
  <2>4. CASE UNCHANGED <<log, committed>>
    <3>1. settledBar \subseteq settledBar' /\ lengthBar' = lengthBar
      BY <2>4, SettledGrows DEF lengthBar
    <3>2. ASSUME NEW r \in settledBar'
          PROVE  r[1] \in Partitions /\ r[2] \in 1..lengthBar[r[1]]
      <4>1. r[1] \in Partitions /\ r[2] \in 1..MaxLog /\ r[2] <= Len(log[r[1]])
        BY <2>4 DEF settledBar
      <4> QED BY <4>1, LogGrows, AlertAssumption DEF lengthBar
    <3>3. Group!Settle
      BY <2>4, <3>1, <3>2 DEF Group!Settle, lengthBar, settledBar
    <3> QED BY <3>3 DEF Group!AloNext
  <2> QED BY <2>1, <2>2, <2>3, <2>4
          DEF Next, Listen, vars, Tick, Poll, SkipRecord, Evaluate, CheckOk, CheckSuppressed, CheckFires,
              SendSlack, SendEmail, TryChannel, StartCooldown, Rebalance, Restart, consumerVars
<1> QED BY <1>1, <1>2, Inductive, ContractInductive, LogIsBounded, PTL
        DEF Spec, ImplementsAtLeastOnce, Group!AloSpec
=============================================================================
