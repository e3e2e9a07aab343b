---------------------------- MODULE AlertService ----------------------------
(***************************************************************************)
(* The alert-service: listener threads of one process consume the topic    *)
(* analytics-events and evaluate each aggregation: first the latency rule, *)
(* then the error-rate rule.  A breached rule whose key is not cooling     *)
(* down sends a notification to Slack and by email and only then enters    *)
(* the time into the shared map lastAlertTime.                             *)
(*                                                                         *)
(* Time is counted in ticks.  Severity and wording of a notification are   *)
(* left out: nothing in the service depends on them.                       *)
(***************************************************************************)
EXTENDS Naturals, Sequences, FiniteSets

CONSTANTS
  Partitions,     \* partitions of analytics-events
  Threads,        \* listener threads (concurrency 2)
  Keys,           \* "tenantId|endpoint"
  PartitionOf,    \* PartitionOf[k]: where the tenant of k is sent
  Aggregations,   \* the payloads, records of AggregationType or Invalid
  Invalid,        \* payloads that do not deserialize
  Cooldown,       \* cooldown-minutes
  NoBatch,        \* value of batch[t] while t is inside poll()
  NoTime,         \* "never", for lastAlertTime and stamped
  NoAlert,        \* value of raising[t] while t sends nothing
  MaxPoll,        \* max.poll.records
  MaxTime,        \* bound: ticks
  MaxLog,         \* bound: records per partition
  MaxRestarts,    \* bound: restarts of the process
  MaxRebalances   \* bound: changes of partition ownership

AlertTypes == {"LATENCY_HIGH", "ERROR_RATE_HIGH"}
Channels == {"slack", "email"}

Batch == [part : Partitions, next : Nat \ {0}, last : Nat]

\* enough: requestCount >= minSampleSize.  breaches: the rules whose threshold
\* the aggregation exceeds.
AggregationType == [key : Keys, enough : BOOLEAN, breaches : SUBSET AlertTypes]

\* An alert: the record it is about, when the rule was checked, the channels
\* tried so far, and when its time was entered into lastAlertTime.
AlertType == [key : Keys, type : AlertTypes, record : Partitions \X Nat, at : Nat, epoch : Nat,
              thread : Threads, tried : SUBSET Channels, stamped : Nat \cup {NoTime}]

\* A breach that raised no alert.
SuppressedType == [key : Keys, type : AlertTypes, record : Partitions \X Nat, at : Nat, epoch : Nat]

ASSUME AlertAssumption ==
  /\ Cooldown \in Nat /\ MaxPoll \in Nat \ {0}
  /\ MaxTime \in Nat /\ MaxLog \in Nat /\ MaxRestarts \in Nat /\ MaxRebalances \in Nat
  /\ PartitionOf \in [Keys -> Partitions]
  /\ Aggregations \subseteq AggregationType /\ Aggregations \cap Invalid = {}
  /\ NoBatch \notin Batch
  /\ NoTime \notin Nat
  /\ NoAlert \notin AlertType

VARIABLES
  now,             \* the clock
  log,             \* log[p]: the aggregations of partition p
  committed,       \* committed[p]: records of p the group has committed
  owner,           \* owner[p]: the thread p is assigned to
  batch,           \* batch[t]: the records t still has to deliver
  pc,              \* pc[t]: where t is in evaluate()
  rule,            \* rule[t]: the rule t is checking
  raising,         \* raising[t]: the alert t is sending
  lastAlertTime,   \* lastAlertTime[k][type]: the cooldown map
  alerts,          \* history: every alert fired, with the channels tried
  suppressed,      \* history: every breach that found its key cooling down
  epoch,           \* which process is alive (restarts so far)
  rebalances       \* ownership changes so far

vars == <<now, log, committed, owner, batch, pc, rule, raising, lastAlertTime,
          alerts, suppressed, epoch, rebalances>>

consumerVars == <<log, committed, owner, epoch, rebalances>>

-----------------------------------------------------------------------------
Busy(t) == batch[t] # NoBatch

Delivering(t) == Busy(t) /\ batch[t].next <= batch[t].last

Current(t) == log[batch[t].part][batch[t].next]

CurrentRecord(t) == <<batch[t].part, batch[t].next>>

\* Operators named ..._Mut... are plausible bugs, used by no action.

\* The cooldown ends one tick early.
IsCooledDown_MutInclusive(key, type) ==
  LET last == lastAlertTime[key][type]
  IN  IF last = NoTime THEN TRUE ELSE now >= last + Cooldown

\* isCooledDown: now.isAfter(last + cooldown), or no alert yet.
IsCooledDown(key, type) ==
  LET last == lastAlertTime[key][type]
  IN  IF last = NoTime THEN TRUE ELSE now > last + Cooldown

\* The record is delivered again and again.
NextRecord_MutAgain(t) == UNCHANGED batch /\ pc' = [pc EXCEPT ![t] = "deliver"]

\* The records after the current one.
NextRecord(t) == /\ batch' = [batch EXCEPT ![t].next = @ + 1]
                 /\ pc' = [pc EXCEPT ![t] = "deliver"]

\* evaluate() goes on to the error-rate rule, or returns.
NextRule(t) ==
  IF rule[t] = "LATENCY_HIGH"
  THEN /\ rule' = [rule EXCEPT ![t] = "ERROR_RATE_HIGH"]
       /\ pc' = [pc EXCEPT ![t] = "check"]
       /\ UNCHANGED batch
  ELSE NextRecord(t) /\ UNCHANGED rule

\* The entries of the key's other rule are lost.
Stamped_MutOnlyRule(a) == [lastAlertTime EXCEPT ![a.key] = [y \in {a.type} |-> now]]

\* lastAlertTime.put(alertKey, Instant.now())
Stamped(a) == [lastAlertTime EXCEPT ![a.key][a.type] = now]

-----------------------------------------------------------------------------
Init == /\ now = 0
        /\ log = [p \in Partitions |-> <<>>]
        /\ committed = [p \in Partitions |-> 0]
        /\ owner \in [Partitions -> Threads]
        /\ batch = [t \in Threads |-> NoBatch]
        /\ pc = [t \in Threads |-> "deliver"]
        /\ rule = [t \in Threads |-> "LATENCY_HIGH"]
        /\ raising = [t \in Threads |-> NoAlert]
        /\ lastAlertTime = [k \in Keys |-> [y \in AlertTypes |-> NoTime]]
        /\ alerts = {}
        /\ suppressed = {}
        /\ epoch = 0
        /\ rebalances = 0

Tick == /\ now < MaxTime
        /\ now' = now + 1
        /\ UNCHANGED <<consumerVars, batch, pc, rule, raising, lastAlertTime, alerts, suppressed>>

\* The analytics-service publishes an aggregation (or something else does).
Publish(p, a) ==
  /\ Len(log[p]) < MaxLog
  /\ a \in Aggregations => p = PartitionOf[a.key]
  /\ log' = [log EXCEPT ![p] = Append(@, a)]
  /\ UNCHANGED <<now, committed, owner, batch, pc, rule, raising, lastAlertTime,
                 alerts, suppressed, epoch, rebalances>>

\* The consumer commits what it polls (enable.auto.commit).
Poll_MutCommitsFirst(t, p) ==
  /\ owner[p] = t
  /\ ~Busy(t)
  /\ \E n \in 1..MaxPoll :
        /\ committed[p] + n <= Len(log[p])
        /\ batch' = [batch EXCEPT ![t] = [part |-> p, next |-> committed[p] + 1,
                                          last |-> committed[p] + n]]
        /\ committed' = [committed EXCEPT ![p] = @ + n]
  /\ UNCHANGED <<now, log, owner, epoch, rebalances, pc, rule, raising, lastAlertTime,
                 alerts, suppressed>>

\* poll() returns the next records of an assigned partition.
Poll(t, p) ==
  /\ owner[p] = t
  /\ ~Busy(t)
  /\ \E n \in 1..MaxPoll :
        /\ committed[p] + n <= Len(log[p])
        /\ batch' = [batch EXCEPT ![t] = [part |-> p, next |-> committed[p] + 1,
                                          last |-> committed[p] + n]]
  /\ UNCHANGED <<now, consumerVars, pc, rule, raising, lastAlertTime, alerts, suppressed>>

\* What is passed over without an evaluation.  An aggregation with too few
\* samples; and an invalid payload, which the container's default error handler
\* logs: no error handler and no dead-letter topic is configured, so nobody is
\* told and the record is gone for the group.
IsSkipped(a) == a \in Aggregations => ~a.enough

SkipRecord(t) ==
  /\ Delivering(t)
  /\ pc[t] = "deliver"
  /\ IsSkipped(Current(t))
  /\ NextRecord(t)
  /\ UNCHANGED <<now, consumerVars, rule, raising, lastAlertTime, alerts, suppressed>>

Evaluate(t) ==
  /\ Delivering(t)
  /\ pc[t] = "deliver"
  /\ ~IsSkipped(Current(t))
  /\ rule' = [rule EXCEPT ![t] = "LATENCY_HIGH"]
  /\ pc' = [pc EXCEPT ![t] = "check"]
  /\ UNCHANGED <<now, consumerVars, batch, raising, lastAlertTime, alerts, suppressed>>

Checking(t) == pc[t] = "check" /\ Delivering(t)

Breached(t) == rule[t] \in Current(t).breaches

\* The rule holds: nothing to do.
CheckOk(t) ==
  /\ Checking(t)
  /\ ~Breached(t)
  /\ NextRule(t)
  /\ UNCHANGED <<now, consumerVars, raising, lastAlertTime, alerts, suppressed>>

\* The rule is breached while its key cools down.
CheckSuppressed(t) ==
  /\ Checking(t)
  /\ Breached(t)
  /\ ~IsCooledDown(Current(t).key, rule[t])
  /\ suppressed' = suppressed \cup
        {[key |-> Current(t).key, type |-> rule[t], record |-> CurrentRecord(t),
          at |-> now, epoch |-> epoch]}
  /\ NextRule(t)
  /\ UNCHANGED <<now, consumerVars, raising, lastAlertTime, alerts>>

\* The rule is breached and its key is not cooling down: build the alert.
CheckFires(t) ==
  /\ Checking(t)
  /\ Breached(t)
  /\ IsCooledDown(Current(t).key, rule[t])
  /\ LET a == [key |-> Current(t).key, type |-> rule[t], record |-> CurrentRecord(t),
               at |-> now, epoch |-> epoch, thread |-> t, tried |-> {}, stamped |-> NoTime]
     IN  /\ raising' = [raising EXCEPT ![t] = a]
         /\ alerts' = alerts \cup {a}
  /\ pc' = [pc EXCEPT ![t] = "slack"]
  /\ UNCHANGED <<now, consumerVars, batch, rule, lastAlertTime, suppressed>>

Progress(t, a) == /\ alerts' = (alerts \ {raising[t]}) \cup {a}
                  /\ raising' = [raising EXCEPT ![t] = a]

\* A channel is tried.  A channel that is disabled returns at once, one that
\* fails swallows its exception: the caller cannot tell the difference.
TryChannel(t, channel, next) ==
  /\ pc[t] = channel
  /\ Progress(t, [raising[t] EXCEPT !.tried = @ \cup {channel}])
  /\ pc' = [pc EXCEPT ![t] = next]
  /\ UNCHANGED <<now, consumerVars, batch, rule, lastAlertTime, suppressed>>

\* The email is skipped when Slack has been tried.
AfterSlack_MutSkipsEmail(t) == "stamp"

AfterSlack(t) == "email"

SendSlack(t) == TryChannel(t, "slack", AfterSlack(t))
SendEmail(t) == TryChannel(t, "email", "stamp")

\* sendAlert ends by starting the cooldown, and the evaluation goes on.
StartCooldown(t) ==
  /\ pc[t] = "stamp"
  /\ lastAlertTime' = Stamped(raising[t])
  /\ alerts' = (alerts \ {raising[t]}) \cup {[raising[t] EXCEPT !.stamped = now]}
  /\ raising' = [raising EXCEPT ![t] = NoAlert]
  /\ NextRule(t)
  /\ UNCHANGED <<now, consumerVars, suppressed>>

\* A thread that lost the partition cannot move its offset.
CommitAccepted(t) == owner[batch[t].part] = t

Commit(t) ==
  /\ Busy(t)
  /\ ~Delivering(t)
  /\ committed' = IF CommitAccepted(t)
                  THEN [committed EXCEPT ![batch[t].part] = batch[t].next - 1]
                  ELSE committed
  /\ batch' = [batch EXCEPT ![t] = NoBatch]
  /\ UNCHANGED <<now, log, owner, pc, rule, raising, lastAlertTime, alerts, suppressed,
                 epoch, rebalances>>

\* Partition p moves to a thread inside poll(), for instance because its owner
\* was held too long by Slack (the RestTemplate has no timeout).  The old
\* owner goes on with its batch.
Rebalance(t, p) ==
  /\ rebalances < MaxRebalances
  /\ owner[p] # t
  /\ ~Busy(t)
  /\ owner' = [owner EXCEPT ![p] = t]
  /\ rebalances' = rebalances + 1
  /\ UNCHANGED <<now, log, committed, batch, pc, rule, raising, lastAlertTime, alerts,
                 suppressed, epoch>>

\* The process dies and comes back: threads and the cooldown map are empty.
Restart ==
  /\ epoch < MaxRestarts
  /\ epoch' = epoch + 1
  /\ batch' = [t \in Threads |-> NoBatch]
  /\ pc' = [t \in Threads |-> "deliver"]
  /\ rule' = [t \in Threads |-> "LATENCY_HIGH"]
  /\ raising' = [t \in Threads |-> NoAlert]
  /\ lastAlertTime' = [k \in Keys |-> [y \in AlertTypes |-> NoTime]]
  /\ UNCHANGED <<now, log, committed, owner, alerts, suppressed, rebalances>>

Listen(t) == \/ SkipRecord(t)
             \/ Evaluate(t)
             \/ CheckOk(t)
             \/ CheckSuppressed(t)
             \/ CheckFires(t)
             \/ SendSlack(t)
             \/ SendEmail(t)
             \/ StartCooldown(t)
             \/ Commit(t)

Next == \/ Tick
        \/ \E p \in Partitions, a \in Aggregations \cup Invalid : Publish(p, a)
        \/ \E t \in Threads, p \in Partitions : Poll(t, p)
        \/ \E t \in Threads : Listen(t)
        \/ \E t \in Threads, p \in Partitions : Rebalance(t, p)
        \/ Restart

Spec == Init /\ [][Next]_vars

\* Listener threads keep running (in particular, Slack and the mail server
\* answer or fail), and poll each of their partitions.
Fairness == \A t \in Threads : /\ WF_vars(Listen(t))
                               /\ \A p \in Partitions : SF_vars(Poll(t, p))

FairSpec == Spec /\ Fairness

-----------------------------------------------------------------------------
TypeOK ==
  /\ now \in Nat
  /\ log \in [Partitions -> Seq(Aggregations \cup Invalid)]
  /\ committed \in [Partitions -> Nat]
  /\ owner \in [Partitions -> Threads]
  /\ batch \in [Threads -> Batch \cup {NoBatch}]
  /\ pc \in [Threads -> {"deliver", "check", "slack", "email", "stamp"}]
  /\ rule \in [Threads -> AlertTypes]
  /\ raising \in [Threads -> AlertType \cup {NoAlert}]
  /\ lastAlertTime \in [Keys -> [AlertTypes -> Nat \cup {NoTime}]]
  /\ alerts \subseteq AlertType
  /\ suppressed \subseteq SuppressedType
  /\ epoch \in Nat
  /\ rebalances \in Nat

SameKey(a, b) == a.key = b.key /\ a.type = b.type /\ a.epoch = b.epoch

\* No alert is raised while its key cools down: once an alert's time is in the
\* map, the next alert of the same key and rule (in the life of the process)
\* is either already under way in another thread, or more than the cooldown
\* later.  Holds through rebalances, redeliveries and concurrent threads.
CooldownHolds ==
  \A a, b \in alerts : SameKey(a, b) /\ b.stamped # NoTime =>
     a.at <= b.stamped \/ a.at > b.stamped + Cooldown

\* Two alerts of one key and rule overlap only after a rebalance handed a
\* record to a second thread: as long as no listener loses its partition, any
\* two alerts of a process are more than the cooldown apart.
ApartWithoutRebalance ==
  rebalances = 0 => \A a, b \in alerts : SameKey(a, b) /\ a # b =>
     a.at > b.at + Cooldown \/ b.at > a.at + Cooldown

\* A breach is suppressed only because an alert of the same key and rule went
\* to both channels within the cooldown.
SuppressedOnlyAfterAlert ==
  \A s \in suppressed : \E a \in alerts :
     /\ SameKey(a, s)
     /\ a.tried = Channels
     /\ a.stamped # NoTime
     /\ s.at <= a.stamped + Cooldown

\* A breach of rule y in record r was acted upon: an alert about that record
\* went to both channels and is in lastAlertTime, or one was suppressed.
Noticed(r, y) ==
  \/ \E a \in alerts : a.record = r /\ a.type = y /\ a.tried = Channels /\ a.stamped # NoTime
  \/ \E s \in suppressed : s.record = r /\ s.type = y

\* The fate of record i of partition p: it is one to be skipped, or somebody
\* acted upon each of its breaches.
SkippedOrEvaluated(p, i) ==
  IsSkipped(log[p][i]) \/ \A y \in log[p][i].breaches : Noticed(<<p, i>>, y)

\* The contract of a consumer group (AtLeastOnce).  A readable record with
\* enough samples is settled once each of its breaches was alerted or
\* suppressed.  An unreadable one is settled by being skipped: here, unlike in
\* EventIngest, the contract does not say that it was kept as a dead letter.
Group == INSTANCE AtLeastOnce WITH
            length  <- [p \in Partitions |-> Len(log[p])],
            offset  <- committed,
            settled <- {r \in Partitions \X (1..MaxLog) :
                            r[2] <= Len(log[r[1]]) /\ SkippedOrEvaluated(r[1], r[2])}

\* No breach of a readable aggregation is lost between the topic and the
\* channels, and no offset goes back: a restart in the middle of an alert, a
\* rebalance in the middle of a batch and two threads at the same record leave
\* no committed aggregation whose breaches nobody acted upon.
ImplementsAtLeastOnce == Group!AloSpec

\* Every record is evaluated or skipped, and committed, in the end: an invalid
\* payload, for which there is no dead-letter topic, does not hold up what is
\* behind it in its partition.
EveryAggregationIsConsumed ==
  \A p \in Partitions : \A n \in 1..MaxLog : Len(log[p]) >= n ~> committed[p] >= n
=============================================================================
