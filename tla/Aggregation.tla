---------------------------- MODULE Aggregation ----------------------------
(***************************************************************************)
(* MetricsAggregationService.computeAndPublishAggregations: every replica  *)
(* of the analytics-service runs the scheduled job, which looks one minute *)
(* back in the shared index, groups what it finds by tenant and endpoint   *)
(* and sends one aggregation per group to the topic analytics-events.      *)
(*                                                                         *)
(* Time is counted in ticks.  Tenant ids and endpoints are sequences of    *)
(* names: the string "a|b" is the sequence <<"a", "b">>.                   *)
(***************************************************************************)
EXTENDS Naturals, Sequences, FiniteSets

CONSTANTS
  Replicas,     \* processes of the analytics-service (2 to 8 in k8s)
  Events,       \* the events of the gateway
  TenantOf,     \* TenantOf[e]: tenantId, a non-empty sequence of names
  EndpointOf,   \* EndpointOf[e]: "METHOD path", a non-empty sequence of names
  Window,       \* length of the window (one minute)
  Delay,        \* platform.aggregation.interval-ms
  MaxResult,    \* Elasticsearch's result window
  NoTime,       \* stamp[e] before e happens
  MaxRestarts,  \* bound: restarts of each replica
  MaxTime       \* bound: ticks

ASSUME AggregationAssumption ==
  /\ IsFiniteSet(Events)
  /\ Window \in Nat \ {0} /\ Delay \in Nat /\ Delay >= Window
  /\ MaxResult \in Nat /\ MaxTime \in Nat /\ MaxRestarts \in Nat
  /\ NoTime \notin Nat
  /\ TenantOf \in [Events -> Seq(STRING) \ {<<>>}]
  /\ EndpointOf \in [Events -> Seq(STRING) \ {<<>>}]

VARIABLES
  now,        \* the clock (Instant.now())
  stamp,      \* stamp[e]: the timestamp the gateway gave e
  saved,      \* the events whose documents can be searched
  pc,         \* pc[r]: where replica r is in its job
  due,        \* due[r]: when the scheduler starts the next run of r
  window,     \* window[r]: the window of the current run of r
  count,      \* count[r]: hits counted before the search
  docs,       \* docs[r]: documents found and not sent yet
  topic,      \* the aggregations in analytics-events
  epoch,      \* epoch[r]: which process of replica r is alive (its restarts)
  windows     \* history: the windows of all runs

vars == <<now, stamp, saved, pc, due, window, count, docs, topic, epoch, windows>>

-----------------------------------------------------------------------------
\* Operators named ..._Mut... are plausible bugs, used by no action (see
\* EventIngest).

\* Events stamped after the query started are counted too.
InWindow_MutOpenEnd(e, w) == stamp[e] # NoTime /\ w.start <= stamp[e]

\* findByTimestampBetween includes both ends.
InWindow(e, w) == stamp[e] # NoTime /\ w.start <= stamp[e] /\ stamp[e] <= w.end

Matching(w) == {e \in saved : InWindow(e, w)}

\* Grouping by endpoint alone.
GroupKey_MutNoTenant(e) == <<"all">> \o EndpointOf[e]

\* tenantId + "|" + endpoint
GroupKey(e) == TenantOf[e] \o EndpointOf[e]

\* The two halves of the key are swapped.
KeyTenant_MutSwapped(key) == Tail(key)

\* The halves of key.split("[|]", 2).
KeyTenant(key) == <<Head(key)>>
KeyEndpoint(key) == Tail(key)

\* The window that ends now, and begins a minute ago.
WindowNow(r) ==
  [rep |-> r, epoch |-> epoch[r], start |-> now - Window, end |-> now]

\* The next start counts from the start of this run (fixedRate).
NextDue_MutFixedRate(r) == due[r] + Delay

\* fixedDelay: the next run starts Delay after this one has ended.
NextDue(r) == now + Delay

EndRun(r) == /\ pc' = [pc EXCEPT ![r] = "idle"]
             /\ due' = [due EXCEPT ![r] = NextDue(r)]

-----------------------------------------------------------------------------
\* The clock starts at Window, so that no window begins before 0.
Init == /\ now = Window
        /\ stamp = [e \in Events |-> NoTime]
        /\ saved = {}
        /\ pc = [r \in Replicas |-> "idle"]
        /\ due = [r \in Replicas |-> Window]
        /\ window = [r \in Replicas |-> [rep |-> r, epoch |-> 0, start |-> 0, end |-> Window]]
        /\ count = [r \in Replicas |-> 0]
        /\ docs = [r \in Replicas |-> {}]
        /\ topic = {}
        /\ epoch = [r \in Replicas |-> 0]
        /\ windows = {}

Tick == /\ now < Window + MaxTime
        /\ now' = now + 1
        /\ UNCHANGED <<stamp, saved, pc, due, window, count, docs, topic, epoch, windows>>

\* The gateway finishes a request and stamps its event.
Occur(e) == /\ stamp[e] = NoTime
            /\ stamp' = [stamp EXCEPT ![e] = now]
            /\ UNCHANGED <<now, saved, pc, due, window, count, docs, topic, epoch, windows>>

\* The consumer has saved the event's document, any time later.
Save(e) == /\ stamp[e] # NoTime
           /\ e \notin saved
           /\ saved' = saved \cup {e}
           /\ UNCHANGED <<now, stamp, pc, due, window, count, docs, topic, epoch, windows>>

\* The scheduler starts the job, possibly late: the window is fixed here.
StartRun(r) ==
  /\ pc[r] = "idle"
  /\ now >= due[r]
  /\ window' = [window EXCEPT ![r] = WindowNow(r)]
  /\ windows' = windows \cup {WindowNow(r)}
  /\ pc' = [pc EXCEPT ![r] = "count"]
  /\ UNCHANGED <<now, stamp, saved, due, count, docs, topic, epoch>>

\* The repository method counts the hits first, to size its one result page.
Count(r) ==
  /\ pc[r] = "count"
  /\ count' = [count EXCEPT ![r] = Cardinality(Matching(window[r]))]
  /\ IF count'[r] = 0
     THEN EndRun(r)                         \* events.isEmpty(): nothing to do
     ELSE pc' = [pc EXCEPT ![r] = "search"] /\ UNCHANGED due
  /\ UNCHANGED <<now, stamp, saved, window, docs, topic, epoch, windows>>

\* The search returns as many of the hits as were counted.
Search(r) ==
  /\ pc[r] = "search"
  /\ count[r] <= MaxResult
  /\ \E found \in SUBSET Matching(window[r]) :
        /\ Cardinality(found) = count[r]
        /\ docs' = [docs EXCEPT ![r] = found]
  /\ pc' = [pc EXCEPT ![r] = "send"]
  /\ UNCHANGED <<now, stamp, saved, due, window, count, topic, epoch, windows>>

\* Elasticsearch is unavailable, or the result is larger than its result
\* window: the exception ends the run, the scheduler goes on.
QueryFails(r) ==
  /\ pc[r] \in {"count", "search"}
  /\ EndRun(r)
  /\ UNCHANGED <<now, stamp, saved, window, count, docs, topic, epoch, windows>>

Group(r, key) == {e \in docs[r] : GroupKey(e) = key}

\* The send of one group, in any order of the groups.  Its outcome is not
\* looked at: the record may never reach the topic.
Send(r) ==
  /\ pc[r] = "send"
  /\ \E key \in {GroupKey(e) : e \in docs[r]} :
        LET agg == [window |-> window[r], tenant |-> KeyTenant(key),
                    endpoint |-> KeyEndpoint(key), events |-> Group(r, key)]
        IN  /\ topic' \in {topic, topic \cup {agg}}
            /\ docs' = [docs EXCEPT ![r] = @ \ Group(r, key)]
  /\ UNCHANGED <<now, stamp, saved, pc, due, window, count, epoch, windows>>

Finish(r) ==
  /\ pc[r] = "send"
  /\ docs[r] = {}
  /\ EndRun(r)
  /\ UNCHANGED <<now, stamp, saved, window, count, docs, topic, epoch, windows>>

\* The replica dies and a new process starts: what it had not sent is gone,
\* and its first run is due at once (no initialDelay).
Restart(r) ==
  /\ epoch[r] < MaxRestarts
  /\ epoch' = [epoch EXCEPT ![r] = @ + 1]
  /\ pc' = [pc EXCEPT ![r] = "idle"]
  /\ due' = [due EXCEPT ![r] = now]
  /\ docs' = [docs EXCEPT ![r] = {}]
  /\ UNCHANGED <<now, stamp, saved, window, count, topic, windows>>

Run(r) == Count(r) \/ Search(r) \/ QueryFails(r) \/ Send(r) \/ Finish(r)

Next == \/ Tick
        \/ \E e \in Events : Occur(e) \/ Save(e)
        \/ \E r \in Replicas : StartRun(r) \/ Run(r) \/ Restart(r)

Spec == Init /\ [][Next]_vars

-----------------------------------------------------------------------------
WindowType == [rep : Replicas, epoch : Nat, start : Nat, end : Nat]

AggregationType == [window : WindowType, tenant : Seq(STRING),
                    endpoint : Seq(STRING), events : SUBSET Events]

TypeOK ==
  /\ now \in Nat /\ now >= Window
  /\ stamp \in [Events -> Nat \cup {NoTime}]
  /\ saved \subseteq Events
  /\ pc \in [Replicas -> {"idle", "count", "search", "send"}]
  /\ due \in [Replicas -> Nat]
  /\ window \in [Replicas -> WindowType]
  /\ count \in [Replicas -> Nat]
  /\ docs \in [Replicas -> SUBSET Events]
  /\ topic \subseteq AggregationType
  /\ epoch \in [Replicas -> Nat]
  /\ windows \subseteq WindowType

SameProcess(v, w) == v.rep = w.rep /\ v.epoch = w.epoch

\* One process counts an event once: two of its aggregations share an event
\* only if the event's timestamp is the instant where one window ends and the
\* other begins (findByTimestampBetween includes both).  Runs that are late,
\* slow, or failed do not change this.
CountedOnce ==
  \A a, b \in topic : SameProcess(a.window, b.window) /\ a # b =>
     \A e \in a.events \cap b.events :
        \/ stamp[e] = a.window.end /\ stamp[e] = b.window.start
        \/ stamp[e] = b.window.end /\ stamp[e] = a.window.start

\* An aggregation is about something: it has events, all of them in the index
\* and inside its window, and errorCount/requestCount divides by no zero.
AggregatesAreSound ==
  \A a \in topic : /\ a.events # {}
                   /\ a.events \subseteq saved
                   /\ \A e \in a.events : /\ a.window.start <= stamp[e]
                                          /\ stamp[e] <= a.window.end

\* The alert-service can attribute an aggregation: it carries the tenant and
\* the endpoint of every event it counts (README, Phase 3: "Multi-tenant data
\* isolation").
TenantIsolation ==
  \A a \in topic : \A e \in a.events : a.tenant = TenantOf[e] /\ a.endpoint = EndpointOf[e]

\* One run sends at most one aggregation for a tenant and endpoint.
OneAggregatePerGroup ==
  \A a, b \in topic :
     a.window = b.window /\ a.tenant = b.tenant /\ a.endpoint = b.endpoint => a = b

\* MetricsAggregationService: "Runs every 60 seconds. Queries Elasticsearch for
\* the past minute's events": an event stamped between two windows of a
\* process is in one of its windows.
NoEventBetweenWindows ==
  \A e \in Events : \A v, w \in windows :
     /\ SameProcess(v, w)
     /\ stamp[e] # NoTime
     /\ v.end <= stamp[e]
     /\ stamp[e] <= w.start
     => \E u \in windows : SameProcess(u, v) /\ u.start <= stamp[e] /\ stamp[e] <= u.end
=============================================================================
