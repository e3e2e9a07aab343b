# A TLA+ model of the API gateway analytics platform

This directory holds a specification of the platform in `src/`: TLA+ modules
translated from its Java services, its dashboard page and its scripts, TLC
configurations that check them on small instances, and proofs, checked by TLAPS,
that hold for every value of the constants.

    tlc -workers 2 -config EventIngest_group.cfg MCEventIngest
    tlapm Pipeline_proofs.tla

`PROJECT.json` is the index: for every definition that models code, the lines it
models (`map`); for every run, what it checks; for every property, a plausible
bug that would break it (`mutants`, operators named `..._Mut...` in the
modules); the disagreements found (`findings`); the hazards; the theorems.

## 1. The system

    request -> gateway-service --api-events--> analytics-service --> Elasticsearch
                                                     |   ^ every minute   |
                                                     |   +----------------+
                                                     +--analytics-events--> alert-service --> Slack, email

The demo-service is the whole pipeline in one process: a traffic generator, an
asynchronous listener in place of Kafka, an in-memory store in place of
Elasticsearch and the alert-service, a log buffer, and a dashboard in the
browser that polls its REST API.

| Component | State it keeps | Operations | Talks to |
|---|---|---|---|
| gateway-service: `AnalyticsGlobalFilter`, `KafkaProducerConfig` | the requests on each event loop; the producer's memory, its requests in flight and their retries | `filter`, `publishAnalyticsEvent` in `doFinally`; the producer's send, retry, time out | topic api-events, keyed by tenant |
| analytics-service: event consumer (`ApiEventConsumer`, `MetricsAggregationService.processEvent`, `KafkaConfig`) | committed offsets, partition assignment, the batch and failure counts of each listener thread; the documents | poll, deliver, save, retry after a back-off, dead-letter, commit; rebalance, crash | api-events, dead-letter topic, Elasticsearch |
| analytics-service: aggregation job (`computeAndPublishAggregations`) | the schedule of each replica | count and search the last minute, group, send | Elasticsearch, topic analytics-events |
| analytics-service: REST (`AnalyticsController`) | none | page, count | Elasticsearch |
| alert-service (`AnalyticsEventConsumer`, `AlertEvaluationService`) | `lastAlertTime`, offsets and batches as above | evaluate two rules, check the cooldown, notify, start the cooldown | analytics-events, Slack, email |
| demo-service: `InMemoryMetricsStore` | deque of events, deque of alerts, cooldown map | `recordEvent` in the async pool, `getMetrics`, `getSummary` | traffic generator, REST |
| demo-service: `InMemoryLogAppender` | ring buffer of log lines | append, snapshot, clear | every logger, REST |
| demo-service: `AiService` | none | prompt, call a model, or a built-in analysis | REST |
| demo-service: dashboard (`index.html`) | lines shown, snapshot of the KPIs, history of the timeline, open windows and dialogs | polling, rendering, clearing, asking | REST |
| `scripts/*.py` | the files of the tree | write and patch files | - |
| deployment (`k8s`, `docker`, `kibana`, `config`) | - | - | replicas, topics, restarts |

What is hard in this system:

* **Kafka consumers.** Delivery is at least once. A crash, a rebalance in the
  middle of a batch, a save that times out after it was written and a producer
  that retries all repeat records; an invalid payload, or a dead letter that
  cannot be published, may hold a partition up.
* **A producer on the request path.** `send` hands an event to another thread, but
  blocks the gateway's event loop while the producer knows no broker or has no
  memory, and the outcome of a send arrives, or does not, long after the request;
  what waits in memory is gone when the process dies.
* **Check, act, record.** The alert-service reads the cooldown, sends two
  blocking notifications and only then records the time, from two threads; the
  demo does the same with an unsynchronised map; its buffer is trimmed by
  `size()` followed by `removeLast()`.
* **Windows.** The aggregation looks back a minute from whenever it is started,
  with both ends included, counts first and fetches afterwards, in every replica
  on the same index.
* **Polls that overlap.** The page's timers do not wait for answers; rows keep
  indices into lists that the next answer replaces; a failed call drops the two
  that succeeded.
* **Keys made of strings.** Groups are keyed by `tenantId + "|" + endpoint` and
  the key is taken apart again.

What makes each component correct:

* gateway: no event vanishes without a line in the log, except with the process; an
  acknowledged event is in the topic; every request ends, whatever Kafka does;
* from the gateway to the index: an ended request is counted at most once, and its
  event is always somewhere between the two services, indexed, or reported;
* event consumer: nothing below a committed offset is lost; one document per
  event; offsets never go back; every record is consumed in the end;
* aggregation: a process counts no event twice; an aggregation holds only
  documents of its window, its tenant and its endpoint;
* alerts: no alert while its key is cooling down; nothing is suppressed without
  an alert; every aggregation is consumed;
* demo store: an addition never throws; the buffer keeps its capacity, up to the
  number of threads; no breach is suppressed into silence; recording an event ends
  once no more are added;
* log panel: a row opens the line it shows, and the panel shows the newest
  lines in the end; AI panel: it shows the answer to its own question, and does
  not spin for an answer nobody awaits;
* KPI page: a row opens the alert it shows; the timeline draws every event once;
  the page shows the store's newest state in the end;
* generator scripts: each file gets its whole patch or none of it, once; and the demo's
  scripts, run in order, repair the demo, but for what they do not write.

## 2. Modules

| Module | Models | How it is checked |
|---|---|---|
| `Gateway` | the filter, and the Kafka producer behind it | TLC, and `Gateway_proofs` |
| `AtLeastOnce` | the contract of a consumer group: offsets only pass settled records | as a PROPERTY of `EventIngest` and `AlertService` |
| `EventIngest` | the analytics-service's consumer | TLC, and `Pipeline_proofs` |
| `Pipeline` | `Gateway` and `EventIngest`, joined by the topic api-events | TLC, and `Pipeline_proofs` |
| `Aggregation` | the aggregation job | TLC, and `Aggregation_proofs` |
| `AlertService` | the alert-service: listener threads, rules, cooldown, channels | TLC, and `AlertService_proofs` |
| `MetricsStore` | the demo's event buffer under the async pool | within `DemoAlerts`, and `DemoAlerts_proofs` |
| `DemoAlerts` | `MetricsStore` with the alert rules behind it: all of `recordEvent` | TLC, and `DemoAlerts_proofs` |
| `Dashboard` | the demo's log buffer, log panel and AI panel | TLC, and `Dashboard_proofs` |
| `KpiDashboard` | the KPI page: polls, snapshot, timeline, alert feed, KPI window | TLC, and `KpiDashboard_proofs` |
| `ProjectFiles` | the generator scripts and the files they write | TLC, and `ProjectFiles_proofs` |
| `MC...` | the constants of the runs | - |

### Gateway

`End` is `doFinally`: it runs on the event loop of the request, so it waits while
another request of that loop is blocked in `send` (`Blocked`). `send` returns at once,
or blocks (`MustWait`: no metadata, or no memory) until it can go on (`Unblock`) or
`max.block.ms` is over and the exception is caught and logged. An event handed over
is `waiting`, then `inFlight`, and may by then be `appended` at the broker. With
`acks=1` and three retries, an attempt without a response is repeated although its
record may be in the topic; the last one fails the future and is logged. `Expire` is
`delivery.timeout.ms`. `LeaderFails` loses a record that `acks=1` had acknowledged.
An attempt taken for failed is not appended later; the copies a retry makes are.
`GatewayDies` kills the process, as its liveness probe does when the event loop is held
up: the requests it is handling end without `doFinally`, everything the producer holds
is gone (`died`), and the broker may still append what was in flight.

### EventIngest

A thread is a Kafka consumer of its own (`setConcurrency(3)` in each replica).
`batch[t]` is what `poll()` returned, with the cursor `next`; `failures[t][p]` is
the count the `DefaultErrorHandler` keeps per thread and partition; `index` and
`dead` are Elasticsearch and the dead-letter topic. `Consume` is the listener and
`processEvent` up to a `save` that returns. When `save` throws, `FailAndRetry`
may have written the document all the same; `Recover` and `RecoverFails` are the
last attempt, and the first of a payload that does not deserialize, which Spring
does not retry. `Commit` happens when the batch is over (`AckMode.BATCH`), and the
commit of a thread that lost its partition is rejected. `Rebalance` only gives a
partition to a thread that is inside `poll()`, as the protocol demands; the thread
that loses it was held up and goes on. Time is abstracted: a retry comes later.
Two simplifications: a batch holds records of one partition, and a replica that
crashes rejoins with its assignment, unless `Rebalance` moves it.

### Pipeline

`Pipeline` EXTENDS `EventIngest` and holds an instance of `Gateway`; a request and its
event are one value. `Gateway` counts the records the partition's leader has (`copies`),
`EventIngest` has the records consumers may read (`log`), which in Kafka are those the
followers have. `Replicate` moves a record from one to the other; `LeaderFails` may
only take a record that has not moved (`Unreplicated`), so that no consumer has read what is
lost. `Foreign` is a record of another program: the gateway writes only events that
deserialize, so an invalid payload comes from elsewhere. Every other action is one of either service
and leaves the other's state alone.

### Aggregation

`window`, `count`, `docs` are the local variables of one run of the job and
`windows` records all windows. The repository method counts (`Count`) and then
fetches (`Search`) as many hits as it counted, so documents may be saved between
the two, and which hits are returned is a choice. `QueryFails` is any exception of
either request. `Send` is one `kafkaTemplate.send`, whose record may not arrive.
Tenant ids and endpoints are sequences of names, so that a name that contains the
separator `|` is a sequence of two; `GroupKey` concatenates and `KeyTenant` and
`KeyEndpoint` split at the first separator, as `key.split("[|]", 2)` does.
Replicas share the index and nothing else. Percentiles and rates are left out.

### AlertService

`pc[t]` follows a thread through `evaluate`: the rule it checks, the cooldown it
reads, Slack, email, and the entry in `lastAlertTime`. The map is shared by the two
listener threads. `alerts` and `suppressed` are histories the properties speak
about. A record that does not deserialize, or has fewer samples than the rules
ask for, is skipped and committed with the others. `Restart` is a new
process with an empty map. Each entry of the histories names the record it is about, and
a record counts as settled for `AtLeastOnce` if it is one to skip, or once each of its breaches
went to both channels and into the map, or was suppressed (`Noticed`,
`SkippedOrEvaluated`). Skipping an invalid payload settles it although nobody is told:
unlike the analytics-service, this service has no dead-letter topic (section 6).

### MetricsStore and DemoAlerts

The deque is the interval `lo..hi` of event numbers, since events are added at one
end and removed at the other. `ConcurrentLinkedDeque.size()` is the walk it is:
from the head to the end, counting the nodes that still hold an item, and possibly
back to the head when the node it stands on has been unlinked.

`DemoAlerts` EXTENDS `MetricsStore`: where the buffer's thread is in
`evaluateAlerts`, it goes through both rules, and for a breached one through
`canAlert` (read the map, compare, put) and `alerts.addFirst`, one step each. The
map is a plain `HashMap` without a lock, for which Java promises a reader next to
nothing: `get` returns no entry, or any time ever put for the key. This is more than
one implementation can show, so what holds of it holds of each. The demo is taken at one
tenant and endpoint, so a key is a rule; which events breach one is left open. The
theorem `AlertsImplementStore` says that `DemoAlerts` does nothing to the buffer that
`MetricsStore` does not.

### Dashboard

One action is one callback of the browser's event loop, from the event to the next
`await`. `conn[c]` is one `fetch`: sent, answered by the server in its own time, with
what was asked for, with an error, or not at all, then settled. `Size`, `PollLast` and
`AddFirst` are the steps of `append`, which logback calls under the appender's lock;
requests read and clear the deque without it. `StartWalk`, `Step` and `GetLogs` are
`new ArrayList<>(BUFFER)`: a walk from the newest line to the oldest, which goes over
nodes that are removed under it, and may start again when the one it stands on is
gone. `ClearFirst` removes one line, as `ConcurrentLinkedDeque.clear` does.
`Rendered` keeps, for each row, the index into `allLogs` its `onclick` was given; the
rows are a set, since a row knows its index. The page does not look at `r.ok`, so the
JSON body of an error becomes `allLogs` (`isList` is false), over which `renderLogs`
throws if a filter is set and leaves the rows as they are (`Redrawn`).
`panel` is the one element `ai-response-panel` of the page: which question it was
opened for and whose answer its body shows.

### KpiDashboard

`polls[q]` is one call of `updateDashboardEnhanced`: `Poll` is the timer, the two answers
come in any order, `PollFails` is the `Promise.all` that rejects, and `Render` is
everything the callback does: the snapshot, the point of the timeline, the feed, and an
open KPI window drawn again. The JSON body of an error is an answer to the page
(`AnswerError`): depending on which of the three requests it answers, the callback ends
right after the snapshot is replaced (`RenderNoSummary`), after the timeline's point
(`RenderNoMetrics`), or in the window's statistics (`Refreshed`), and `stale` notes that
a window on the screen was left with the rows of an earlier snapshot.
`OpenAlertDetail(i)` is what a click on row `i` opens, from the snapshot there is at the
click. Of the store only the numbers are kept that the page can see: events recorded,
their `Size`, alerts fired. Three simplifications: `Size` is exact, while threads at work
can leave the buffer a little off its capacity (`MetricsStore`); `GET /demo/metrics` is
the choice in `Render` of whether there is an endpoint row; a summary is read at one
moment, while `getSummary` passes over the events several times.

### ProjectFiles

`Script(s)` is the list of writes of a script in its order; files no other script
touches are taken together by directory. What a file contains is abstracted to what it
needs of the rest of the build (classes, libraries, endpoints, JSON keys) and what it
gives to it (`File`). Three files are also patched: `settings.gradle` by `generate_demo`,
the controller and the page by `add_logs_feature`. Their text is known by landmarks: the
pieces the scripts insert, and the places they are inserted at. Each insertion has its
own test, as in the script: `WithImport`, `WithEndpoints`, `WithStyle`, `WithPanel` and
`WithScript` look for their marker in the pieces that mention it (`Mentioned`), or in what
is left of one, and a `replace` whose anchor is missing changes nothing. `Interrupt` stops
a script between two files or in the middle of one (`open(p, 'w')` has truncated it): a
torn file has the first of its landmarks, and perhaps a scrap of the next. `trail` is the
scripts completed since one failed or was stopped; `generate_project` always fails,
after its last write. Two simplifications: a directory exists once its first file does,
and two scripts do not run at once.

Most of the lines `map` names for this module are the texts of the generated files: of
those the model has their names, order, needs and gifts and nothing more, so the share of
the source the map covers says little about how closely the services are modelled.

## 3. Runs

| Run | Question | Answer |
|---|---|---|
| `gateway_events` | Can an event vanish, or a request hang, when Kafka is late, down, slow to answer or loses a leader, or the gateway is killed? | No event is dropped without a line in the log unless the process dies with it, what is acknowledged is in the topic unless a leader was lost, and every request ends. |
| `ingest_group` | Can a crash, a rebalance, a lost reply, a duplicate send, a refused dead letter or a record that always fails lose, double or hold up an event? | No: what is committed is indexed or dead-lettered, one document per event, offsets only advance, the group implements `AtLeastOnce`, and every record is committed in the end. |
| `pipeline_events` | Can an event be lost or counted twice on the whole way from its request to the index? | No: it is with the producer, in the topic, indexed or dead-lettered, or reported, unless a leader was lost or the gateway died with it; a request is counted once, and only after it has ended; every event arrives. |
| `aggregation_tenants` | Does a process count an event twice, mix tenants, or send a group twice? | No: windows of a process share at most an instant. |
| `aggregation_isolation` | May a tenant id contain `\|`? | The gateway lets it, and the aggregation is then attributed to another tenant (finding). |
| `aggregation_gap` | Does every event fall into a window? | No: the time a run takes is skipped (finding). |
| `alert_threads` | Does the cooldown hold between the listener threads, and is every aggregation consumed? | An alert may overlap one that is under way, after a rebalance only; otherwise no two are closer than the cooldown, a breach is suppressed only after both channels were tried, and all aggregations are consumed, also behind an invalid payload, which is skipped without a dead letter. The group implements `AtLeastOnce`: no committed aggregation that could be read has a breach nobody acted upon. |
| `demo_store` | Can threads that trim and alert at once throw, empty the buffer, or silence a rule? | No: the buffer keeps at least `MAX_EVENTS + 1 - threads` events, a suppressed breach has its alert, and every call ends once no more events are added. |
| `dashboard_panels` | Do late answers, clears, filters and failures confuse the panels? | A row opens its line, or nothing after an error met with a filter set; copies of the changing deque are in order; no panel spins for nothing, and the log panel catches up. |
| `dashboard_answers` | Is an answer shown under its question only? | No: a late answer is rendered into a newer panel (finding). |
| `kpi_page` | Do overlapping, overtaken and failed polls, or errors for answers, confuse the KPI page? | A row opens its alert, except between the body of an error and the next drawing; the timeline misses nothing until the buffer is full, and the page catches up with the store. |
| `project_files` | Are the scripts safe to repeat, reorder and stop? | A file that is not torn has its whole patch or none of it; the demo's scripts in order repair the demo, but for the Kafka classes of an earlier `generate_demo` and the entry in `settings.gradle`. |

Bounds, and why they are enough (where there are theorems, they remove them for
safety):

* `gateway_events`: three requests on two event loops, two of them on one, so that one
  can wait for the other; room for two events, so that the third finds the memory
  full; one request in flight, the three retries of the code, one lost record and
  one death of the process.
* `ingest_group`: two replicas of one thread are the least for a rebalance in the
  middle of a batch; a batch and a log of two hold a handled record with one behind
  it. Two rebalances let a partition come back to the thread that lost it; the four
  deliveries are those of `FixedBackOff(1000, 3)`; one crash.
* `pipeline_events`: one request, since events only meet at their id and their
  partition; an invalid payload in front of it or behind it; two replicas, so that a rebalance
  can take the partition from a thread that has its record in hand; one retry of the
  producer, two deliveries and batches of one, each the least that repeats or splits
  anything; a topic of three records; one crash, one rebalance, one lost record, one death.
* `aggregation_*`: one replica, because replicas share the index only and every
  property is stated within a process, or of one aggregation; six ticks with a
  window of two hold three windows.
* `alert_threads`: two threads (`setConcurrency(2)`), one key with one breached rule
  and one that holds, an invalid payload, a cooldown of one tick and two ticks of
  time, a restart and a rebalance: two records can be evaluated by both threads
  at once, and an alert can come after a cooldown.
* `demo_store`: two threads and three events on a capacity of two let both threads
  trim, and one walk while the other removes; two ticks with a cooldown of one let a
  breach come during and after it. Three events are few removals, so that a walk of
  `size()` cannot start over for ever here; `EventsAreEvaluatedAtRest` claims an end only
  where events stop. Both rules in each thread make more than this too large
  for TLC; the theorems have any number of threads.
* `dashboard_*`: a buffer of two and three lines make it overflow once; two
  connections let two polls, two questions, or a poll and a clear overtake each
  other, and two walks go over the buffer while it is trimmed; one call fails or is
  answered by an error. One filter button is enough for a line to pass and another not
  to.
* `kpi_*`: two polls overtake each other, three events overflow a buffer of two, two
  alerts shift the indices of the rows, one call fails or is answered by an error.
* `project_files`: five runs of the six scripts, one of them stopped; the repair takes three,
  so any two runs come before it, and a script may run over what it has torn.

`CHECK_DEADLOCK FALSE` stands in every cfg: an idle system waits for requests, logs
or commands, and the bounds on them let the model come to rest.

## 4. Fairness

* `Gateway`: every request is answered, fails or is cancelled, `send` returns or
  throws after `max.block.ms`, and the producer's thread runs, its timeouts
  included. Nothing is assumed of Kafka: it may never be reached or never answer.
* Listener threads (`EventIngest`, `AlertService`) keep running while their process
  does: weak fairness of the work of each thread. Each polls its partitions again and again,
  which other partitions and rebalances may interrupt: strong fairness of `Poll`.
* `SF_vars(Recover(t))`: a broker asked again and again takes a dead letter in the
  end. Nothing is assumed of Elasticsearch.
* `Pipeline`: both of the above, and `Replicate`: followers fetch what the leader has.
* `AlertService`: Slack and the mail server answer or fail. Their clients have no
  timeout in this code, so this is an assumption about them.
* `DemoAlerts`: a pool thread that has begun to record an event goes on. That its call
  ends is only claimed once no more events are added: under traffic that never rests a
  walk may start over for ever, whatever is fair.
* `Dashboard`: the timer fires; a free connection is found for a poll again and
  again (strong fairness, since questions and clears also take connections); a
  call is answered or fails, after its walk of the buffer; a callback that is ready is
  run; a logger ends its `append`. `PanelCatchesUp` is about a log that comes to rest, as
  it must where `MaxLines` bounds it. The AI provider is included although the `RestTemplate` has no timeout:
  a provider that never answers keeps one connection.
* `KpiDashboard`: the timer fires, each request of a poll is answered or the poll
  fails, and the browser runs the callback of a poll whose answers are in.

## 5. Proofs

All theorems are of the form `Spec => []P`, `Spec => [][A]_vars` or a refinement,
from the named assumptions on the constants in the modules. None bounds the number
of requests, threads, replicas, partitions, polls or events; the bounds of the runs
are arbitrary natural numbers.

* `Pipeline_proofs`, first `EventIngest`. `CommittedAreHandled` is not inductive: a commit publishes a
  thread's cursor. The invariant adds that everything below the cursor of any busy
  thread is handled, owner or not (`CursorsAreHandled`), and that the owner's
  cursor is not behind the committed offset (`OwnersAreAhead`, from which
  `OffsetsNeverRegress`). `IdsAreEvents` gives `OneDocumentPerEvent`. Handled records stay so
  because a save only replaces the document of its own event. `NothingIsInvented`
  needs that a record is in the partition of its key (`LogIsKeyed`) and that the
  topic only grows. `ImplementsContract` maps each step to a step or a stutter of
  `AtLeastOnce`.
* `Pipeline_proofs`, then `Pipeline`. It implements `EventIngest` and `Gateway`
  (`PipelineImplementsIngest`, `PipelineImplementsGateway`), so that what is proved of either
  holds of it. They meet in `LogIsCopied`: consumers have at most as many records of a
  request as the leader has. `NoEventIsLost` then follows from three facts: an event is
  in one place in the gateway, what is acknowledged is at the leader, and what is committed is
  handled. `RequestsAreCountedOnce` follows from two: a document comes from a record, and
  a record from a request that has ended.
* `Gateway_proofs`. An event is in one place at a time (`Placed`). Its copies in the
  topic are counted against its attempts: one for each retry, and one more once the
  current attempt is appended (`CopiesPaidFor`), which bounds duplicates by
  `RETRIES + 1`. A death moves events to a place of their own, and adds a copy only
  where an attempt in flight pays for it.
* `Aggregation_proofs`. Two arguments meet. Across runs: a process starts a run at
  least `Delay` after the end of the window before, whatever happened in between
  (`Paced`), so with `Delay >= Window` windows of a process touch at their ends only
  (`WindowsApart`). Within a run: what was sent has left `docs` (`NotSentTwice`,
  `Separate`), and a run that has not searched yet has sent nothing
  (`NothingSentYet`). `PlainTenantsAreIsolated` proves `TenantIsolation` under the
  assumption, stated in the theorem, that no tenant id contains the separator; the
  run `aggregation_isolation` shows that it is needed.
* `AlertService_proofs`. An alert is checked, sent and then entered into the map. An
  alert without a time is being raised by the thread it names (`RaisingOK`,
  `UnstampedIsRaised`), and map and alerts agree both ways: the map is not behind any
  alert of the process (`MapCovers`, hence `CooldownHolds`), and each entry is the
  time of an alert that went to both channels (`MapHasAlert`, hence
  `SuppressedOnlyAfterAlert`). Two threads raise one key only if they hold batches of
  one partition, which takes a rebalance (`OwnersHoldBatches`, `LogKeyed`; hence
  `ApartWithoutRebalance`). For `ImplementsAtLeastOnce`, what lies below the cursor of any
  busy thread is evaluated (`CursorOK`), the owner is not behind the committed offset
  (`OwnerOK`), and inside `evaluate` the rule before the current one is done with
  (`RuleOK`); a restart empties the map but takes nothing from the histories, so what was
  settled stays so.
* `DemoAlerts_proofs`, first `MetricsStore`. It counts debts: a thread that has added an event may still
  remove one. `Settled` is what is left when all have; no step lowers it, and a walk
  counts at most `Settled + |Threads|` events (`WalksBounded`), so a thread that
  decides to remove knows that `Settled` is large (`RemovalsJustified`).
* `DemoAlerts_proofs`, then `DemoAlerts`. It implements `MetricsStore`, which hands its
  theorems over; and `SuppressedHasAlert` is proved from the fact that every time in the
  map is that of an alert in the deque or about to be (`PutsHaveAlert`), so that it
  does not matter which one `get` returns.
* `Dashboard_proofs`. Until somebody clears the log the buffer holds the last lines
  without a gap (`BufferOK`), so that the node after the one a walk stands on is that of
  the line before, a walk whose node was trimmed away has come to its end, and what it has
  read ends right above where it stands (`WalkOK`). The order survives in the answers on
  their way (`CallOK`). `append` has made room before it adds (`RoomForNext`); every
  question under way carries its number (`CallOK`), so an answer ends the waiting of the
  panel it is drawn into.
* `KpiDashboard_proofs`. The timeline adds up differences of totals: it is never below
  the last total, and equal to it unless an answer was overtaken (`DrawnCovers`); a
  total is the number of events until the buffer is full (`TotalsAreCounted`). A window
  on the screen has the table of the current snapshot unless a callback ended between
  the two (`WindowIsSnapshot`).
* `ProjectFiles_proofs`, for any number of runs and stops. That a file that is not torn has
  all of its patch or none (`PatchesStayWhole`) needs what such a text looks like
  (`TextOK`): no scrap, and every anchor of the generator's text or every piece, so that
  the five tests come to the same answer. That the demo's scripts in order repair the demo
  (`DemoIsRepaired`) is followed from script to script: a running script has written the
  files it is past (`WrittenSoFar`), the scripts after it write other files (`DemoBuilt`,
  `PageBuilt`, `LogsBuilt`), and a patch leaves a file to its writer (`PatchedSoFar`). Then
  every need of the files is looked up among what they give, and nothing else gives the
  library of the Kafka classes or the entry of the demo (`Known`).

Every safety property of a passing run is proved, and so are some type invariants no
run lists (of `Aggregation`, `DemoAlerts`, `ProjectFiles`). Only model-checked is liveness
(`EveryRecordIsConsumed`, `EveryEventArrives`, `EveryAggregationIsConsumed`,
`EventsAreEvaluatedAtRest`, `EveryRequestEnds`, `EveryEventIsSettled`, `PanelCatchesUp`,
`DashboardCatchesUp`), which is out of the prover's reach. That an invalid payload ends
up dead-lettered needs no property of its own: its record is committed in the end, what is
committed is handled, and no document comes from it.

## 6. Disagreements found

Three runs end in a violation and are `findings` in `PROJECT.json`: tenant ids with a
separator, the gap between windows, and the answer under another question. Others were
met and are not runs:

* The "Request Traffic Timeline" of "Events/sample" (`index.html:1022`, `1595`) draws the
  growth of the buffer (`index.html:2511`): once the buffer is full, it draws zeros
  whatever the traffic (`TimelineCompleteUntilFull` is what holds).
* `InMemoryMetricsStore.java:17` says the store keeps the last `MAX_EVENTS` events.
  Threads that trim at once (line 40) leave fewer, by one each at most, and a walk of
  `size()` that misses events added at the head leaves more.
* `KafkaConfig.java:82`, the README and the config maps say that failed events go to
  `api-events-dlq`; the recoverer is built without a destination resolver and its
  default is `api-events-dlt` (`DeadLetterTopic` in `EventIngest`; `.DLT` in older versions).
* `index.html:2041` calls the history's event counts "delta events per sample", while
  the totals themselves are pushed.
* The page asks for fifty alerts, so the badge `99+` (`index.html:2539`) is never
  shown, and the number of alerts it counts itself stops at fifty.
* The rows of the tenant window have the text of a table cell for their key
  (`index.html:2299`), markup included, with which `openTenantDetail` finds no tenant.
* The first `updateDashboard` (`index.html:1850`) returns when there are no endpoint
  rows, before it draws the alert feed; `Fed` in `KpiDashboard` is the function that
  replaced it, `Fed_MutReturnsEarly` the old one.
* A request the client cancels has no status yet in `doFinally`: it is counted with
  status 0, and not as an error (`AnalyticsGlobalFilter.java:73`).
* `getSummary` of the store counts events and errors in several passes
  (`InMemoryMetricsStore.java:127`): events recorded in between may show more errors
  than events.
* `renderLogs` returns before it updates the four counters when no line passes the
  filter (`index.html:1983`), so after a clear they keep their old numbers.
* `src/README.md:256` gives the alert-service a "Kafka consumer with DLQ support". Its
  `KafkaConsumerConfig` (lines 43-51) configures neither an error handler nor a
  dead-letter topic: an aggregation that does not deserialize is logged by the
  container's default handler and skipped, and nobody is told (`IsSkipped` in
  `AlertService`, which settles it).
* The page does not look at `r.ok`. An error's body in answer to `/demo/logs` shows "No log
  entries match the current filter", or, with a filter set, leaves rows whose clicks open
  nothing (`index.html:2025`).
* "If modal open, refresh it live" (`index.html:2644`): an error's body in answer to
  `/demo/dashboard` or `/demo/metrics` replaces `kpiSnapshot` (line 2508), and the
  exception that follows (line 2511, or 2564) keeps the open window from being drawn, so
  that its rows may open other alerts until the next good poll. In answer to `/demo/alerts`,
  the feed says "No alerts", and a click on the card opens no window but asks for one,
  which opens by itself at the next good poll.
* `scripts/update_versions.py:2` announces Java 25; the build files it writes use
  a toolchain of 21 (line 35).
* `generate_project.py` ends in a stray `PYEOF` (line 2421), a `NameError` after its last
  file. Run after `update_versions.py`, it sets the services back to the older libraries,
  with the newer Spring Boot of the root's build file.
* `generate_demo_v2.py` says "(no Kafka needed)" (line 2) and rebuilds the demo without
  Kafka, but leaves `EmbeddedKafkaConfig` and `ApiEventConsumer` of `generate_demo.py`
  where they were, which no longer compile. The entry of the demo in `settings.gradle` is
  made by `generate_demo.py` only: by the scripts alone v2's demo never builds. The
  repository holds the entry without the two classes.
* `add_logs_feature.py` reports success on a page that has none of its anchors, and on a
  torn controller or page, which stays torn.
* The page of `generate_dashboard.py` reads JSON keys only `generate_demo_v2.py`'s store
  answers with (`requests_60s`, `totalEventsBuffered`, `p99LatencyMs`).

## 7. Not modelled

* The REST controllers of the analytics-service: queries that keep and change no
  state; their answers are pages and counts of the index `EventIngest` fills.
* On the dashboard: the KPI windows of the other tiles, gauges, charts, the endpoint
  table and the event stream, which draw the same snapshot, and the dialogs they
  open; the text search of the log, which filters as the levels do.
* The text of prompts, answers, notifications and files; percentiles and rates; the
  shape of the generated traffic.
* Deployment files appear only as replicas and restarts.

## 8. Plan

The order was: the event path first (`EventIngest`, its contract and its proof),
then the job, the alerts, the demo's buffer, its dashboard, the scripts; then the
demo's racing alerts, the KPI page, the gateway, and the proofs of the remaining
services; then the composition of the gateway with the consumer, the contract of the
alert-service, and the proofs of the scripts. What could follow:

1. Theorems about steps: that the cooldown map of a process only advances, that a
   document, once in the index, stays, and that a published window never changes.
2. `Pipeline` as far as the alerts. `Aggregation` and `AlertService` meet it at interfaces
   that are open already (documents may be saved late, aggregations arrive twice), so the
   composition would be proved as this one was; its state space is beyond TLC.
