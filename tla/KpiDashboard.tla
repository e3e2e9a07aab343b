---------------------------- MODULE KpiDashboard ----------------------------
(***************************************************************************)
(* The KPI half of the demo's dashboard (index.html): every three seconds  *)
(* updateDashboardEnhanced asks for the summary, the metrics and the       *)
(* alerts at once, and draws the page when all three have answered.  The   *)
(* timer does not wait, so a slow answer overlaps the next call and may be *)
(* drawn after it.  Each run of a callback in the browser is one step.     *)
(*                                                                         *)
(* The store behind it is only what the page can see of it: how many       *)
(* events were recorded, how many of them size() reports, and the alerts,  *)
(* numbered as they fire.  How it comes by them is in MetricsStore and     *)
(* DemoAlerts.                                                             *)
(***************************************************************************)
EXTENDS Integers, Sequences, FiniteSets

CONSTANTS
  Polls,            \* calls of updateDashboardEnhanced under way at once
  MAX_EVENTS,       \* capacity of the store's buffer (1000)
  FetchLimit,       \* /demo/alerts?limit=50
  FeedRows,         \* alerts in the feed (15)
  TableRows,        \* alerts in the table of the KPI window (40)
  Pending,          \* a call that has not answered
  ErrorBody,        \* an answer that is the JSON body of an error
  NoPoll,           \* no call under way
  NoWindow,         \* no KPI window
  MaxRecorded,      \* bound: events
  MaxFired,         \* bound: alerts
  MaxFailures       \* bound: calls that fail

VARIABLES
  recorded,   \* events recorded
  fired,      \* alerts fired
  polls,      \* polls[q]: the answers of a call, as far as they are in
  snapshot,   \* kpiSnapshot.allAlerts, or <<>> if it is an error's body, which
  isList,     \*   has no element at any index
  feed,       \* the alerts in the feed, newest first
  alertsFired,     \* the number on the card "Alerts Fired"
  activeModalKey,  \* the KPI window "Alerts Fired" is asked for
  modal,      \* the alerts in its table, if it is on the screen
  stale,      \* history: its table was not drawn after snapshot was replaced
  prevTotal,  \* the total drawn last
  drawn,      \* the sum of all points the traffic chart has been given
  sampled,    \* history: events recorded when the total drawn last was counted
  overtaken,  \* history: an answer was drawn after that of a later call
  failures    \* calls that have failed

store == <<recorded, fired>>
chart == <<prevTotal, drawn, sampled, overtaken>>
cards == <<feed, alertsFired>>
window == <<activeModalKey, modal, stale>>
page == <<snapshot, isList, cards, chart, window>>
vars == <<store, polls, page, failures>>

\* counted: the events recorded when the summary was taken.
Summary == [total : Nat, fired : Nat, counted : Nat]
Answers == [dashboard : Summary \cup {Pending, ErrorBody},
            alerts : Seq(Nat) \cup {Pending, ErrorBody}]

ASSUME KpiAssumption ==
  /\ MAX_EVENTS \in Nat
  /\ FetchLimit \in Nat /\ FeedRows \in Nat /\ TableRows \in Nat
  /\ MaxRecorded \in Nat /\ MaxFired \in Nat /\ MaxFailures \in Nat
  /\ Pending \notin Summary \cup Seq(Nat) /\ ErrorBody \notin Summary \cup Seq(Nat)
  /\ Pending # ErrorBody
  /\ NoPoll \notin Answers
  /\ NoWindow \notin Seq(Nat)

-----------------------------------------------------------------------------
(* The server.                                                             *)

\* What size() reports, threads at work on the full buffer aside: they can
\* leave it a little off MAX_EVENTS, which MetricsStore is about.
Size == IF recorded < MAX_EVENTS THEN recorded ELSE MAX_EVENTS

\* The deque of alerts has no bound; the newest are sent first.
Newest(limit) == [i \in 1..(IF fired < limit THEN fired ELSE limit) |-> fired - i + 1]

Record == /\ recorded < MaxRecorded
          /\ recorded' = recorded + 1
          /\ UNCHANGED <<fired, polls, page, failures>>

\* An event breaches at most both of its rules.
Fire == /\ fired < MaxFired
        /\ fired < 2 * recorded
        /\ fired' = fired + 1
        /\ UNCHANGED <<recorded, polls, page, failures>>

Awaits(q, request) == polls[q] # NoPoll /\ polls[q][request] = Pending

\* GET /demo/dashboard
AnswerDashboard(q) ==
  /\ Awaits(q, "dashboard")
  /\ polls' = [polls EXCEPT ![q].dashboard =
                  [total |-> Size, fired |-> fired, counted |-> recorded]]
  /\ UNCHANGED <<store, page, failures>>

\* GET /demo/alerts
AnswerAlerts(q) ==
  /\ Awaits(q, "alerts")
  /\ polls' = [polls EXCEPT ![q].alerts = Newest(FetchLimit)]
  /\ UNCHANGED <<store, page, failures>>

\* An error of the server, whose JSON body the page takes for the answer: it
\* does not look at r.ok.
AnswerError(q) ==
  /\ failures < MaxFailures
  /\ failures' = failures + 1
  /\ \E request \in {"dashboard", "alerts"} :
        /\ Awaits(q, request)
        /\ polls' = [polls EXCEPT ![q][request] = ErrorBody]
  /\ UNCHANGED <<store, page>>

-----------------------------------------------------------------------------
(* The page.                                                               *)

\* setInterval(updateDashboardEnhanced, 3000): whether or not earlier calls
\* have answered.
Poll(q) ==
  /\ polls[q] = NoPoll
  /\ polls' = [polls EXCEPT ![q] = [dashboard |-> Pending, alerts |-> Pending]]
  /\ UNCHANGED <<store, page, failures>>

\* One of the three fetches fails, or its answer is not JSON: Promise.all
\* rejects, the page stays.
PollFails(q) ==
  /\ polls[q] # NoPoll
  /\ failures < MaxFailures
  /\ failures' = failures + 1
  /\ polls' = [polls EXCEPT ![q] = NoPoll]
  /\ UNCHANGED <<store, page>>

FirstOf(s, n) == SubSeq(s, 1, IF Len(s) < n THEN Len(s) ELSE n)

\* openKpiModal: a row for each of the first alerts of the snapshot, which
\* opens the alert with the row's index.
KpiTable(alerts) == FirstOf(alerts, TableRows)

\* Operators named ..._Mut... are plausible bugs, used by no action.

\* The total itself is drawn.
Delta_MutTotal(total) == total

\* deltaEvt: the growth of the total since it was drawn last.  An answer that
\* was overtaken has a smaller total, and draws a zero.
Delta(total) == IF total > prevTotal THEN total - prevTotal ELSE 0

\* The feed has no limit.
Fed_MutAll(alerts, endpoints) == alerts

\* The page before updateDashboardEnhanced: nothing below the endpoint table
\* is drawn while the table is empty.
Fed_MutReturnsEarly(alerts, endpoints) == IF endpoints THEN FirstOf(alerts, FeedRows) ELSE feed

\* The alert feed, whether or not an endpoint had traffic in the last minute.
Fed(alerts, endpoints) == FirstOf(alerts, FeedRows)

Answered(q) ==
  /\ polls[q] # NoPoll
  /\ ~Awaits(q, "dashboard") /\ ~Awaits(q, "alerts")

\* kpiSnapshot = data, before anything is drawn.
ReplaceSnapshot(q) ==
  /\ snapshot' = IF polls[q].alerts = ErrorBody THEN <<>> ELSE polls[q].alerts
  /\ isList' = (polls[q].alerts # ErrorBody)
  /\ polls' = [polls EXCEPT ![q] = NoPoll]

\* The cards and the traffic timeline.
DrawTotals(s) ==
  /\ alertsFired' = s.fired
  /\ prevTotal' = s.total
  /\ drawn' = drawn + Delta(s.total)
  /\ sampled' = s.counted
  /\ overtaken' = (overtaken \/ s.counted < sampled)

\* What follows the exception is not drawn; a window on the screen is left with
\* rows of an earlier snapshot.
LeaveWindow == /\ stale' = (modal # NoWindow)
               /\ UNCHANGED <<feed, activeModalKey, modal>>

\* data.summary is undefined: its first field is read right after kpiSnapshot
\* is set.
RenderNoSummary(q) ==
  /\ Answered(q)
  /\ polls[q].dashboard = ErrorBody
  /\ ReplaceSnapshot(q)
  /\ LeaveWindow
  /\ UNCHANGED <<store, alertsFired, chart, failures>>

\* GET /demo/metrics was answered by an error: its slice() is called right after
\* the timeline has its point.
RenderNoMetrics(q) ==
  /\ Answered(q)
  /\ polls[q].dashboard # ErrorBody
  /\ failures < MaxFailures
  /\ failures' = failures + 1
  /\ ReplaceSnapshot(q)
  /\ DrawTotals(polls[q].dashboard)
  /\ LeaveWindow
  /\ UNCHANGED store

\* An open KPI window keeps the table it was opened with.
Refreshed_MutNot(alerts, list) == modal

\* The KPI window that is asked for is drawn with the new snapshot; statsBuilder
\* calls filter() on the alerts, and throws if they are an error's body.
Refreshed(alerts, list) == IF activeModalKey /\ list THEN KpiTable(alerts) ELSE modal

\* All three have answered, GET /demo/metrics (of which the page needs to know
\* only whether there is an endpoint) last or not: draw the page.
Render(q) ==
  /\ Answered(q)
  /\ polls[q].dashboard # ErrorBody
  /\ ReplaceSnapshot(q)
  /\ DrawTotals(polls[q].dashboard)
  /\ \E endpoints \in IF recorded = 0 THEN {FALSE} ELSE BOOLEAN :
        feed' = Fed(snapshot', endpoints)
  /\ modal' = Refreshed(snapshot', isList')
  /\ stale' = (modal # NoWindow /\ ~isList')
  /\ UNCHANGED <<store, activeModalKey, failures>>

\* A click on the card.  Over an error's body the window does not open, but is
\* asked for from now on.
OpenKpiModal ==
  /\ modal = NoWindow
  /\ activeModalKey' = TRUE
  /\ modal' = IF isList THEN KpiTable(snapshot) ELSE NoWindow
  /\ stale' = FALSE
  /\ UNCHANGED <<store, polls, snapshot, isList, cards, chart, failures>>

CloseKpiModal ==
  /\ activeModalKey
  /\ activeModalKey' = FALSE
  /\ modal' = NoWindow
  /\ stale' = FALSE
  /\ UNCHANGED <<store, polls, snapshot, isList, cards, chart, failures>>

\* What a click on row i of the table opens: alert i of the snapshot there is
\* now, if there is one.  The dialog shows it and changes nothing here.
OpenAlertDetail(i) == IF i \in DOMAIN snapshot THEN snapshot[i] ELSE 0

-----------------------------------------------------------------------------
Init == /\ recorded = 0
        /\ fired = 0
        /\ polls = [q \in Polls |-> NoPoll]
        /\ snapshot = <<>> /\ isList = TRUE
        /\ feed = <<>> /\ alertsFired = 0
        /\ activeModalKey = FALSE /\ modal = NoWindow /\ stale = FALSE
        /\ prevTotal = 0
        /\ drawn = 0
        /\ sampled = 0
        /\ overtaken = FALSE
        /\ failures = 0

Answer(q) == AnswerDashboard(q) \/ AnswerAlerts(q)

Callback(q) == RenderNoSummary(q) \/ RenderNoMetrics(q) \/ Render(q)

Next == \/ Record
        \/ Fire
        \/ \E q \in Polls : Answer(q) \/ AnswerError(q) \/ Poll(q) \/ PollFails(q) \/ Callback(q)
        \/ OpenKpiModal
        \/ CloseKpiModal

Spec == Init /\ [][Next]_vars

\* The timer ticks, each call is answered or fails, and the browser runs the
\* callbacks of the answers.
Fairness == \A q \in Polls : WF_vars(Poll(q)) /\ WF_vars(Answer(q)) /\ WF_vars(Callback(q))

FairSpec == Spec /\ Fairness

-----------------------------------------------------------------------------
TypeOK ==
  /\ recorded \in Nat /\ fired \in Nat /\ failures \in Nat
  /\ polls \in [Polls -> Answers \cup {NoPoll}]
  /\ snapshot \in Seq(Nat) /\ isList \in BOOLEAN
  /\ feed \in Seq(Nat) /\ Len(feed) <= FeedRows
  /\ alertsFired \in Nat
  /\ prevTotal \in Nat /\ drawn \in Nat /\ sampled \in Nat
  /\ modal \in Seq(Nat) \cup {NoWindow}
  /\ activeModalKey \in BOOLEAN /\ stale \in BOOLEAN
  /\ overtaken \in BOOLEAN

\* A click on an alert in the KPI window opens the alert the row shows, and
\* not the one that has taken its index since: the window is drawn again in
\* the callback that replaces the snapshot, unless an error's body ends the
\* callback before; until the next drawing the rows may then open others.
RowsOpenTheirAlert ==
  modal # NoWindow /\ ~stale => \A i \in DOMAIN modal : OpenAlertDetail(i) = modal[i]

\* Until the buffer of the store is full, no event is missing from the traffic
\* timeline, in whatever order answers are drawn and however many calls fail;
\* and none is drawn twice unless an answer was overtaken by a later one.
TimelineCompleteUntilFull ==
  sampled <= MAX_EVENTS => /\ drawn >= sampled
                           /\ ~overtaken => drawn = sampled

\* When the store comes to rest, the page ends up showing its newest alerts
\* and their number, in the feed and in the KPI window if it is asked for,
\* although answers overtake each other and calls fail or answer with errors.
DashboardCatchesUp ==
  <>[](/\ feed = FirstOf(Newest(FetchLimit), FeedRows)
       /\ alertsFired = fired
       /\ prevTotal = Size
       /\ activeModalKey => modal = FirstOf(Newest(FetchLimit), TableRows))
=============================================================================
