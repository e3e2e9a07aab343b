------------------------ MODULE KpiDashboard_proofs ------------------------
(***************************************************************************)
(* The KPI page, for any number of polls under way, any buffer and any     *)
(* limits of the lists.                                                    *)
(*                                                                         *)
(* The timeline is a sum of differences of totals: it is never below the   *)
(* total drawn last, and equal to it unless an answer was overtaken        *)
(* (DrawnCovers).  The total is the number of events recorded until the    *)
(* buffer is full (TotalsAreCounted).  The window's table is that of the    *)
(* snapshot unless a callback ended between the two (WindowIsSnapshot).    *)
(***************************************************************************)
EXTENDS KpiDashboard, TLAPS

\* What size() reports of n events.
Capped(n) == IF n < MAX_EVENTS THEN n ELSE MAX_EVENTS

TotalsAreCounted ==
  /\ prevTotal = Capped(sampled)
  /\ \A q \in Polls : polls[q] # NoPoll /\ polls[q].dashboard \notin {Pending, ErrorBody} =>
        polls[q].dashboard.total = Capped(polls[q].dashboard.counted)

DrawnCovers == /\ drawn >= prevTotal
               /\ ~overtaken => drawn = prevTotal

WindowIsSnapshot ==
  modal # NoWindow => /\ activeModalKey
                      /\ ~stale => modal = KpiTable(snapshot)

IInv == /\ TypeOK
        /\ TotalsAreCounted
        /\ DrawnCovers
        /\ WindowIsSnapshot

-----------------------------------------------------------------------------
\* The first n elements of a sequence are a sequence, of at most n elements
\* which are in their places.
LEMMA FirstOfIsPrefix ==
  ASSUME NEW s \in Seq(Nat), NEW n \in Nat
  PROVE  /\ FirstOf(s, n) \in Seq(Nat)
         /\ Len(FirstOf(s, n)) <= n
         /\ \A i \in DOMAIN FirstOf(s, n) : i \in DOMAIN s /\ FirstOf(s, n)[i] = s[i]
<1> DEFINE m == IF Len(s) < n THEN Len(s) ELSE n
<1>1. m \in Nat /\ m <= Len(s) /\ m <= n
  OBVIOUS
<1>2. FirstOf(s, n) = SubSeq(s, 1, m)
  BY DEF FirstOf
<1>3. /\ SubSeq(s, 1, m) \in Seq(Nat) /\ Len(SubSeq(s, 1, m)) = m
      /\ \A i \in 1..m : SubSeq(s, 1, m)[i] = s[i]
  BY <1>1
<1> QED BY <1>1, <1>2, <1>3

\* The list of alerts the server sends.
LEMMA NewestType ==
  ASSUME TypeOK, NEW limit \in Nat
  PROVE  Newest(limit) \in Seq(Nat)
<1> DEFINE m == IF fired < limit THEN fired ELSE limit
<1>1. fired \in Nat /\ m \in Nat /\ m <= fired
  BY DEF TypeOK
<1>2. \A i \in 1..m : fired - i + 1 \in Nat
  BY <1>1
<1>3. [i \in 1..m |-> fired - i + 1] \in [1..m -> Nat]
  BY <1>2
<1>4. [i \in 1..m |-> fired - i + 1] \in Seq(Nat)
  BY <1>1, <1>3
<1> QED BY <1>4 DEF Newest

\* A poll whose two answers are in.
LEMMA AnsweredType ==
  ASSUME TypeOK, NEW q \in Polls, polls[q] # NoPoll
  PROVE  /\ polls[q] \in Answers
         /\ polls[q].dashboard \notin {Pending, ErrorBody} => polls[q].dashboard \in Summary
         /\ polls[q].alerts \notin {Pending, ErrorBody} => polls[q].alerts \in Seq(Nat)
BY DEF TypeOK, Answers

-----------------------------------------------------------------------------
\* The answers of the server.
LEMMA AnswerSteps ==
  ASSUME IInv, NEW q \in Polls, Answer(q) \/ AnswerError(q) \/ Poll(q) \/ PollFails(q)
  PROVE  IInv'
<1>t. /\ TypeOK /\ polls \in [Polls -> Answers \cup {NoPoll}]
      /\ recorded \in Nat /\ fired \in Nat /\ failures \in Nat
  BY DEF IInv, TypeOK
<1>c. MAX_EVENTS \in Nat /\ FetchLimit \in Nat /\ Pending \notin Summary \cup Seq(Nat) /\ NoPoll \notin Answers
  BY KpiAssumption
<1>p. UNCHANGED page => WindowIsSnapshot' /\ DrawnCovers' /\ prevTotal' = prevTotal /\ sampled' = sampled
  BY DEF page, chart, window, IInv, WindowIsSnapshot, DrawnCovers, KpiTable, FirstOf
<1>1. CASE AnswerDashboard(q)
  <2> DEFINE s == [total |-> Size, fired |-> fired, counted |-> recorded]
  <2>1. s \in Summary /\ s.total = Capped(s.counted)
    BY <1>t, <1>c DEF Summary, Size, Capped
  <2>2. polls[q] \in Answers
    BY <1>1, <1>t, AnsweredType DEF AnswerDashboard, Awaits
  <2> HIDE DEF s
  <2>3. polls' = [polls EXCEPT ![q] = [polls[q] EXCEPT !.dashboard = s]]
    BY <1>1 DEF AnswerDashboard, s
  <2>4. /\ [polls[q] EXCEPT !.dashboard = s] \in Answers
        /\ [polls[q] EXCEPT !.dashboard = s].dashboard = s
    BY <2>1, <2>2 DEF Answers
  <2>5. TypeOK'
    BY <1>1, <1>t, <2>3, <2>4 DEF AnswerDashboard, store, page, cards, chart, window, TypeOK
  <2>6. TotalsAreCounted'
    BY <1>1, <1>t, <1>p, <2>1, <2>3, <2>4 DEF AnswerDashboard, IInv, TotalsAreCounted, Capped
  <2> QED BY <1>1, <1>p, <2>5, <2>6 DEF AnswerDashboard, IInv
<1>2. CASE AnswerAlerts(q)
  <2>1. polls[q] \in Answers /\ Newest(FetchLimit) \in Seq(Nat)
    BY <1>2, <1>t, <1>c, AnsweredType, NewestType DEF AnswerAlerts, Awaits
  <2>2. polls' = [polls EXCEPT ![q] = [polls[q] EXCEPT !.alerts = Newest(FetchLimit)]]
    BY <1>2 DEF AnswerAlerts
  <2>3. /\ [polls[q] EXCEPT !.alerts = Newest(FetchLimit)] \in Answers
        /\ [polls[q] EXCEPT !.alerts = Newest(FetchLimit)].dashboard = polls[q].dashboard
        /\ polls[q] # NoPoll
    BY <1>2, <2>1 DEF Answers, AnswerAlerts, Awaits
  <2>4. TypeOK'
    BY <1>2, <1>t, <2>2, <2>3 DEF AnswerAlerts, store, page, cards, chart, window, TypeOK
  <2>5. TotalsAreCounted'
    BY <1>2, <1>t, <1>p, <2>2, <2>3 DEF AnswerAlerts, IInv, TotalsAreCounted, Capped
  <2> QED BY <1>2, <1>p, <2>4, <2>5 DEF AnswerAlerts, IInv
<1>3. CASE Poll(q)
  <2>1. /\ [dashboard |-> Pending, alerts |-> Pending] \in Answers
        /\ polls' = [polls EXCEPT ![q] = [dashboard |-> Pending, alerts |-> Pending]]
    BY <1>3 DEF Poll, Answers
  <2>2. TypeOK'
    BY <1>3, <1>t, <2>1 DEF Poll, store, page, cards, chart, window, TypeOK
  <2>3. TotalsAreCounted'
    BY <1>3, <1>t, <1>p, <2>1 DEF Poll, IInv, TotalsAreCounted, Capped
  <2> QED BY <1>3, <1>p, <2>2, <2>3 DEF Poll, IInv
<1>4. CASE PollFails(q)
  <2>1. TypeOK'
    BY <1>4, <1>t DEF PollFails, store, page, cards, chart, window, TypeOK
  <2>2. TotalsAreCounted'
    BY <1>4, <1>t, <1>p DEF PollFails, IInv, TotalsAreCounted, Capped
  <2> QED BY <1>4, <1>p, <2>1, <2>2 DEF PollFails, IInv
<1>5. CASE AnswerError(q)
  <2>1. PICK request \in {"dashboard", "alerts"} :
           Awaits(q, request) /\ polls' = [polls EXCEPT ![q][request] = ErrorBody]
    BY <1>5 DEF AnswerError
  <2>2. polls[q] \in Answers /\ polls[q] # NoPoll
    BY <1>t, <2>1, AnsweredType DEF Awaits
  <2> DEFINE y == [polls[q] EXCEPT ![request] = ErrorBody]
  <2>3. /\ y \in Answers
        /\ y.dashboard = polls[q].dashboard \/ y.dashboard = ErrorBody
    BY <2>2 DEF Answers
  <2>4. polls' = [polls EXCEPT ![q] = y]
    BY <2>1
  <2> HIDE DEF y
  <2>5. /\ failures' \in Nat /\ UNCHANGED <<store, page>>
    BY <1>5, <1>t DEF AnswerError
  <2>6. TypeOK'
    BY <1>t, <2>3, <2>4, <2>5 DEF store, page, cards, chart, window, TypeOK
  <2>7. TotalsAreCounted'
    BY <1>t, <1>p, <2>2, <2>3, <2>4, <2>5 DEF IInv, TotalsAreCounted, Capped
  <2> QED BY <1>p, <2>5, <2>6, <2>7 DEF IInv
<1> QED BY <1>1, <1>2, <1>3, <1>4, <1>5 DEF Answer

\* The arithmetic of a new point of the timeline.
LEMMA NewPoint ==
  ASSUME NEW d \in Nat, NEW before \in Nat, NEW total \in Nat, d >= before
  PROVE  LET delta == IF total > before THEN total - before ELSE 0
         IN  /\ d + delta \in Nat
             /\ d + delta >= total
             /\ d = before /\ total >= before => d + delta = total
OBVIOUS

\* The snapshot of an answered poll.
LEMMA SnapshotType ==
  ASSUME IInv, NEW q \in Polls, Answered(q), ReplaceSnapshot(q)
  PROVE  /\ snapshot' \in Seq(Nat) /\ isList' \in BOOLEAN
         /\ polls' \in [Polls -> Answers \cup {NoPoll}]
         /\ \A r \in Polls : polls'[r] # NoPoll => polls'[r] = polls[r]
<1>1. polls[q].alerts # ErrorBody => polls[q].alerts \in Seq(Nat)
  BY AnsweredType DEF Answered, Awaits, IInv
<1>2. polls \in [Polls -> Answers \cup {NoPoll}] /\ polls' = [polls EXCEPT ![q] = NoPoll]
  BY DEF IInv, TypeOK, ReplaceSnapshot
<1>3. <<>> \in Seq(Nat)
  OBVIOUS
<1> QED BY <1>1, <1>2, <1>3 DEF ReplaceSnapshot

\* A summary is drawn: the totals stay counted, and the timeline covers them.
LEMMA TotalsDrawn ==
  ASSUME IInv, NEW q \in Polls, Answered(q), polls[q].dashboard # ErrorBody,
         DrawTotals(polls[q].dashboard)
  PROVE  /\ alertsFired' \in Nat /\ prevTotal' \in Nat /\ drawn' \in Nat /\ sampled' \in Nat
         /\ overtaken' \in BOOLEAN
         /\ prevTotal' = Capped(sampled')
         /\ DrawnCovers'
<1> DEFINE s == polls[q].dashboard
<1>c. MAX_EVENTS \in Nat
  BY KpiAssumption
<1>1. s \in Summary /\ s.total = Capped(s.counted)
  BY AnsweredType DEF Answered, Awaits, IInv, TotalsAreCounted
<1>2. s.total \in Nat /\ s.fired \in Nat /\ s.counted \in Nat
  BY <1>1 DEF Summary
<1>3. /\ alertsFired' = s.fired /\ prevTotal' = s.total /\ sampled' = s.counted
      /\ drawn' = drawn + (IF s.total > prevTotal THEN s.total - prevTotal ELSE 0)
      /\ overtaken' = (overtaken \/ s.counted < sampled)
  BY DEF DrawTotals, Delta
<1> HIDE DEF s
<1>t. /\ drawn \in Nat /\ prevTotal \in Nat /\ sampled \in Nat /\ overtaken \in BOOLEAN
      /\ drawn >= prevTotal /\ prevTotal = Capped(sampled) /\ (~overtaken => drawn = prevTotal)
  BY DEF IInv, TypeOK, DrawnCovers, TotalsAreCounted
<1>6. /\ drawn' \in Nat /\ drawn' >= s.total
      /\ drawn = prevTotal /\ s.total >= prevTotal => drawn' = s.total
  BY <1>2, <1>3, <1>t, NewPoint
<1>7. s.counted >= sampled => s.total >= prevTotal
  BY <1>1, <1>2, <1>c, <1>t DEF Capped
<1>8. overtaken' \in BOOLEAN
  BY <1>3
<1>9. DrawnCovers'
  <2>1. prevTotal' = s.total
    BY <1>3
  <2>2. ASSUME ~overtaken' PROVE drawn' = s.total
    <3>1. ~overtaken /\ ~(s.counted < sampled)
      BY <1>3, <2>2, Zenon
    <3>2. drawn = prevTotal
      BY <1>t, <3>1, Zenon
    <3>3. s.counted >= sampled
      BY <1>2, <1>t, <3>1
    <3> QED BY <1>6, <1>7, <3>2, <3>3
  <2> QED BY <1>6, <2>1, <2>2 DEF DrawnCovers
<1> QED BY <1>1, <1>2, <1>3, <1>6, <1>8, <1>9 DEF Capped

\* The page is drawn, or half of it.
LEMMA CallbackSteps ==
  ASSUME IInv, NEW q \in Polls, Callback(q)
  PROVE  IInv'
<1>c. /\ FeedRows \in Nat /\ TableRows \in Nat /\ NoWindow \notin Seq(Nat)
  BY KpiAssumption
<1>t. /\ recorded \in Nat /\ fired \in Nat /\ failures \in Nat
      /\ feed \in Seq(Nat) /\ Len(feed) <= FeedRows /\ alertsFired \in Nat
      /\ prevTotal \in Nat /\ drawn \in Nat /\ sampled \in Nat /\ overtaken \in BOOLEAN
      /\ modal \in Seq(Nat) \cup {NoWindow} /\ activeModalKey \in BOOLEAN /\ stale \in BOOLEAN
      /\ modal # NoWindow => activeModalKey
  BY DEF IInv, TypeOK, WindowIsSnapshot
<1>1. Answered(q) /\ ReplaceSnapshot(q) /\ recorded' = recorded /\ fired' = fired
  BY DEF Callback, RenderNoSummary, RenderNoMetrics, Render, store
<1>2. /\ snapshot' \in Seq(Nat) /\ isList' \in BOOLEAN
      /\ polls' \in [Polls -> Answers \cup {NoPoll}]
      /\ \A r \in Polls : polls'[r] # NoPoll => polls'[r] = polls[r]
  BY <1>1, SnapshotType
<1>3. failures' \in Nat
  <2>1. CASE RenderNoSummary(q)
    <3>1. failures' = failures
      BY <2>1 DEF RenderNoSummary
    <3> QED BY <1>t, <3>1
  <2>2. CASE RenderNoMetrics(q)
    <3>1. failures' = failures + 1
      BY <2>2 DEF RenderNoMetrics
    <3> QED BY <1>t, <3>1
  <2>3. CASE Render(q)
    <3>1. failures' = failures
      BY <2>3 DEF Render
    <3> QED BY <1>t, <3>1
  <2> QED BY <2>1, <2>2, <2>3 DEF Callback
\* The totals: left alone by the first of the three, drawn by the others.
<1>4. /\ alertsFired' \in Nat /\ prevTotal' \in Nat /\ drawn' \in Nat /\ sampled' \in Nat
      /\ overtaken' \in BOOLEAN
      /\ prevTotal' = Capped(sampled')
      /\ DrawnCovers'
  <2>1. CASE RenderNoSummary(q)
    <3>1. UNCHANGED <<alertsFired, chart>>
      BY <2>1 DEF RenderNoSummary
    <3> QED BY <1>t, <3>1 DEF chart, IInv, TotalsAreCounted, Capped, DrawnCovers
  <2>2. CASE RenderNoMetrics(q) \/ Render(q)
    <3>1. polls[q].dashboard # ErrorBody /\ DrawTotals(polls[q].dashboard)
      BY <2>2 DEF RenderNoMetrics, Render
    <3> QED BY <1>1, <3>1, TotalsDrawn
  <2> QED BY <2>1, <2>2 DEF Callback
\* The feed and the window: left alone by the first two, drawn by the last.
<1>5. /\ feed' \in Seq(Nat) /\ Len(feed') <= FeedRows
      /\ modal' \in Seq(Nat) \cup {NoWindow}
      /\ activeModalKey' \in BOOLEAN /\ stale' \in BOOLEAN
      /\ modal' # NoWindow => activeModalKey' /\ (~stale' => modal' = FirstOf(snapshot', TableRows))
  <2>1. CASE RenderNoSummary(q) \/ RenderNoMetrics(q)
    <3>1. stale' = (modal # NoWindow) /\ UNCHANGED <<feed, activeModalKey, modal>>
      BY <2>1 DEF RenderNoSummary, RenderNoMetrics, LeaveWindow
    <3> QED BY <1>t, <3>1
  <2>2. CASE Render(q)
    <3>1. /\ feed' = FirstOf(snapshot', FeedRows)
          /\ modal' = IF activeModalKey /\ isList' THEN FirstOf(snapshot', TableRows) ELSE modal
          /\ stale' = (modal # NoWindow /\ ~isList')
          /\ activeModalKey' = activeModalKey
      BY <2>2 DEF Render, Fed, Refreshed, KpiTable
    <3>2. /\ FirstOf(snapshot', FeedRows) \in Seq(Nat) /\ Len(FirstOf(snapshot', FeedRows)) <= FeedRows
          /\ FirstOf(snapshot', TableRows) \in Seq(Nat)
      BY <1>c, <1>2, FirstOfIsPrefix
    <3>3. CASE activeModalKey /\ isList'
      BY <1>t, <3>1, <3>2, <3>3
    <3>4. CASE ~(activeModalKey /\ isList')
      <4>1. modal' = modal
        BY <3>1, <3>4
      <4>2. modal # NoWindow => stale'
        BY <1>t, <3>1, <3>4
      <4>3. stale' \in BOOLEAN
        BY <3>1
      <4> QED BY <1>t, <3>1, <3>2, <4>1, <4>2, <4>3
    <3> QED BY <3>3, <3>4
  <2> QED BY <2>1, <2>2 DEF Callback
<1>6. TypeOK'
  BY <1>t, <1>1, <1>2, <1>3, <1>4, <1>5 DEF TypeOK
<1>7. TotalsAreCounted'
  BY <1>2, <1>4 DEF IInv, TotalsAreCounted, Capped
<1>8. WindowIsSnapshot'
  BY <1>5 DEF WindowIsSnapshot, KpiTable
<1> QED BY <1>4, <1>6, <1>7, <1>8 DEF IInv

-----------------------------------------------------------------------------
\* The invariant is inductive.
THEOREM Inductive == Spec => []IInv
<1>c. /\ MAX_EVENTS \in Nat /\ FeedRows \in Nat /\ TableRows \in Nat
      /\ NoPoll \notin Answers /\ NoWindow \notin Seq(Nat)
  BY KpiAssumption
<1>1. Init => IInv
  <2> SUFFICES ASSUME Init PROVE IInv
    OBVIOUS
  <2>1. TypeOK
    <3>1. polls \in [Polls -> Answers \cup {NoPoll}]
      BY DEF Init
    <3>2. <<>> \in Seq(Nat) /\ Len(<<>>) = 0
      OBVIOUS
    <3>4. feed \in Seq(Nat) /\ Len(feed) <= FeedRows
      BY <1>c, <3>2 DEF Init
    <3>5. snapshot \in Seq(Nat) /\ isList \in BOOLEAN
      BY <3>2 DEF Init
    <3>6. /\ recorded \in Nat /\ fired \in Nat /\ failures \in Nat
          /\ prevTotal \in Nat /\ drawn \in Nat /\ sampled \in Nat /\ alertsFired \in Nat
      BY DEF Init
    <3>7. /\ modal \in Seq(Nat) \cup {NoWindow} /\ overtaken \in BOOLEAN
          /\ activeModalKey \in BOOLEAN /\ stale \in BOOLEAN
      BY DEF Init
    <3> QED BY <3>1, <3>4, <3>5, <3>6, <3>7 DEF TypeOK
  <2> QED BY <1>c, <2>1 DEF Init, IInv, TotalsAreCounted, Capped, DrawnCovers, WindowIsSnapshot
<1>2. IInv /\ [Next]_vars => IInv'
  <2> SUFFICES ASSUME IInv, [Next]_vars PROVE IInv'
    OBVIOUS
  <2>1. CASE UNCHANGED vars
    BY <2>1 DEF vars, store, page, cards, chart, window, IInv, TypeOK, TotalsAreCounted, Capped, DrawnCovers,
                WindowIsSnapshot, KpiTable, FirstOf
  <2>2. CASE Record \/ Fire
    <3>1. recorded' \in Nat /\ fired' \in Nat /\ UNCHANGED <<polls, page, failures>>
      BY <2>2 DEF Record, Fire, IInv, TypeOK
    <3> QED BY <3>1 DEF page, cards, chart, window, IInv, TypeOK, TotalsAreCounted, Capped, DrawnCovers,
                        WindowIsSnapshot, KpiTable, FirstOf
  <2>3. CASE OpenKpiModal \/ CloseKpiModal
    <3>1. UNCHANGED <<store, polls, snapshot, isList, cards, chart, failures>>
      BY <2>3 DEF OpenKpiModal, CloseKpiModal
    <3>2. modal' = NoWindow \/ (activeModalKey' = TRUE /\ modal' = KpiTable(snapshot))
      BY <2>3 DEF OpenKpiModal, CloseKpiModal
    <3>3. KpiTable(snapshot) \in Seq(Nat)
      BY <1>c, FirstOfIsPrefix DEF KpiTable, IInv, TypeOK
    <3>4. activeModalKey' \in BOOLEAN /\ stale' \in BOOLEAN
      BY <2>3 DEF OpenKpiModal, CloseKpiModal
    <3>5. TypeOK'
      BY <3>1, <3>2, <3>3, <3>4 DEF store, cards, chart, IInv, TypeOK
    <3>6. WindowIsSnapshot'
      BY <3>1, <3>2 DEF WindowIsSnapshot, KpiTable, FirstOf
    <3> QED BY <3>1, <3>5, <3>6 DEF store, chart, IInv, TotalsAreCounted, Capped, DrawnCovers
  <2> QED BY <2>1, <2>2, <2>3, AnswerSteps, CallbackSteps DEF Next
<1> QED BY <1>1, <1>2, PTL DEF Spec

\* The page is well typed; its feed has at most FeedRows alerts.
THEOREM TypeCorrect == Spec => []TypeOK
<1>1. IInv => TypeOK
  BY DEF IInv
<1> QED BY <1>1, Inductive, PTL

\* A row of the KPI window opens the alert it shows, however many polls have
\* replaced the snapshot since the window was opened, except between an error's
\* body and the next drawing of the window.
THEOREM RowsAreTrue == Spec => []RowsOpenTheirAlert
<1>1. IInv => RowsOpenTheirAlert
  <2> SUFFICES ASSUME IInv, modal # NoWindow, ~stale, NEW i \in DOMAIN modal
               PROVE  OpenAlertDetail(i) = modal[i]
    BY DEF RowsOpenTheirAlert
  <2>1. modal = FirstOf(snapshot, TableRows) /\ snapshot \in Seq(Nat) /\ TableRows \in Nat
    BY KpiAssumption DEF IInv, TypeOK, WindowIsSnapshot, KpiTable
  <2> QED BY <2>1, FirstOfIsPrefix DEF OpenAlertDetail
<1> QED BY <1>1, Inductive, PTL

\* Until the buffer is full no event is missing from the timeline, nor drawn
\* twice unless an answer was overtaken.
THEOREM TimelineIsComplete == Spec => []TimelineCompleteUntilFull
<1>1. IInv => TimelineCompleteUntilFull
  BY KpiAssumption DEF IInv, TypeOK, TotalsAreCounted, Capped, DrawnCovers, TimelineCompleteUntilFull
<1> QED BY <1>1, Inductive, PTL
=============================================================================
