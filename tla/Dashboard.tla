----------------------------- MODULE Dashboard -----------------------------
(***************************************************************************)
(* The log panel and the AI panel of the demo's dashboard (index.html),    *)
(* and what they talk to: the ring buffer of InMemoryLogAppender behind    *)
(* DemoController, and AiController.                                       *)
(*                                                                         *)
(* The browser runs one script at a time, and each step of it below is one *)
(* run of a callback; what is concurrent is the server, whose answers come *)
(* back in any order.  Log lines are numbered in the order in which they   *)
(* enter the buffer.                                                       *)
(***************************************************************************)
EXTENDS Naturals, Sequences, FiniteSets

CONSTANTS
  MAX_SIZE,     \* lines the appender keeps (500)
  Limit,        \* lines the panel asks for (300)
  Levels,       \* INFO, WARN, ...
  LevelOf,      \* LevelOf[n]: the level of line n
  Buttons,      \* the levels that have a filter button (all but TRACE)
  AnyLevel,     \* activeLogLevel: no filter
  Connections,  \* the browser's connections to the server
  NoPanel,      \* there is no AI panel
  MaxLines,     \* bound: log lines
  MaxClears,    \* bound: clicks on Clear
  MaxAsks,      \* bound: questions to the AI
  MaxFailures   \* bound: calls that fail

Lines == 1..MaxLines

ASSUME DashboardAssumption ==
  /\ MAX_SIZE \in Nat \ {0} /\ Limit \in Nat
  /\ MaxLines \in Nat /\ MaxClears \in Nat /\ MaxAsks \in Nat /\ MaxFailures \in Nat
  /\ LevelOf \in [Lines -> Levels]
  /\ Buttons \subseteq Levels /\ AnyLevel \notin Levels
  /\ NoPanel \notin [asked : Nat, shows : Nat]

VARIABLES
  buffer,          \* BUFFER, newest first
  logged,          \* history: lines added to it so far
  appending,       \* what the logger in append() does next, if there is one
  walk,            \* walk[c]: the line at which the copy of BUFFER made for the
                   \*   call on connection c stands, or 0
  conn,            \* conn[c]: the call on connection c
  allLogs,         \* the lines of the last answer, or <<>> if it was an error,
  isList,          \*   whose JSON body is no list
  rows,            \* the rows in the log viewer, with the index each opens
  activeLogLevel,  \* the filter
  logsPaused,      \* polling is paused
  dialog,          \* the detail dialog of a line is open
  panel,           \* the AI panel: the question it was opened for, and the
                   \*   question whose answer it shows (0: "Analyzing...")
  asks, clears, failures  \* questions, clicks on Clear, failed calls so far

server == <<buffer, logged, appending, walk>>
logView == <<allLogs, isList, rows, activeLogLevel, logsPaused>>
aiView == <<dialog, panel, asks>>
vars == <<server, conn, logView, aiView, clears, failures>>

\* A call: body is empty, the lines read so far or answered, or the number of
\* a question.  An "error" is an answer too, with a JSON body; the promise of
\* fetch is rejected, or r.json() throws, only when the call has "failed".
Call == [kind : {"none", "getLogs", "clearLogs", "ask"},
         state : {"idle", "sent", "answered", "error", "failed"}, body : Seq(Nat)]

Idle == [kind |-> "none", state |-> "idle", body |-> <<>>]

-----------------------------------------------------------------------------
(* The server.                                                             *)

\* Operators named ..._Mut... are plausible bugs, used by no action.

\* One line too many stays.
Size_MutGreater ==
  /\ \/ appending = "no" /\ logged < MaxLines
     \/ appending = "sizing"
  /\ appending' = IF Len(buffer) > MAX_SIZE THEN "polling" ELSE "adding"
  /\ UNCHANGED <<buffer, logged, walk, conn, logView, aiView, clears, failures>>

\* append(), up to the test of its loop: BUFFER.size() >= MAX_SIZE.  logback
\* calls it under the appender's lock, one line at a time.  Lines can only be
\* removed while size() counts, one by one: what it returns has been the length.
Size ==
  /\ \/ appending = "no" /\ logged < MaxLines
     \/ appending = "sizing"
  /\ appending' = IF Len(buffer) >= MAX_SIZE THEN "polling" ELSE "adding"
  /\ UNCHANGED <<buffer, logged, walk, conn, logView, aiView, clears, failures>>

\* The newest line is removed in place of the oldest.
PollLast_MutFirst ==
  /\ appending = "polling"
  /\ buffer' = IF buffer = <<>> THEN <<>> ELSE Tail(buffer)
  /\ appending' = "sizing"
  /\ UNCHANGED <<logged, walk, conn, logView, aiView, clears, failures>>

\* The body of the loop; a clear may have emptied the deque since.
PollLast ==
  /\ appending = "polling"
  /\ buffer' = IF buffer = <<>> THEN <<>> ELSE SubSeq(buffer, 1, Len(buffer) - 1)
  /\ appending' = "sizing"
  /\ UNCHANGED <<logged, walk, conn, logView, aiView, clears, failures>>

AddFirst == /\ appending = "adding"
            /\ buffer' = <<logged + 1>> \o buffer
            /\ logged' = logged + 1
            /\ appending' = "no"
            /\ UNCHANGED <<walk, conn, logView, aiView, clears, failures>>

Sent(c, kind) == conn[c].kind = kind /\ conn[c].state = "sent"

Answer(c, body) == conn' = [conn EXCEPT ![c].state = "answered", ![c].body = body]

Buffered == {buffer[i] : i \in DOMAIN buffer}

\* GET /demo/logs copies BUFFER by a walk from its newest line to its oldest,
\* while lines are added, removed and cleared.  A walk that stands on a removed
\* node starts over, if the node has been unlinked by then, and goes on without
\* its line otherwise.
StartWalk(c) ==
  /\ Sent(c, "getLogs")
  /\ walk[c] \notin Buffered
  /\ walk' = [walk EXCEPT ![c] = IF buffer = <<>> THEN 0 ELSE buffer[1]]
  /\ conn' = [conn EXCEPT ![c].body = <<>>]
  /\ UNCHANGED <<buffer, logged, appending, logView, aiView, clears, failures>>

\* What has been read when the walk leaves the node, and the nodes after it.
Read(c) == IF walk[c] \in Buffered THEN Append(conn[c].body, walk[c]) ELSE conn[c].body

Older(c) == {n \in Buffered : n < walk[c]}

Step(c) ==
  /\ Sent(c, "getLogs")
  /\ \E n \in Older(c) : /\ \A m \in Older(c) : m <= n
                         /\ walk' = [walk EXCEPT ![c] = n]
  /\ conn' = [conn EXCEPT ![c].body = Read(c)]
  /\ UNCHANGED <<buffer, logged, appending, logView, aiView, clears, failures>>

\* The walk has come to the end: the newest lines of the copy are the answer.
GetLogs(c) ==
  /\ Sent(c, "getLogs")
  /\ Older(c) = {}
  /\ walk[c] = 0 => buffer = <<>>
  /\ Answer(c, SubSeq(Read(c), 1, IF Len(Read(c)) < Limit THEN Len(Read(c)) ELSE Limit))
  /\ walk' = [walk EXCEPT ![c] = 0]
  /\ UNCHANGED <<buffer, logged, appending, logView, aiView, clears, failures>>

\* DELETE /demo/logs: ConcurrentLinkedDeque.clear polls the first line until
\* there is none; loggers go on adding lines meanwhile.
ClearFirst(c) ==
  /\ Sent(c, "clearLogs")
  /\ buffer # <<>>
  /\ buffer' = Tail(buffer)
  /\ UNCHANGED <<logged, appending, walk, conn, logView, aiView, clears, failures>>

ClearLogs(c) ==
  /\ Sent(c, "clearLogs")
  /\ buffer = <<>>
  /\ Answer(c, <<>>)
  /\ UNCHANGED <<server, logView, aiView, clears, failures>>

\* POST /demo/ai/analyze: the provider's answer, or success = false.
Analyze(c) ==
  /\ Sent(c, "ask")
  /\ Answer(c, conn[c].body)
  /\ UNCHANGED <<server, logView, aiView, clears, failures>>

\* The network or the server fails; what was done stays done.  An error's body
\* only matters to the log panel: the other two handlers treat it as a failure.
Fail(c) ==
  /\ conn[c].state = "sent"
  /\ failures < MaxFailures
  /\ \E state \in {"failed", "error"} :
        /\ state = "error" => conn[c].kind = "getLogs"
        /\ conn' = [conn EXCEPT ![c].state = state, ![c].body = IF conn[c].kind = "ask" THEN @ ELSE <<>>]
  /\ walk' = [walk EXCEPT ![c] = 0]
  /\ failures' = failures + 1
  /\ UNCHANGED <<buffer, logged, appending, logView, aiView, clears>>

-----------------------------------------------------------------------------
(* The log panel.                                                          *)

\* fetch(): on a free connection; the browser lets others wait for one.
Send(c, kind, body) ==
  /\ conn[c] = Idle
  /\ conn' = [conn EXCEPT ![c] = [kind |-> kind, state |-> "sent", body |-> body]]

Settled(c, kind) == conn[c].kind = kind /\ conn[c].state \in {"answered", "error", "failed"}

Release(c) == conn' = [conn EXCEPT ![c] = Idle]

Shown(level, n) == level = AnyLevel \/ LevelOf[n] = level

\* renderLogs: a row for each line that passes the filter, which opens the
\* line at its index in all (indexOf compares objects: a line of another
\* answer has none).  The rows stand in the order of the lines.
Rendered(logs, all, level) ==
  {[line |-> logs[i], index |-> IF logs = all THEN i ELSE 0] :
      i \in {j \in DOMAIN logs : Shown(level, logs[j])}}

\* renderLogs, over a list or over the body of an error: that one has no filter()
\* to call, and without a filter its length is undefined, which counts as no lines.
Redrawn(logs, list, level) ==
  IF list \/ level = AnyLevel THEN Rendered(logs, logs, level) ELSE rows

\* setInterval(updateLogs, 2000): the timer does not wait for an answer.
Poll(c) == /\ ~logsPaused
           /\ Send(c, "getLogs", <<>>)
           /\ UNCHANGED <<server, logView, aiView, clears, failures>>

\* The rows are made before allLogs is the new answer.
UpdateLogs_MutRendersFirst(c) ==
  /\ Settled(c, "getLogs")
  /\ conn[c].state # "failed"
  /\ allLogs' = conn[c].body
  /\ isList' = (conn[c].state = "answered")
  /\ rows' = IF isList' THEN Rendered(conn[c].body, allLogs, activeLogLevel) ELSE rows
  /\ Release(c)
  /\ UNCHANGED <<server, activeLogLevel, logsPaused, aiView, clears, failures>>

\* An answer that is not longer than what is shown is taken for the same.
UpdateLogs_MutOnlyLonger(c) ==
  /\ Settled(c, "getLogs")
  /\ conn[c].state # "failed"
  /\ IF Len(conn[c].body) > Len(allLogs)
     THEN /\ allLogs' = conn[c].body
          /\ isList' = (conn[c].state = "answered")
          /\ rows' = Redrawn(conn[c].body, isList', activeLogLevel)
     ELSE UNCHANGED <<allLogs, isList, rows>>
  /\ Release(c)
  /\ UNCHANGED <<server, activeLogLevel, logsPaused, aiView, clears, failures>>

\* The rest of updateLogs: allLogs = logs; renderLogs(logs), which may throw.
\* It does not look at r.ok.
UpdateLogs(c) ==
  /\ Settled(c, "getLogs")
  /\ conn[c].state # "failed"
  /\ allLogs' = conn[c].body
  /\ isList' = (conn[c].state = "answered")
  /\ rows' = Redrawn(conn[c].body, isList', activeLogLevel)
  /\ Release(c)
  /\ UNCHANGED <<server, activeLogLevel, logsPaused, aiView, clears, failures>>

\* catch(e) { // silent }
UpdateFails(c) ==
  /\ Settled(c, "getLogs")
  /\ conn[c].state = "failed"
  /\ Release(c)
  /\ UNCHANGED <<server, logView, aiView, clears, failures>>

\* The Clear button, and what its handler does when the call is settled.
ClickClear(c) ==
  /\ clears < MaxClears
  /\ clears' = clears + 1
  /\ Send(c, "clearLogs", <<>>)
  /\ UNCHANGED <<server, logView, aiView, failures>>

Cleared(c) ==
  /\ Settled(c, "clearLogs")
  /\ allLogs' = <<>>
  /\ isList' = TRUE
  /\ rows' = {}
  /\ Release(c)
  /\ UNCHANGED <<server, activeLogLevel, logsPaused, aiView, clears, failures>>

TogglePause == /\ logsPaused' = ~logsPaused
               /\ UNCHANGED <<server, conn, allLogs, isList, rows, activeLogLevel, aiView, clears, failures>>

\* A level button; the search box filters in the same way.
SetLevel(level) ==
  /\ activeLogLevel' = level
  /\ rows' = Redrawn(allLogs, isList, level)
  /\ UNCHANGED <<server, conn, allLogs, isList, logsPaused, aiView, clears, failures>>

-----------------------------------------------------------------------------
(* The detail dialog and its AI panel.                                     *)

\* openLogDetail, openDetailModal: the dialog shows allLogs[row.index], which is
\* what the assistant will be asked about, and a panel left from the dialog
\* before is removed.  An index beyond the list opens nothing.
OpenLogDetail(row) ==
  /\ row.index \in DOMAIN allLogs
  /\ dialog' = TRUE
  /\ panel' = NoPanel
  /\ UNCHANGED <<server, conn, logView, asks, clears, failures>>

\* The dialog is hidden; its panel stays in the page.
CloseDialog == /\ dialog
               /\ dialog' = FALSE
               /\ UNCHANGED <<server, conn, logView, panel, asks, clears, failures>>

ClosePanel == /\ dialog
              /\ panel # NoPanel
              /\ panel' = NoPanel
              /\ UNCHANGED <<server, conn, logView, dialog, asks, clears, failures>>

\* runAiAction up to its await: a panel in place of the one before, and the
\* question.
RunAiAction(c) ==
  /\ dialog
  /\ asks < MaxAsks
  /\ asks' = asks + 1
  /\ panel' = [asked |-> asks + 1, shows |-> 0]
  /\ Send(c, "ask", <<asks + 1>>)
  /\ UNCHANGED <<server, logView, dialog, clears, failures>>

\* A failed call is not shown.
RenderAi_MutIgnoresFailure(c) ==
  /\ Settled(c, "ask")
  /\ panel' = IF panel = NoPanel \/ conn[c].state = "failed" THEN panel
              ELSE [panel EXCEPT !.shows = conn[c].body[1]]
  /\ Release(c)
  /\ UNCHANGED <<server, logView, dialog, asks, clears, failures>>

\* renderAiResponse, renderAiError: into the panel that is in the page now.
RenderAi(c) ==
  /\ Settled(c, "ask")
  /\ panel' = IF panel = NoPanel THEN panel ELSE [panel EXCEPT !.shows = conn[c].body[1]]
  /\ Release(c)
  /\ UNCHANGED <<server, logView, dialog, asks, clears, failures>>

-----------------------------------------------------------------------------
Init == /\ buffer = <<>> /\ logged = 0 /\ appending = "no"
        /\ walk = [c \in Connections |-> 0]
        /\ conn = [c \in Connections |-> Idle]
        /\ allLogs = <<>> /\ isList = TRUE /\ rows = {}
        /\ activeLogLevel = AnyLevel /\ logsPaused = FALSE
        /\ dialog = FALSE /\ panel = NoPanel /\ asks = 0
        /\ clears = 0 /\ failures = 0

Log == Size \/ PollLast \/ AddFirst

Serve(c) == StartWalk(c) \/ Step(c) \/ GetLogs(c) \/ ClearFirst(c) \/ ClearLogs(c) \/ Analyze(c)

Callback(c) == UpdateLogs(c) \/ UpdateFails(c) \/ Cleared(c) \/ RenderAi(c)

User == \/ \E c \in Connections : ClickClear(c) \/ RunAiAction(c)
        \/ \E level \in Buttons \cup {AnyLevel} : SetLevel(level)
        \/ \E row \in rows : OpenLogDetail(row)
        \/ TogglePause
        \/ CloseDialog
        \/ ClosePanel

Next == \/ Log
        \/ \E c \in Connections : Poll(c) \/ Serve(c) \/ Fail(c) \/ Callback(c)
        \/ User

Spec == Init /\ [][Next]_vars

\* The timer fires, the server and the network answer or fail, and a logger
\* in append() comes to its end.  Nobody has to click, or to log.
Fairness == /\ WF_vars(appending # "no" /\ Log)
            /\ SF_vars(\E c \in Connections : Poll(c))
            /\ \A c \in Connections : /\ WF_vars(Serve(c) \/ Fail(c))
                                      /\ WF_vars(Callback(c))

FairSpec == Spec /\ Fairness

-----------------------------------------------------------------------------
TypeOK ==
  /\ buffer \in Seq(Lines) /\ Len(buffer) <= MAX_SIZE
  /\ logged \in 0..MaxLines /\ appending \in {"no", "sizing", "polling", "adding"}
  /\ walk \in [Connections -> 0..MaxLines]
  /\ conn \in [Connections -> Call]
  /\ allLogs \in Seq(Lines) /\ Len(allLogs) <= Limit /\ isList \in BOOLEAN
  /\ rows \subseteq [line : Lines, index : Nat]
  /\ activeLogLevel \in Buttons \cup {AnyLevel} /\ logsPaused \in BOOLEAN
  /\ dialog \in BOOLEAN
  /\ panel \in [asked : 1..MaxAsks, shows : 0..MaxAsks] \cup {NoPanel}
  /\ asks \in 0..MaxAsks /\ clears \in 0..MaxClears /\ failures \in 0..MaxFailures

\* A click on a row opens the line the row shows, whatever answers, clears
\* and filters came between its rendering and the click; or nothing, while the
\* last answer is an error that was met with a filter set.
RowsOpenTheirLine ==
  \A row \in rows : IF isList \/ row.index \in DOMAIN allLogs
                     THEN /\ row.index \in DOMAIN allLogs
                          /\ allLogs[row.index] = row.line
                     ELSE activeLogLevel # AnyLevel

\* The lines of the panel, newest first, are lines the server logged, and as
\* long as nobody cleared the log none between them is left out, although the
\* copy was made while lines were added and trimmed.
NewestFirst ==
  \A i \in 1..Len(allLogs) - 1 : /\ allLogs[i] > allLogs[i + 1]
                                 /\ clears = 0 => allLogs[i] = allLogs[i + 1] + 1

\* No panel spins for nothing: while it says "Analyzing...", its question is
\* still under way (whatever other questions were asked, answered or closed).
SpinningPanelIsAwaited ==
  panel # NoPanel /\ panel.shows = 0 =>
     \E c \in Connections : conn[c].kind = "ask" /\ conn[c].body = <<panel.asked>>

\* Once polling is left running and the server rests, the panel comes to show
\* its newest lines, under the filter that is set: no late answer of an earlier
\* poll and no error's body stays on the screen.
PanelCatchesUp ==
  <>[](~logsPaused) =>
     <>[](/\ isList
          /\ allLogs = SubSeq(buffer, 1, IF Len(buffer) < Limit THEN Len(buffer) ELSE Limit)
          /\ rows = Rendered(allLogs, allLogs, activeLogLevel))

\* runAiAction and openDetailModal remove a panel left from before, so that
\* an answer is only shown under the question it answers.
AnswersTheQuestion == panel # NoPanel => panel.shows \in {0, panel.asked}
=============================================================================
