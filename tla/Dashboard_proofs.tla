-------------------------- MODULE Dashboard_proofs --------------------------
(***************************************************************************)
(* Safety of the log panel and of the AI panel for any number of lines,    *)
(* connections, clears, questions and failures.                            *)
(*                                                                         *)
(* None of the properties is inductive.  The order of the lines comes from *)
(* the buffer, of which a request makes its copy by a walk: until somebody *)
(* clears the log the buffer holds the last lines without a gap            *)
(* (BufferOK), so the node after the one a walk stands on is that of the   *)
(* line before (WalkOK), and a walk whose node was trimmed away has come   *)
(* to its end.  The order survives in the answers on their way (CallOK).   *)
(* The buffer's bound needs the room append() has made before it adds a    *)
(* line (RoomForNext); a panel that waits needs to know that every         *)
(* question under way carries its number (CallOK).                         *)
(***************************************************************************)
EXTENDS Dashboard, TLAPS

\* Newest first, and without a gap if nobody has cleared the log (k = 0).
InOrder(s, k) ==
  \A i \in 1..Len(s) - 1 : /\ s[i] > s[i + 1]
                           /\ k = 0 => s[i] = s[i + 1] + 1

\* The buffer holds lines that were logged: the last ones, until a clear.
BufferOK ==
  \A i \in 1..Len(buffer) : /\ buffer[i] <= logged
                            /\ clears = 0 => buffer[i] = (logged + 1) - i

\* While append() is in its loop a line is to come, and before it adds the
\* line there is room for it.
RoomForNext == /\ appending # "no" => logged < MaxLines
               /\ appending = "adding" => Len(buffer) < MAX_SIZE

\* What a call may carry: the lines of an answer, or the number of a question.
CallOK(x) ==
  /\ x.kind = "getLogs" => /\ x.body \in Seq(Lines) /\ InOrder(x.body, clears)
                           /\ x.state # "sent" => Len(x.body) <= Limit
                           /\ x.state = "error" => x.body = <<>>
  /\ x.kind = "ask" => \E n \in 1..asks : x.body = <<n>>
  /\ x.kind = "clearLogs" => clears > 0

\* Where a walk may stand: behind the lines it has read.
WalkOK(x, w) ==
  w # 0 => /\ x.kind = "getLogs" /\ x.state = "sent"
           /\ w <= logged
           /\ x.body # <<>> => /\ x.body[Len(x.body)] > w
                               /\ clears = 0 => x.body[Len(x.body)] = w + 1

CallsOK == \A c \in Connections : CallOK(conn[c]) /\ WalkOK(conn[c], walk[c])

IInv == /\ TypeOK
        /\ BufferOK
        /\ RoomForNext
        /\ CallsOK
        /\ InOrder(allLogs, clears)
        /\ RowsOpenTheirLine
        /\ SpinningPanelIsAwaited

-----------------------------------------------------------------------------
\* The newest n lines of a list.
LEMMA PrefixType ==
  ASSUME NEW s \in Seq(Lines), NEW n \in Nat, n <= Len(s)
  PROVE  /\ SubSeq(s, 1, n) \in Seq(Lines)
         /\ Len(SubSeq(s, 1, n)) = n
         /\ \A i \in 1..n : SubSeq(s, 1, n)[i] = s[i]
OBVIOUS

\* Answering with the newest lines of a copy keeps it in order.
LEMMA PrefixInOrder ==
  ASSUME NEW k, NEW s \in Seq(Lines), NEW n \in Nat, n <= Len(s), InOrder(s, k)
  PROVE  InOrder(SubSeq(s, 1, n), k)
BY PrefixType DEF InOrder

\* A clear only weakens what is claimed of a list.
LEMMA InOrderWeakens ==
  ASSUME NEW s, NEW k, NEW l, InOrder(s, k), l = 0 => k = 0
  PROVE  InOrder(s, l)
BY DEF InOrder

\* A walk reads a line behind those it has read.
LEMMA AppendInOrder ==
  ASSUME NEW k, NEW s \in Seq(Lines), InOrder(s, k), NEW n \in Lines,
         s # <<>> => s[Len(s)] > n /\ (k = 0 => s[Len(s)] = n + 1)
  PROVE  /\ Append(s, n) \in Seq(Lines)
         /\ Len(Append(s, n)) = Len(s) + 1
         /\ Append(s, n)[Len(s) + 1] = n
         /\ InOrder(Append(s, n), k)
<1> DEFINE r == Append(s, n)
<1>1. /\ r \in Seq(Lines) /\ Len(r) = Len(s) + 1 /\ r[Len(s) + 1] = n
      /\ \A i \in 1..Len(s) : r[i] = s[i]
      /\ Len(s) \in Nat
  OBVIOUS
<1> HIDE DEF r
<1>2. ASSUME NEW i \in 1..Len(r) - 1
      PROVE  r[i] > r[i + 1] /\ (k = 0 => r[i] = r[i + 1] + 1)
  <2>1. CASE i = Len(s)
    <3>1. s # <<>> /\ r[i] = s[Len(s)] /\ r[i + 1] = n
      BY <1>1, <1>2, <2>1
    <3> QED BY <3>1
  <2>2. CASE i # Len(s)
    <3>1. i \in 1..Len(s) - 1 /\ r[i] = s[i] /\ r[i + 1] = s[i + 1]
      BY <1>1, <1>2, <2>2
    <3> QED BY <3>1 DEF InOrder
  <2> QED BY <2>1, <2>2
<1> QED BY <1>1, <1>2 DEF InOrder, r

\* The rows of a list of lines open its lines.
LEMMA RenderedOpens ==
  ASSUME NEW s \in Seq(Lines), NEW level
  PROVE  /\ Rendered(s, s, level) \subseteq [line : Lines, index : Nat]
         /\ \A row \in Rendered(s, s, level) : row.index \in DOMAIN s /\ s[row.index] = row.line
<1> SUFFICES ASSUME NEW row \in Rendered(s, s, level)
             PROVE  /\ row \in [line : Lines, index : Nat]
                    /\ row.index \in DOMAIN s /\ s[row.index] = row.line
  OBVIOUS
<1>1. PICK i \in DOMAIN s : row = [line |-> s[i], index |-> i]
  BY DEF Rendered
<1> QED BY <1>1

-----------------------------------------------------------------------------
(* How a step may change a call, and the walk made for it.                 *)

Sending(c, y, w) ==
  /\ conn[c] = Idle
  /\ y.state = "sent" /\ w = walk[c]
  /\ \/ y.kind = "getLogs" /\ y.body = <<>> /\ UNCHANGED <<asks, clears, panel>>
     \/ /\ y.kind = "clearLogs" /\ y.body = <<>> /\ UNCHANGED <<asks, panel>>
        /\ clears < MaxClears /\ clears' = clears + 1
     \/ /\ y.kind = "ask" /\ y.body = <<asks + 1>> /\ UNCHANGED clears
        /\ asks < MaxAsks /\ asks' = asks + 1
        /\ panel' = [asked |-> asks + 1, shows |-> 0]

\* The walk starts (again), or moves to the next node.
Walking(c, y, w) ==
  /\ y.kind = "getLogs" /\ y.state = "sent"
  /\ conn[c].kind = "getLogs" /\ conn[c].state = "sent"
  /\ \/ y.body = <<>> /\ w \in Buffered \cup {0}
     \/ y.body = Read(c) /\ w \in Older(c) /\ \A m \in Older(c) : m <= w
  /\ UNCHANGED <<asks, clears, panel>>

Answering(c, y, w) ==
  /\ y.kind = conn[c].kind /\ y.state # "sent"
  /\ \/ y.kind = "getLogs" /\ y.state # "error" /\ w = 0
        /\ \E n \in Nat : n <= Limit /\ n <= Len(Read(c)) /\ y.body = SubSeq(Read(c), 1, n)
     \/ y.kind # "ask" /\ y.body = <<>> /\ w \in {0, walk[c]} /\ (y.kind = "getLogs" => w = 0)
     \/ y.kind = "ask" /\ y.body = conn[c].body /\ w \in {0, walk[c]}
  /\ UNCHANGED <<asks, clears, panel>>

Releasing(c, y, w) ==
  /\ y = Idle /\ w = walk[c] /\ conn[c].state # "sent"
  /\ UNCHANGED <<asks, clears>>
  /\ conn[c].kind # "ask" => UNCHANGED panel
  /\ conn[c].kind = "ask" =>
       panel' = IF panel = NoPanel THEN panel ELSE [panel EXCEPT !.shows = conn[c].body[1]]

\* One of the four, on the call of connection c.
Changes(c, y, w) ==
  Sending(c, y, w) \/ Walking(c, y, w) \/ Answering(c, y, w) \/ Releasing(c, y, w)

Changed(c) ==
  \E y \in Call, w \in 0..MaxLines : /\ conn' = [conn EXCEPT ![c] = y]
                                     /\ walk' = [walk EXCEPT ![c] = w]
                                     /\ Changes(c, y, w)

\* A call is sent: the log poll, the Clear button, a question.
LEMMA SendChanges ==
  ASSUME TypeOK, NEW c \in Connections,
         Poll(c) \/ ClickClear(c) \/ RunAiAction(c)
  PROVE  Changed(c)
<1>t. /\ conn \in [Connections -> Call] /\ asks \in Nat
      /\ walk \in [Connections -> 0..MaxLines]
  BY DashboardAssumption DEF TypeOK
<1>w. walk' = [walk EXCEPT ![c] = walk[c]] /\ walk[c] \in 0..MaxLines
  BY <1>t DEF Poll, ClickClear, RunAiAction, server
<1>1. ASSUME Poll(c) PROVE Changed(c)
  <2> DEFINE y == [kind |-> "getLogs", state |-> "sent", body |-> <<>>]
  <2>1. conn[c] = Idle /\ conn' = [conn EXCEPT ![c] = y]
    BY <1>1 DEF Poll, Send
  <2>2. UNCHANGED <<asks, clears, panel>>
    BY <1>1 DEF Poll, aiView
  <2>3. y \in Call
    BY DEF Call
  <2>4. Sending(c, y, walk[c])
    BY <2>1, <2>2 DEF Sending
  <2> HIDE DEF y
  <2> QED BY <1>w, <2>1, <2>3, <2>4 DEF Changed, Changes
<1>2. ASSUME ClickClear(c) PROVE Changed(c)
  <2> DEFINE y == [kind |-> "clearLogs", state |-> "sent", body |-> <<>>]
  <2>1. conn[c] = Idle /\ conn' = [conn EXCEPT ![c] = y]
    BY <1>2 DEF ClickClear, Send
  <2>2. clears < MaxClears /\ clears' = clears + 1 /\ UNCHANGED <<asks, panel>>
    BY <1>2 DEF ClickClear, aiView
  <2>3. y \in Call
    BY DEF Call
  <2>4. Sending(c, y, walk[c])
    BY <2>1, <2>2 DEF Sending
  <2> HIDE DEF y
  <2> QED BY <1>w, <2>1, <2>3, <2>4 DEF Changed, Changes
<1>3. ASSUME RunAiAction(c) PROVE Changed(c)
  <2> DEFINE y == [kind |-> "ask", state |-> "sent", body |-> <<asks + 1>>]
  <2>1. conn[c] = Idle /\ conn' = [conn EXCEPT ![c] = y]
    BY <1>3 DEF RunAiAction, Send
  <2>2. asks < MaxAsks /\ asks' = asks + 1 /\ clears' = clears /\ panel' = [asked |-> asks + 1, shows |-> 0]
    BY <1>3 DEF RunAiAction
  <2>3. y \in Call
    <3>1. <<asks + 1>> \in Seq(Nat)
      BY <1>t
    <3> QED BY <3>1 DEF Call
  <2>4. Sending(c, y, walk[c])
    BY <2>1, <2>2 DEF Sending
  <2> HIDE DEF y
  <2> QED BY <1>w, <2>1, <2>3, <2>4 DEF Changed, Changes
<1> QED BY <1>1, <1>2, <1>3

\* Changing the fields of a call.
LEMMA CallFields ==
  ASSUME NEW x \in Call, NEW s, NEW b
  PROVE  /\ [x EXCEPT !.body = b] = [kind |-> x.kind, state |-> x.state, body |-> b]
         /\ [[x EXCEPT !.state = s] EXCEPT !.body = b] = [kind |-> x.kind, state |-> s, body |-> b]
<1>1. x = [kind |-> x.kind, state |-> x.state, body |-> x.body]
  BY DEF Call
<1>2. [x EXCEPT !.state = s] = [kind |-> x.kind, state |-> s, body |-> x.body]
  BY <1>1
<1>3. [x EXCEPT !.body = b] = [kind |-> x.kind, state |-> x.state, body |-> b]
  BY <1>1
<1>4. [[kind |-> x.kind, state |-> s, body |-> x.body] EXCEPT !.body = b]
      = [kind |-> x.kind, state |-> s, body |-> b]
  OBVIOUS
<1> QED BY <1>2, <1>3, <1>4, Zenon

\* A list of lines is a list of numbers.
LEMMA LinesAreNumbers ==
  ASSUME NEW s \in Seq(Lines)
  PROVE  s \in Seq(Nat)
<1>1. \A i \in 1..Len(s) : s[i] \in Nat
  BY DashboardAssumption DEF Lines
<1>2. s = [i \in 1..Len(s) |-> s[i]] /\ Len(s) \in Nat
  OBVIOUS
<1> QED BY <1>1, <1>2

\* The lines a walk may stand on, and what it has read.
LEMMA WalkTypes ==
  ASSUME TypeOK, NEW c \in Connections
  PROVE  /\ Buffered \subseteq Lines /\ Older(c) \subseteq Lines
         /\ conn[c].body \in Seq(Lines) => Read(c) \in Seq(Lines)
<1>1. Buffered \subseteq Lines
  BY DEF TypeOK, Buffered
<1> QED BY <1>1 DEF Older, Read

\* A walk starts or moves.
LEMMA WalkChanges ==
  ASSUME TypeOK, NEW c \in Connections, CallOK(conn[c]), StartWalk(c) \/ Step(c)
  PROVE  Changed(c)
<1>t. conn \in [Connections -> Call] /\ conn[c] \in Call /\ buffer \in Seq(Lines)
  BY DEF TypeOK
<1>m. MaxLines \in Nat
  BY DashboardAssumption
<1>s. conn[c].kind = "getLogs" /\ conn[c].state = "sent" /\ UNCHANGED <<asks, clears, panel>>
  BY DEF StartWalk, Step, Sent, aiView
<1>1. ASSUME NEW body \in Seq(Lines), NEW w \in Lines \cup {0},
             conn' = [conn EXCEPT ![c].body = body], walk' = [walk EXCEPT ![c] = w],
             \/ body = <<>> /\ w \in Buffered \cup {0}
             \/ body = Read(c) /\ w \in Older(c) /\ \A m \in Older(c) : m <= w
      PROVE  Changed(c)
  <2> DEFINE y == [kind |-> conn[c].kind, state |-> conn[c].state, body |-> body]
  <2>1. y \in Call
    BY <1>t, <1>1, LinesAreNumbers DEF Call
  <2>2. conn' = [conn EXCEPT ![c] = y]
    BY <1>t, <1>1, CallFields
  <2>3. Walking(c, y, w)
    BY <1>1, <1>s DEF Walking
  <2>4. w \in 0..MaxLines
    BY <1>1, <1>m DEF Lines
  <2> HIDE DEF y
  <2> QED BY <1>1, <2>1, <2>2, <2>3, <2>4 DEF Changed, Changes
<1>2. CASE StartWalk(c)
  <2> DEFINE w == IF buffer = <<>> THEN 0 ELSE buffer[1]
  <2>1. w \in Buffered \cup {0} /\ w \in Lines \cup {0}
    BY <1>t, <1>2 DEF StartWalk, Buffered
  <2>2. conn' = [conn EXCEPT ![c].body = <<>>] /\ walk' = [walk EXCEPT ![c] = w]
    BY <1>2 DEF StartWalk
  <2>3. <<>> \in Seq(Lines)
    OBVIOUS
  <2> HIDE DEF w
  <2> QED BY <1>1, <2>1, <2>2, <2>3
<1>3. CASE Step(c)
  <2>1. PICK n \in Older(c) : (\A m \in Older(c) : m <= n) /\ walk' = [walk EXCEPT ![c] = n]
    BY <1>3 DEF Step
  <2>2. Read(c) \in Seq(Lines) /\ n \in Lines
    BY <1>s, <2>1, WalkTypes DEF CallOK
  <2>3. conn' = [conn EXCEPT ![c].body = Read(c)]
    BY <1>3 DEF Step
  <2> QED BY <1>1, <2>1, <2>2, <2>3
<1> QED BY <1>2, <1>3

\* A call is answered, or fails.
LEMMA AnswerChanges ==
  ASSUME TypeOK, NEW c \in Connections, CallOK(conn[c]),
         GetLogs(c) \/ ClearLogs(c) \/ Analyze(c) \/ Fail(c)
  PROVE  Changed(c)
<1>t. /\ conn \in [Connections -> Call] /\ conn[c] \in Call
      /\ walk \in [Connections -> 0..MaxLines] /\ MaxLines \in Nat
  BY DashboardAssumption DEF TypeOK
<1>u. UNCHANGED <<asks, clears, panel>>
  BY DEF GetLogs, ClearLogs, Analyze, Fail, aiView
<1>1. ASSUME NEW state \in {"answered", "error", "failed"}, NEW body \in Seq(Nat), NEW w \in 0..MaxLines,
             conn' = [conn EXCEPT ![c].state = state, ![c].body = body],
             walk' = [walk EXCEPT ![c] = w],
             \/ /\ conn[c].kind = "getLogs" /\ state # "error" /\ w = 0
                /\ \E n \in Nat : n <= Limit /\ n <= Len(Read(c)) /\ body = SubSeq(Read(c), 1, n)
             \/ /\ conn[c].kind # "ask" /\ body = <<>> /\ w \in {0, walk[c]}
                /\ conn[c].kind = "getLogs" => w = 0
             \/ conn[c].kind = "ask" /\ body = conn[c].body /\ w \in {0, walk[c]}
      PROVE  Changed(c)
  <2> DEFINE y == [kind |-> conn[c].kind, state |-> state, body |-> body]
  <2>1. y \in Call
    BY <1>t DEF Call
  <2>2. Answering(c, y, w)
    BY <1>1, <1>u DEF Answering
  <2>3. conn' = [conn EXCEPT ![c] = y]
    <3>1. conn' = [conn EXCEPT ![c] = [[conn[c] EXCEPT !.state = state] EXCEPT !.body = body]]
      BY <1>t, <1>1
    <3>2. [[conn[c] EXCEPT !.state = state] EXCEPT !.body = body] = y
      BY <1>t, CallFields
    <3> HIDE DEF y
    <3> QED BY <3>1, <3>2
  <2> HIDE DEF y
  <2> QED BY <1>1, <2>1, <2>2, <2>3 DEF Changed, Changes
<1>3. CASE GetLogs(c)
  <2> DEFINE n == IF Len(Read(c)) < Limit THEN Len(Read(c)) ELSE Limit
             lines == SubSeq(Read(c), 1, n)
  <2>1. conn[c].kind = "getLogs" /\ Answer(c, lines) /\ walk' = [walk EXCEPT ![c] = 0]
    BY <1>3 DEF GetLogs, Sent
  <2>2. Read(c) \in Seq(Lines)
    BY <2>1, WalkTypes DEF CallOK
  <2>3. n \in Nat /\ n <= Limit /\ n <= Len(Read(c))
    BY <2>2, DashboardAssumption
  <2>4. lines \in Seq(Nat)
    BY <2>2, <2>3, PrefixType, LinesAreNumbers
  <2>5. \E k \in Nat : k <= Limit /\ k <= Len(Read(c)) /\ lines = SubSeq(Read(c), 1, k)
    BY <2>3
  <2>6. conn' = [conn EXCEPT ![c].state = "answered", ![c].body = lines]
    BY <2>1 DEF Answer
  <2>7. 0 \in 0..MaxLines
    BY <1>t
  <2> HIDE DEF lines
  <2> QED BY <1>1, <2>1, <2>4, <2>5, <2>6, <2>7
<1>4. CASE ClearLogs(c)
  <2>1. /\ conn' = [conn EXCEPT ![c].state = "answered", ![c].body = <<>>]
        /\ conn[c].kind = "clearLogs"
    BY <1>4 DEF ClearLogs, Sent, Answer
  <2>2. walk' = [walk EXCEPT ![c] = walk[c]]
    BY <1>4, <1>t DEF ClearLogs, server
  <2>3. <<>> \in Seq(Nat) /\ walk[c] \in 0..MaxLines
    BY <1>t
  <2> QED BY <1>1, <2>1, <2>2, <2>3
<1>5. CASE Analyze(c)
  <2>1. /\ conn' = [conn EXCEPT ![c].state = "answered", ![c].body = conn[c].body]
        /\ conn[c].kind = "ask"
    BY <1>5 DEF Analyze, Sent, Answer
  <2>2. walk' = [walk EXCEPT ![c] = walk[c]]
    BY <1>5, <1>t DEF Analyze, server
  <2>3. conn[c].body \in Seq(Nat) /\ walk[c] \in 0..MaxLines
    BY <1>t DEF Call
  <2> QED BY <1>1, <2>1, <2>2, <2>3
<1>6. CASE Fail(c)
  <2> DEFINE body == IF conn[c].kind = "ask" THEN conn[c].body ELSE <<>>
  <2>1. PICK state \in {"failed", "error"} :
           conn' = [conn EXCEPT ![c].state = state, ![c].body = IF conn[c].kind = "ask" THEN @ ELSE <<>>]
    BY <1>6 DEF Fail
  <2>2. conn' = [conn EXCEPT ![c].state = state, ![c].body = body]
    BY <1>t, <2>1 DEF Call
  <2>3. body \in Seq(Nat) /\ 0 \in 0..MaxLines
    BY <1>t DEF Call
  <2>4. walk' = [walk EXCEPT ![c] = 0]
    BY <1>6 DEF Fail
  <2>5. \/ conn[c].kind # "ask" /\ body = <<>>
        \/ conn[c].kind = "ask" /\ body = conn[c].body
    OBVIOUS
  <2> HIDE DEF body
  <2> QED BY <1>1, <2>2, <2>3, <2>4, <2>5
<1> QED BY <1>3, <1>4, <1>5, <1>6

\* A settled call's callback runs.
LEMMA CallbackChanges ==
  ASSUME TypeOK, NEW c \in Connections, Callback(c)
  PROVE  Changed(c)
<1>1. conn' = [conn EXCEPT ![c] = Idle] /\ UNCHANGED <<asks, clears>>
  BY DEF Callback, UpdateLogs, UpdateFails, Cleared, RenderAi, Release, aiView
<1>2. conn[c].kind # "ask" => UNCHANGED panel
  BY DEF Callback, UpdateLogs, UpdateFails, Cleared, RenderAi, Settled, aiView
<1>3. conn[c].kind = "ask" =>
        panel' = IF panel = NoPanel THEN panel ELSE [panel EXCEPT !.shows = conn[c].body[1]]
  BY DEF Callback, UpdateLogs, UpdateFails, Cleared, RenderAi, Settled, aiView
<1>4. Idle \in Call
  <2>1. <<>> \in Seq(Nat)
    OBVIOUS
  <2> QED BY <2>1 DEF Idle, Call
<1>5. conn[c].state # "sent"
  BY DEF Callback, UpdateLogs, UpdateFails, Cleared, RenderAi, Settled
<1>6. walk' = [walk EXCEPT ![c] = walk[c]] /\ walk[c] \in 0..MaxLines
  BY DEF TypeOK, Callback, UpdateLogs, UpdateFails, Cleared, RenderAi, server
<1>7. Releasing(c, Idle, walk[c])
  BY <1>1, <1>2, <1>3, <1>5 DEF Releasing
<1> QED BY <1>1, <1>4, <1>6, <1>7 DEF Changed, Changes

\* No step touches two calls, and what touches none asks and clears nothing.
LEMMA CallSteps ==
  ASSUME TypeOK, CallsOK, [Next]_vars
  PROVE  \/ UNCHANGED <<conn, walk, asks, clears>> /\ panel' \in {panel, NoPanel}
         \/ \E c \in Connections : Changed(c)
<1>1. CASE \/ UNCHANGED vars \/ Log \/ TogglePause \/ CloseDialog \/ ClosePanel
           \/ (\E c \in Connections : ClearFirst(c))
           \/ (\E level \in Buttons \cup {AnyLevel} : SetLevel(level))
           \/ (\E row \in rows : OpenLogDetail(row))
  BY <1>1 DEF vars, server, aiView, Log, Size, PollLast, AddFirst, TogglePause, CloseDialog,
              ClosePanel, ClearFirst, SetLevel, OpenLogDetail
<1>2. ASSUME NEW c \in Connections,
             \/ Poll(c) \/ ClickClear(c) \/ RunAiAction(c)
             \/ StartWalk(c) \/ Step(c)
             \/ GetLogs(c) \/ ClearLogs(c) \/ Analyze(c) \/ Fail(c)
             \/ Callback(c)
      PROVE  Changed(c)
  <2>1. CallOK(conn[c])
    BY DEF CallsOK
  <2> QED BY <1>2, <2>1, SendChanges, WalkChanges, AnswerChanges, CallbackChanges
<1> QED BY <1>1, <1>2 DEF Next, Serve, User
-----------------------------------------------------------------------------
(* The server's half.                                                      *)

\* Each step of a logger or of a clear, seen from the buffer.
LEMMA BufferSteps ==
  ASSUME [Next]_vars
  PROVE  \/ Size \/ PollLast \/ AddFirst
         \/ \E c \in Connections : ClearFirst(c)
         \/ UNCHANGED <<buffer, logged, appending>>
BY DEF Next, Log, Serve, Callback, User, vars, Poll, StartWalk, Step, GetLogs, ClearLogs, Analyze,
       Fail, UpdateLogs, UpdateFails, Cleared, RenderAi, ClickClear, RunAiAction, SetLevel,
       OpenLogDetail, TogglePause, CloseDialog, ClosePanel, server

\* Nobody takes a clear or a question back.
LEMMA CountsGrow ==
  ASSUME TypeOK, CallsOK, [Next]_vars
  PROVE  /\ clears \in Nat /\ clears' \in {clears, clears + 1}
         /\ asks \in Nat /\ asks' \in {asks, asks + 1}
         /\ clears' = 0 => clears = 0
<1>1. clears \in Nat /\ asks \in Nat
  BY DashboardAssumption DEF TypeOK
<1>2. CASE UNCHANGED <<conn, asks, clears>>
  BY <1>1, <1>2
<1>3. ASSUME NEW c \in Connections, Changed(c)
      PROVE  clears' \in {clears, clears + 1} /\ asks' \in {asks, asks + 1}
  BY <1>3 DEF Changed, Changes, Sending, Walking, Answering, Releasing
<1> QED BY <1>1, <1>2, <1>3, CallSteps

\* The buffer keeps its lines, its bound and the room for the next line.
LEMMA BufferStep ==
  ASSUME IInv, [Next]_vars
  PROVE  /\ buffer' \in Seq(Lines) /\ Len(buffer') <= MAX_SIZE
         /\ logged' \in 0..MaxLines /\ logged <= logged'
         /\ appending' \in {"no", "sizing", "polling", "adding"}
         /\ BufferOK' /\ RoomForNext'
<1>c. MAX_SIZE \in Nat \ {0} /\ MaxLines \in Nat
  BY DashboardAssumption
<1>t. /\ buffer \in Seq(Lines) /\ Len(buffer) <= MAX_SIZE /\ Len(buffer) \in Nat
      /\ logged \in 0..MaxLines /\ appending \in {"no", "sizing", "polling", "adding"}
      /\ BufferOK /\ RoomForNext
  BY DEF IInv, TypeOK
<1>k. clears' = 0 => clears = 0
  BY CountsGrow DEF IInv
<1>n. \A i \in 1..Len(buffer) : buffer[i] \in Nat
  BY <1>t, <1>c DEF Lines
<1>1. CASE Size
  <2>1. UNCHANGED <<buffer, logged>> /\ logged < MaxLines
    BY <1>t, <1>1 DEF Size, RoomForNext
  <2>2. \/ appending' = "polling"
        \/ appending' = "adding" /\ Len(buffer) < MAX_SIZE
    BY <1>c, <1>t, <1>1 DEF Size
  <2> QED BY <1>t, <1>k, <2>1, <2>2 DEF BufferOK, RoomForNext
<1>2. CASE PollLast
  <2>1. UNCHANGED logged /\ appending' = "sizing" /\ logged < MaxLines
    BY <1>t, <1>2 DEF PollLast, RoomForNext
  <2>2. CASE buffer = <<>>
    <3>1. buffer' = buffer
      BY <1>2, <2>2 DEF PollLast
    <3> QED BY <1>t, <1>k, <2>1, <3>1 DEF BufferOK, RoomForNext
  <2>3. CASE buffer # <<>>
    <3>1. Len(buffer) - 1 \in Nat /\ Len(buffer) - 1 <= Len(buffer)
      BY <1>t, <2>3
    <3>2. buffer' = SubSeq(buffer, 1, Len(buffer) - 1)
      BY <1>2, <2>3 DEF PollLast
    <3>3. /\ buffer' \in Seq(Lines) /\ Len(buffer') = Len(buffer) - 1
          /\ \A i \in 1..Len(buffer) - 1 : buffer'[i] = buffer[i]
      BY <1>t, <3>1, <3>2, PrefixType
    <3>4. BufferOK'
      BY <1>t, <1>k, <2>1, <3>1, <3>3 DEF BufferOK
    <3> QED BY <1>c, <1>t, <2>1, <3>1, <3>3, <3>4 DEF RoomForNext
  <2> QED BY <2>2, <2>3
<1>3. CASE AddFirst
  <2>1. /\ buffer' = <<logged + 1>> \o buffer /\ logged' = logged + 1 /\ appending' = "no"
        /\ logged < MaxLines /\ Len(buffer) < MAX_SIZE
    BY <1>t, <1>3 DEF AddFirst, RoomForNext
  <2>2. logged + 1 \in Lines /\ logged + 1 \in 0..MaxLines
    BY <1>c, <1>t, <2>1 DEF Lines
  <2>3. /\ buffer' \in Seq(Lines) /\ Len(buffer') = Len(buffer) + 1
        /\ buffer'[1] = logged + 1
        /\ \A i \in 2..Len(buffer) + 1 : buffer'[i] = buffer[i - 1]
    BY <1>t, <2>1, <2>2
  <2>4. ASSUME NEW i \in 1..Len(buffer')
        PROVE  buffer'[i] <= logged' /\ (clears' = 0 => buffer'[i] = (logged' + 1) - i)
    <3>1. CASE i = 1
      BY <1>t, <2>1, <2>3, <3>1
    <3>2. CASE i # 1
      <4>1. i \in 2..Len(buffer) + 1 /\ i - 1 \in 1..Len(buffer)
        BY <1>t, <2>3, <3>2
      <4>2. /\ buffer'[i] = buffer[i - 1] /\ buffer[i - 1] <= logged
            /\ clears = 0 => buffer[i - 1] = (logged + 1) - (i - 1)
        BY <1>t, <2>3, <4>1 DEF BufferOK
      <4>3. buffer[i - 1] \in Nat
        BY <1>n, <4>1
      <4> QED BY <1>t, <1>k, <2>1, <4>1, <4>2, <4>3
    <3> QED BY <3>1, <3>2
  <2> QED BY <1>c, <1>t, <2>1, <2>2, <2>3, <2>4 DEF BufferOK, RoomForNext
<1>4. ASSUME NEW c \in Connections, ClearFirst(c)
      PROVE  /\ buffer' \in Seq(Lines) /\ Len(buffer') < Len(buffer) /\ Len(buffer') \in Nat
             /\ UNCHANGED <<logged, appending>>
             /\ BufferOK'
  <2>1. /\ buffer # <<>> /\ buffer' = Tail(buffer) /\ UNCHANGED <<logged, appending, clears>>
        /\ clears # 0
    <3>1. conn[c].kind = "clearLogs" /\ CallOK(conn[c]) /\ clears \in Nat
      BY <1>4, DashboardAssumption DEF ClearFirst, Sent, IInv, CallsOK, TypeOK
    <3> QED BY <1>4, <3>1 DEF ClearFirst, CallOK
  <2>2. /\ buffer' \in Seq(Lines) /\ Len(buffer') = Len(buffer) - 1
        /\ \A i \in 1..Len(buffer) - 1 : buffer'[i] = buffer[i + 1]
    BY <1>t, <2>1
  <2>3. \A i \in 1..Len(buffer') : buffer'[i] <= logged
    <3>1. \A i \in 1..Len(buffer) - 1 : buffer[i + 1] <= logged
      BY <1>t DEF BufferOK
    <3> QED BY <2>2, <3>1
  <2> QED BY <1>t, <2>1, <2>2, <2>3 DEF BufferOK
<1>5. CASE \E c \in Connections : ClearFirst(c)
  <2>1. /\ buffer' \in Seq(Lines) /\ Len(buffer') < Len(buffer) /\ Len(buffer') \in Nat
        /\ UNCHANGED <<logged, appending>>
        /\ BufferOK'
    BY <1>4, <1>5
  <2> QED BY <1>c, <1>t, <2>1 DEF RoomForNext
<1>6. CASE UNCHANGED <<buffer, logged, appending>>
  BY <1>t, <1>k, <1>6 DEF BufferOK, RoomForNext
<1> QED BY <1>1, <1>2, <1>3, <1>5, <1>6, BufferSteps

-----------------------------------------------------------------------------
(* What is on its way.                                                     *)

\* Nobody has cleared the log: the next node holds the line before the one the
\* walk stands on, and that one is still there.
LEMMA NextIsTheLineBefore ==
  ASSUME IInv, NEW c \in Connections, clears = 0, walk[c] <= logged,
         NEW w \in Older(c), \A m \in Older(c) : m <= w
  PROVE  walk[c] \in Buffered /\ walk[c] = w + 1
<1>t. /\ buffer \in Seq(Lines) /\ logged \in Nat /\ walk[c] \in Nat /\ MaxLines \in Nat
      /\ \A i \in 1..Len(buffer) : buffer[i] = (logged + 1) - i
  BY DashboardAssumption DEF IInv, TypeOK, BufferOK
<1>1. PICK j \in 1..Len(buffer) : w = buffer[j]
  BY <1>t DEF Older, Buffered
<1>2. w = (logged + 1) - j /\ w < walk[c] /\ j \in Nat /\ w \in Nat
  BY <1>t, <1>1 DEF Older, Lines
<1> DEFINE i == (logged + 1) - walk[c]
<1>3. i \in 1..Len(buffer) /\ i < j
  BY <1>t, <1>1, <1>2
<1>4. buffer[i] = walk[c]
  BY <1>t, <1>3
<1>5. walk[c] \in Buffered
  BY <1>t, <1>3, <1>4 DEF Buffered
<1>6. i + 1 \in 1..Len(buffer) /\ buffer[i + 1] = walk[c] - 1
  <2>1. i + 1 \in 1..Len(buffer) /\ (logged + 1) - (i + 1) = walk[c] - 1
    BY <1>t, <1>1, <1>2, <1>3
  <2> HIDE DEF i
  <2> QED BY <1>t, <2>1
<1>7. walk[c] - 1 \in Older(c)
  BY <1>t, <1>6 DEF Older, Buffered
<1>8. walk[c] - 1 <= w
  BY <1>7
<1> QED BY <1>t, <1>2, <1>5, <1>8

\* What a walk has read when it leaves its node is in order.
LEMMA ReadInOrder ==
  ASSUME IInv, NEW c \in Connections, conn[c].kind = "getLogs"
  PROVE  /\ Read(c) \in Seq(Lines) /\ InOrder(Read(c), clears)
         /\ walk[c] \in Buffered => Read(c)[Len(Read(c))] = walk[c]
         /\ walk[c] \notin Buffered => Read(c) = conn[c].body
<1>1. /\ conn[c].body \in Seq(Lines) /\ InOrder(conn[c].body, clears)
      /\ WalkOK(conn[c], walk[c])
  BY DEF IInv, CallsOK, CallOK
<1>2. CASE walk[c] \in Buffered
  <2>1. walk[c] \in Lines /\ walk[c] # 0
    BY <1>2, WalkTypes, DashboardAssumption DEF IInv, Lines
  <2>2. Read(c) = Append(conn[c].body, walk[c])
    BY <1>2 DEF Read
  <2>5. conn[c].body # <<>> => /\ conn[c].body[Len(conn[c].body)] > walk[c]
                               /\ clears = 0 => conn[c].body[Len(conn[c].body)] = walk[c] + 1
    BY <1>1, <2>1 DEF WalkOK
  <2>3. /\ Read(c) \in Seq(Lines) /\ InOrder(Read(c), clears)
        /\ Len(Read(c)) = Len(conn[c].body) + 1 /\ Read(c)[Len(conn[c].body) + 1] = walk[c]
    BY <1>1, <2>1, <2>2, <2>5, AppendInOrder
  <2> QED BY <1>2, <2>3
<1>3. CASE walk[c] \notin Buffered
  BY <1>1, <1>3 DEF Read
<1> QED BY <1>2, <1>3

\* The step of a call itself.
LEMMA ChangedCall ==
  ASSUME IInv, [Next]_vars, NEW c \in Connections, NEW y \in Call, NEW w \in 0..MaxLines,
         Changes(c, y, w)
  PROVE  CallOK(y)' /\ WalkOK(y, w)'
<1>t. /\ conn \in [Connections -> Call] /\ conn[c] \in Call
      /\ CallOK(conn[c]) /\ WalkOK(conn[c], walk[c])
      /\ walk[c] \in Nat /\ logged \in Nat /\ Limit \in Nat /\ MaxLines \in Nat
  BY DashboardAssumption DEF IInv, TypeOK, CallsOK
<1>k. /\ clears \in Nat /\ clears' \in {clears, clears + 1}
      /\ asks \in Nat /\ asks' \in {asks, asks + 1}
      /\ clears' = 0 => clears = 0
  BY CountsGrow DEF IInv
<1>l. logged' \in Nat /\ logged <= logged'
  BY BufferStep, DashboardAssumption
<1>e. <<>> \in Seq(Lines) /\ Len(<<>>) = 0 /\ \A k : InOrder(<<>>, k)
  BY DEF InOrder
<1>1. CASE Sending(c, y, w)
  <2>1. w = 0
    BY <1>t, <1>1 DEF Sending, Idle, WalkOK
  <2>2. CASE y.kind = "getLogs" /\ y.body = <<>> /\ y.state = "sent"
    BY <1>e, <2>1, <2>2 DEF CallOK, WalkOK
  <2>3. CASE y.kind = "clearLogs" /\ clears' = clears + 1
    BY <1>k, <2>1, <2>3 DEF CallOK, WalkOK
  <2>4. CASE y.kind = "ask" /\ y.body = <<asks + 1>> /\ asks' = asks + 1
    <3>1. asks + 1 \in 1..asks'
      BY <1>k, <2>4
    <3> QED BY <2>1, <2>4, <3>1 DEF CallOK, WalkOK
  <2> QED BY <1>1, <2>2, <2>3, <2>4 DEF Sending
<1>2. CASE Walking(c, y, w)
  <2>1. /\ y.kind = "getLogs" /\ y.state = "sent" /\ conn[c].kind = "getLogs"
        /\ UNCHANGED <<asks, clears>>
    BY <1>2 DEF Walking
  <2>2. CASE y.body = <<>> /\ w \in Buffered \cup {0}
    <3>1. w <= logged /\ w \in Nat
      BY <1>t, <2>2 DEF IInv, BufferOK, Buffered
    <3>2. w <= logged'
      BY <1>t, <1>l, <3>1
    <3> QED BY <1>e, <2>1, <2>2, <3>2 DEF CallOK, WalkOK
  <2>3. CASE y.body = Read(c) /\ w \in Older(c) /\ \A m \in Older(c) : m <= w
    <3>1. /\ Read(c) \in Seq(Lines) /\ InOrder(Read(c), clears)
          /\ walk[c] \in Buffered => Read(c)[Len(Read(c))] = walk[c]
          /\ walk[c] \notin Buffered => Read(c) = conn[c].body
      BY <2>1, ReadInOrder
    <3>2. w < walk[c] /\ walk[c] <= logged /\ w \in Nat
      BY <1>t, <2>3 DEF Older, WalkOK
    <3>3. w <= logged'
      BY <1>t, <1>l, <3>2
    <3>4. CASE walk[c] \in Buffered
      <4>1. clears = 0 => walk[c] = w + 1
        BY <2>3, <3>2, NextIsTheLineBefore
      <4> QED BY <1>t, <2>1, <2>3, <3>1, <3>2, <3>3, <3>4, <4>1 DEF CallOK, WalkOK
    <3>5. CASE walk[c] \notin Buffered
      <4>1. clears # 0
        BY <2>3, <3>2, <3>5, NextIsTheLineBefore
      <4>2. y.body # <<>> => y.body[Len(y.body)] \in Nat /\ y.body[Len(y.body)] > walk[c]
        <5>1. y.body = conn[c].body /\ y.body \in Seq(Lines)
          BY <2>3, <3>1, <3>5
        <5>2. y.body # <<>> => y.body[Len(y.body)] \in Lines
          BY <5>1
        <5>3. walk[c] # 0
          BY <1>t, <3>2
        <5>4. y.body # <<>> => y.body[Len(y.body)] > walk[c]
          BY <1>t, <5>1, <5>3 DEF WalkOK
        <5> QED BY <1>t, <5>2, <5>4 DEF Lines
      <4> QED BY <1>t, <2>1, <2>3, <3>1, <3>2, <3>3, <4>1, <4>2 DEF CallOK, WalkOK
    <3> QED BY <3>4, <3>5
  <2> QED BY <1>2, <2>2, <2>3 DEF Walking
<1>3. CASE Answering(c, y, w)
  <2>1. y.kind = conn[c].kind /\ y.state # "sent" /\ UNCHANGED <<asks, clears>>
    BY <1>3 DEF Answering
  <2>2. ASSUME y.kind = "getLogs", y.state # "error", w = 0,
               NEW n \in Nat, n <= Limit, n <= Len(Read(c)), y.body = SubSeq(Read(c), 1, n)
        PROVE  CallOK(y)' /\ WalkOK(y, w)'
    <3>1. Read(c) \in Seq(Lines) /\ InOrder(Read(c), clears)
      BY <2>1, <2>2, ReadInOrder
    <3>2. y.body \in Seq(Lines) /\ Len(y.body) <= Limit
      BY <2>2, <3>1, PrefixType
    <3>3. InOrder(y.body, clears')
      BY <2>1, <2>2, <3>1, PrefixInOrder
    <3> QED BY <2>2, <3>2, <3>3 DEF CallOK, WalkOK
  <2>3. CASE y.kind # "ask" /\ y.body = <<>> /\ w \in {0, walk[c]} /\ (y.kind = "getLogs" => w = 0)
    <3>1. w = 0
      BY <1>t, <2>1, <2>3 DEF WalkOK
    <3> QED BY <1>t, <1>e, <2>1, <2>3, <3>1 DEF CallOK, WalkOK
  <2>4. CASE y.kind = "ask" /\ y.body = conn[c].body /\ w \in {0, walk[c]}
    <3>1. w = 0
      BY <1>t, <2>1, <2>4 DEF WalkOK
    <3> QED BY <1>t, <2>1, <2>4, <3>1 DEF CallOK, WalkOK
  <2> QED BY <1>3, <2>2, <2>3, <2>4 DEF Answering
<1>4. CASE Releasing(c, y, w)
  <2>1. w = 0 /\ y.kind = "none"
    BY <1>t, <1>4 DEF Releasing, WalkOK, Idle
  <2> QED BY <2>1 DEF CallOK, WalkOK
<1> QED BY <1>1, <1>2, <1>3, <1>4 DEF Changes

\* A call that the step does not touch.
LEMMA OtherCall ==
  ASSUME IInv, [Next]_vars, NEW d \in Connections, conn'[d] = conn[d], walk'[d] = walk[d]
  PROVE  CallOK(conn[d])' /\ WalkOK(conn[d], walk[d])'
<1>t. CallOK(conn[d]) /\ WalkOK(conn[d], walk[d]) /\ walk[d] \in Nat /\ logged \in Nat
  BY DashboardAssumption DEF IInv, CallsOK, TypeOK
<1>k. /\ clears \in Nat /\ clears' \in {clears, clears + 1}
      /\ asks \in Nat /\ asks' \in {asks, asks + 1}
      /\ clears' = 0 => clears = 0
  BY CountsGrow DEF IInv
<1>l. logged' \in Nat /\ logged <= logged'
  BY BufferStep, DashboardAssumption
<1>1. WalkOK(conn[d], walk[d])'
  BY <1>t, <1>k, <1>l DEF WalkOK
<1>2. conn[d].kind = "getLogs" => InOrder(conn[d].body, clears')
  BY <1>t, <1>k, InOrderWeakens DEF CallOK
<1>3. conn[d].kind = "ask" => \E n \in 1..asks' : conn[d].body = <<n>>
  <2> SUFFICES ASSUME conn[d].kind = "ask" PROVE \E n \in 1..asks' : conn[d].body = <<n>>
    OBVIOUS
  <2>1. PICK n \in 1..asks : conn[d].body = <<n>>
    BY <1>t DEF CallOK
  <2>2. n \in 1..asks'
    BY <1>k, <2>1
  <2> QED BY <2>1, <2>2
<1>4. conn[d].kind = "clearLogs" => clears' > 0
  BY <1>t, <1>k DEF CallOK
<1> QED BY <1>t, <1>1, <1>2, <1>3, <1>4 DEF CallOK

\* What is on its way stays in order, and every question keeps its number.
LEMMA CallsStep ==
  ASSUME IInv, [Next]_vars
  PROVE  /\ conn' \in [Connections -> Call] /\ walk' \in [Connections -> 0..MaxLines]
         /\ CallsOK'
<1>t. conn \in [Connections -> Call] /\ walk \in [Connections -> 0..MaxLines]
  BY DEF IInv, TypeOK
<1>1. CASE UNCHANGED <<conn, walk>>
  BY <1>t, <1>1, OtherCall DEF CallsOK
<1>2. ASSUME NEW c \in Connections, Changed(c)
      PROVE  /\ conn' \in [Connections -> Call] /\ walk' \in [Connections -> 0..MaxLines]
             /\ CallsOK'
  <2>1. PICK y \in Call, w \in 0..MaxLines : /\ conn' = [conn EXCEPT ![c] = y]
                                             /\ walk' = [walk EXCEPT ![c] = w]
                                             /\ Changes(c, y, w)
    BY <1>2 DEF Changed
  <2>2. CallOK(y)' /\ WalkOK(y, w)'
    BY <2>1, ChangedCall
  <2>3. ASSUME NEW d \in Connections
        PROVE  CallOK(conn[d])' /\ WalkOK(conn[d], walk[d])'
    <3>1. CASE d = c
      <4>1. conn'[d] = y /\ walk'[d] = w
        BY <1>t, <2>1, <3>1
      <4> QED BY <2>2, <4>1
    <3>2. CASE d # c
      <4>1. conn'[d] = conn[d] /\ walk'[d] = walk[d]
        BY <1>t, <2>1, <3>2
      <4> QED BY <4>1, OtherCall
    <3> QED BY <3>1, <3>2
  <2> QED BY <1>t, <2>1, <2>3 DEF CallsOK
<1> QED BY <1>1, <1>2, CallSteps DEF IInv

-----------------------------------------------------------------------------
(* The browser's half.                                                     *)

\* Each step that draws rows or opens a dialog.
LEMMA ViewSteps ==
  ASSUME [Next]_vars
  PROVE  \/ UNCHANGED logView /\ UNCHANGED dialog
         \/ \E c \in Connections : UpdateLogs(c) \/ Cleared(c)
         \/ \E level \in Buttons \cup {AnyLevel} : SetLevel(level)
         \/ \E row \in rows : OpenLogDetail(row)
         \/ TogglePause
         \/ CloseDialog
BY DEF Next, Log, Serve, Callback, User, vars, Poll, StartWalk, Step, GetLogs, ClearFirst, ClearLogs,
       Analyze, Fail, Size, PollLast, AddFirst, UpdateFails, RenderAi, ClickClear, RunAiAction, ClosePanel, logView, aiView

\* The log panel keeps the lines in order and its rows in agreement with them.
LEMMA ViewStep ==
  ASSUME IInv, [Next]_vars
  PROVE  /\ allLogs' \in Seq(Lines) /\ Len(allLogs') <= Limit /\ isList' \in BOOLEAN
         /\ rows' \subseteq [line : Lines, index : Nat]
         /\ activeLogLevel' \in Buttons \cup {AnyLevel} /\ logsPaused' \in BOOLEAN
         /\ dialog' \in BOOLEAN
         /\ InOrder(allLogs, clears)' /\ RowsOpenTheirLine'
<1>t. /\ allLogs \in Seq(Lines) /\ Len(allLogs) <= Limit /\ isList \in BOOLEAN
      /\ rows \subseteq [line : Lines, index : Nat]
      /\ activeLogLevel \in Buttons \cup {AnyLevel} /\ logsPaused \in BOOLEAN
      /\ dialog \in BOOLEAN
      /\ InOrder(allLogs, clears) /\ RowsOpenTheirLine
  BY DEF IInv, TypeOK
<1>k. clears' = 0 => clears = 0
  BY CountsGrow DEF IInv
<1>c. Limit \in Nat /\ MaxLines \in Nat
  BY DashboardAssumption
<1>1. CASE UNCHANGED <<allLogs, isList, rows, activeLogLevel>> /\ dialog' \in BOOLEAN
           /\ logsPaused' \in BOOLEAN
  BY <1>t, <1>k, <1>1, InOrderWeakens DEF RowsOpenTheirLine
<1>2. ASSUME NEW c \in Connections, UpdateLogs(c)
      PROVE  /\ allLogs' \in Seq(Lines) /\ Len(allLogs') <= Limit /\ isList' \in BOOLEAN
             /\ rows' \subseteq [line : Lines, index : Nat]
             /\ UNCHANGED <<activeLogLevel, logsPaused, dialog>>
             /\ InOrder(allLogs, clears)' /\ RowsOpenTheirLine'
  <2>1. /\ conn[c].kind = "getLogs" /\ conn[c].state \in {"answered", "error"} /\ CallOK(conn[c])
        /\ allLogs' = conn[c].body /\ isList' = (conn[c].state = "answered")
        /\ rows' = Redrawn(conn[c].body, isList', activeLogLevel)
        /\ UNCHANGED <<activeLogLevel, logsPaused, dialog>>
    BY <1>2 DEF UpdateLogs, Settled, IInv, CallsOK, aiView
  <2>2. /\ allLogs' \in Seq(Lines) /\ Len(allLogs') <= Limit /\ InOrder(allLogs', clears)
        /\ ~isList' => allLogs' = <<>>
    BY <2>1 DEF CallOK
  <2>3. CASE isList' \/ activeLogLevel = AnyLevel
    <3>1. rows' = Rendered(allLogs', allLogs', activeLogLevel)
      BY <2>1, <2>3 DEF Redrawn
    <3>2. /\ rows' \subseteq [line : Lines, index : Nat]
          /\ \A row \in rows' : row.index \in DOMAIN allLogs' /\ allLogs'[row.index] = row.line
      BY <2>2, <3>1, RenderedOpens
    <3> QED BY <1>k, <2>1, <2>2, <3>2, InOrderWeakens DEF RowsOpenTheirLine
  <2>4. CASE ~isList' /\ activeLogLevel # AnyLevel
    <3>1. rows' = rows
      BY <2>1, <2>4 DEF Redrawn
    <3>2. allLogs' = <<>> /\ DOMAIN allLogs' = {}
      BY <2>2, <2>4
    <3> QED BY <1>t, <1>k, <2>1, <2>2, <2>4, <3>1, <3>2, InOrderWeakens DEF RowsOpenTheirLine
  <2> QED BY <2>3, <2>4
<1>3. ASSUME NEW c \in Connections, Cleared(c)
      PROVE  /\ allLogs' = <<>> /\ isList' = TRUE /\ rows' = {}
             /\ UNCHANGED <<activeLogLevel, logsPaused, dialog>>
             /\ InOrder(allLogs, clears)' /\ RowsOpenTheirLine'
  <2>1. /\ allLogs' = <<>> /\ isList' = TRUE /\ rows' = {}
        /\ UNCHANGED <<activeLogLevel, logsPaused, dialog>>
    BY <1>3 DEF Cleared, aiView
  <2>2. Len(<<>>) = 0
    OBVIOUS
  <2> QED BY <2>1, <2>2 DEF InOrder, RowsOpenTheirLine
<1>4. ASSUME NEW level \in Buttons \cup {AnyLevel}, SetLevel(level)
      PROVE  /\ UNCHANGED <<allLogs, isList, logsPaused, dialog>> /\ activeLogLevel' = level
             /\ rows' \subseteq [line : Lines, index : Nat]
             /\ InOrder(allLogs, clears)' /\ RowsOpenTheirLine'
  <2>1. /\ UNCHANGED <<allLogs, isList, logsPaused, dialog, clears>> /\ activeLogLevel' = level
        /\ rows' = Redrawn(allLogs, isList, level)
    BY <1>4 DEF SetLevel, aiView
  <2>2. CASE isList \/ level = AnyLevel
    <3>1. rows' = Rendered(allLogs, allLogs, level)
      BY <2>1, <2>2 DEF Redrawn
    <3>2. /\ rows' \subseteq [line : Lines, index : Nat]
          /\ \A row \in rows' : row.index \in DOMAIN allLogs /\ allLogs[row.index] = row.line
      BY <1>t, <3>1, RenderedOpens
    <3> QED BY <1>t, <2>1, <3>2 DEF RowsOpenTheirLine
  <2>3. CASE ~isList /\ level # AnyLevel
    <3>1. rows' = rows
      BY <2>1, <2>3 DEF Redrawn
    <3> QED BY <1>t, <2>1, <2>3, <3>1 DEF RowsOpenTheirLine
  <2> QED BY <2>2, <2>3
<1>5. ASSUME NEW row \in rows, OpenLogDetail(row)
      PROVE  UNCHANGED <<allLogs, isList, rows, activeLogLevel, logsPaused>> /\ dialog' \in BOOLEAN
  BY <1>5 DEF OpenLogDetail, logView
<1>6. CASE TogglePause
  <2>1. UNCHANGED <<allLogs, isList, rows, activeLogLevel, dialog>> /\ logsPaused' = ~logsPaused
    BY <1>6 DEF TogglePause, aiView
  <2> QED BY <1>1, <1>t, <2>1
<1>7. CASE CloseDialog
  <2>1. UNCHANGED <<allLogs, isList, rows, activeLogLevel, logsPaused>> /\ dialog' = FALSE
    BY <1>7 DEF CloseDialog, logView
  <2> QED BY <1>1, <1>c, <1>t, <2>1
<1>8. CASE UNCHANGED logView /\ UNCHANGED dialog
  BY <1>1, <1>t, <1>8 DEF logView
<1>9. <<>> \in Seq(Lines) /\ Len(<<>>) <= Limit
  BY <1>c
<1> QED BY <1>t, <1>1, <1>2, <1>3, <1>4, <1>5, <1>6, <1>7, <1>8, <1>9, ViewSteps

\* The AI panel waits for nothing but a question under way.
LEMMA PanelStep ==
  ASSUME IInv, [Next]_vars
  PROVE  /\ panel' \in [asked : 1..MaxAsks, shows : 0..MaxAsks] \cup {NoPanel}
         /\ SpinningPanelIsAwaited'
<1>t. /\ panel \in [asked : 1..MaxAsks, shows : 0..MaxAsks] \cup {NoPanel}
      /\ conn \in [Connections -> Call] /\ asks \in 0..MaxAsks /\ MaxAsks \in Nat
      /\ SpinningPanelIsAwaited
  BY DashboardAssumption DEF IInv, TypeOK
<1>1. CASE UNCHANGED conn /\ panel' \in {panel, NoPanel}
  BY <1>t, <1>1 DEF SpinningPanelIsAwaited
<1>2. ASSUME NEW c \in Connections, Changed(c)
      PROVE  /\ panel' \in [asked : 1..MaxAsks, shows : 0..MaxAsks] \cup {NoPanel}
             /\ SpinningPanelIsAwaited'
  <2>1. PICK y \in Call, w \in 0..MaxLines : conn' = [conn EXCEPT ![c] = y] /\ Changes(c, y, w)
    BY <1>2 DEF Changed
  <2>2. conn'[c] = y /\ \A d \in Connections \ {c} : conn'[d] = conn[d]
    BY <1>t, <2>1
  <2>3. CASE UNCHANGED panel /\ (conn[c].kind = "ask" => y.kind = "ask" /\ y.body = conn[c].body)
    BY <1>t, <2>2, <2>3 DEF SpinningPanelIsAwaited
  <2>4. CASE Sending(c, y, w)
    <3>1. CASE UNCHANGED panel
      <4>1. conn[c].kind # "ask"
        BY <2>4 DEF Sending, Idle
      <4> QED BY <2>3, <3>1, <4>1
    <3>2. CASE y.kind = "ask" /\ y.body = <<asks + 1>> /\ panel' = [asked |-> asks + 1, shows |-> 0]
               /\ asks < MaxAsks
      <4>1. asks + 1 \in 1..MaxAsks
        BY <1>t, <3>2
      <4>2. panel'.asked = asks + 1
        BY <3>2
      <4> QED BY <1>t, <2>2, <3>2, <4>1, <4>2 DEF SpinningPanelIsAwaited
    <3> QED BY <2>4, <3>1, <3>2 DEF Sending
  <2>5. CASE Walking(c, y, w) \/ Answering(c, y, w)
    BY <2>3, <2>5 DEF Walking, Answering
  <2>6. CASE Releasing(c, y, w)
    <3>1. CASE conn[c].kind # "ask"
      BY <2>3, <2>6, <3>1 DEF Releasing
    <3>2. CASE conn[c].kind = "ask" /\ panel = NoPanel
      BY <1>t, <2>6, <3>2 DEF Releasing, SpinningPanelIsAwaited
    <3>3. CASE conn[c].kind = "ask" /\ panel # NoPanel
      <4>1. PICK n \in 1..asks : conn[c].body = <<n>>
        BY <3>3 DEF IInv, CallsOK, CallOK
      <4>2. panel' = [panel EXCEPT !.shows = n]
        BY <2>6, <3>3, <4>1 DEF Releasing
      <4>3. panel' = [asked |-> panel.asked, shows |-> n]
        BY <1>t, <3>3, <4>2
      <4>4. n \in 1..MaxAsks /\ panel.asked \in 1..MaxAsks
        BY <1>t, <3>3
      <4>5. panel' \in [asked : 1..MaxAsks, shows : 0..MaxAsks] /\ panel'.shows # 0
        BY <4>3, <4>4
      <4> QED BY <4>5 DEF SpinningPanelIsAwaited
    <3> QED BY <3>1, <3>2, <3>3
  <2> QED BY <2>1, <2>4, <2>5, <2>6 DEF Changes
<1> QED BY <1>1, <1>2, CallSteps DEF IInv

\* The bounds on questions, clears and failures.
LEMMA CountersStep ==
  ASSUME TypeOK, CallsOK, [Next]_vars
  PROVE  asks' \in 0..MaxAsks /\ clears' \in 0..MaxClears /\ failures' \in 0..MaxFailures
<1>t. /\ asks \in 0..MaxAsks /\ clears \in 0..MaxClears /\ failures \in 0..MaxFailures
      /\ MaxAsks \in Nat /\ MaxClears \in Nat /\ MaxFailures \in Nat
  BY DashboardAssumption DEF TypeOK
<1>1. UNCHANGED failures \/ (failures < MaxFailures /\ failures' = failures + 1)
  BY DEF Next, Log, Serve, Callback, User, vars, Poll, StartWalk, Step, GetLogs, ClearFirst, ClearLogs,
         Analyze, Fail, Size, PollLast, AddFirst, UpdateLogs, UpdateFails, Cleared, RenderAi, ClickClear, RunAiAction,
         SetLevel, OpenLogDetail, TogglePause, CloseDialog, ClosePanel
<1>2. CASE UNCHANGED <<conn, asks, clears>>
  BY <1>t, <1>1, <1>2
<1>3. ASSUME NEW c \in Connections, Changed(c)
      PROVE  asks' \in 0..MaxAsks /\ clears' \in 0..MaxClears
  BY <1>t, <1>3 DEF Changed, Changes, Sending, Walking, Answering, Releasing
<1> QED BY <1>t, <1>1, <1>2, <1>3, CallSteps

-----------------------------------------------------------------------------
\* The invariant is inductive.
THEOREM Inductive == Spec => []IInv
<1>c. /\ MAX_SIZE \in Nat \ {0} /\ Limit \in Nat
      /\ MaxLines \in Nat /\ MaxClears \in Nat /\ MaxAsks \in Nat /\ MaxFailures \in Nat
  BY DashboardAssumption
<1>1. Init => IInv
  <2> SUFFICES ASSUME Init PROVE IInv
    OBVIOUS
  <2>1. <<>> \in Seq(Lines) /\ <<>> \in Seq(Nat) /\ Len(<<>>) = 0
    OBVIOUS
  <2>2. Idle \in Call /\ CallOK(Idle) /\ WalkOK(Idle, 0)
    BY <2>1 DEF Idle, Call, CallOK, WalkOK
  <2>3. conn \in [Connections -> Call] /\ walk \in [Connections -> 0..MaxLines] /\ CallsOK
    BY <1>c, <2>2 DEF Init, CallsOK
  <2>4. buffer \in Seq(Lines) /\ Len(buffer) <= MAX_SIZE /\ BufferOK /\ RoomForNext
    BY <1>c, <2>1 DEF Init, BufferOK, RoomForNext
  <2>5. /\ allLogs \in Seq(Lines) /\ Len(allLogs) <= Limit /\ isList \in BOOLEAN /\ InOrder(allLogs, clears)
        /\ rows \subseteq [line : Lines, index : Nat] /\ RowsOpenTheirLine
    BY <1>c, <2>1 DEF Init, InOrder, RowsOpenTheirLine
  <2>6. panel \in [asked : 1..MaxAsks, shows : 0..MaxAsks] \cup {NoPanel} /\ SpinningPanelIsAwaited
    BY DEF Init, SpinningPanelIsAwaited
  <2>7. /\ activeLogLevel \in Buttons \cup {AnyLevel} 
        /\ appending \in {"no", "sizing", "polling", "adding"}
        /\ logsPaused \in BOOLEAN /\ dialog \in BOOLEAN
    BY DEF Init
  <2>8. /\ logged \in 0..MaxLines
        /\ asks \in 0..MaxAsks /\ clears \in 0..MaxClears /\ failures \in 0..MaxFailures
    BY <1>c DEF Init
  <2> QED BY <2>3, <2>4, <2>5, <2>6, <2>7, <2>8 DEF IInv, TypeOK
<1>2. IInv /\ [Next]_vars => IInv'
  <2> SUFFICES ASSUME IInv, [Next]_vars PROVE IInv'
    OBVIOUS
  <2>1. asks' \in 0..MaxAsks /\ clears' \in 0..MaxClears /\ failures' \in 0..MaxFailures
    BY CountersStep DEF IInv
  <2>2. TypeOK'
    BY <2>1, BufferStep, CallsStep, ViewStep, PanelStep DEF TypeOK
  <2> QED BY <2>2, BufferStep, CallsStep, ViewStep, PanelStep DEF IInv
<1> QED BY <1>1, <1>2, PTL DEF Spec

\* The server's buffer never exceeds MAX_SIZE and an answer never the limit,
\* although loggers and a clear work on the buffer at once (TypeOK).
THEOREM TypeCorrect == Spec => []TypeOK
<1>1. IInv => TypeOK
  BY DEF IInv
<1> QED BY <1>1, Inductive, PTL

\* renderLogs numbers its rows after the array openLogDetail looks them up in:
\* a click opens the line it is on (RowsOpenTheirLine).
THEOREM ClicksOpenTheirLine == Spec => []RowsOpenTheirLine
<1>1. IInv => RowsOpenTheirLine
  BY DEF IInv
<1> QED BY <1>1, Inductive, PTL

\* No answer shows lines out of order, or with a gap before the first clear
\* (NewestFirst), however many loggers, polls and connections there are.
THEOREM LinesAreInOrder == Spec => []NewestFirst
<1>1. IInv => NewestFirst
  BY DEF IInv, InOrder, NewestFirst
<1> QED BY <1>1, Inductive, PTL

\* A panel that says "Analyzing..." has its own question under way
\* (SpinningPanelIsAwaited), whichever panels were replaced or closed.
THEOREM NobodyWaitsForNothing == Spec => []SpinningPanelIsAwaited
<1>1. IInv => SpinningPanelIsAwaited
  BY DEF IInv
<1> QED BY <1>1, Inductive, PTL
=============================================================================
