------------------------- MODULE Aggregation_proofs -------------------------
(***************************************************************************)
(* The aggregation job, for any number of replicas, events and restarts,   *)
(* any window, and any delay that is no shorter than the window.           *)
(*                                                                         *)
(* Two arguments meet in CountedOnce.  Across runs: a process starts a run *)
(* at least Delay after the end of the window before, so the windows of    *)
(* one process touch at most in their end points.  Within a run: what has  *)
(* been sent has left docs, so the aggregations of one window are          *)
(* disjoint.                                                               *)
(***************************************************************************)
EXTENDS Aggregation, FiniteSetTheorems, SequenceTheorems, TLAPS

Running(r) == pc[r] # "idle"

\* w is a window of the process of r that is alive.
Live(w, r) == w.rep = r /\ w.epoch = epoch[r]

WindowsOK == \A w \in windows : /\ w.end = w.start + Window
                                /\ w.epoch <= epoch[w.rep]
                                /\ w.end <= now

CurrentOK == \A r \in Replicas : Running(r) => window[r] \in windows /\ Live(window[r], r)

\* The pace of the scheduler: Delay between the end of a window and the next.
Paced == \A r \in Replicas : \A w \in windows : Live(w, r) =>
            IF Running(r) THEN w = window[r] \/ w.end + Delay <= window[r].end
                          ELSE w.end + Delay <= due[r]

WindowsApart == \A v, w \in windows : SameProcess(v, w) /\ v # w =>
                   v.end <= w.start \/ w.end <= v.start

WInv == TypeOK /\ WindowsOK /\ CurrentOK /\ Paced /\ WindowsApart

\* The aggregation a carries the group of e.
SameGroup(a, e) == KeyTenant(GroupKey(e)) = a.tenant /\ KeyEndpoint(GroupKey(e)) = a.endpoint

DocsOK == \A r \in Replicas : pc[r] = "send" =>
             \A e \in docs[r] : e \in saved /\ InWindow(e, window[r])

NothingSentYet == \A r \in Replicas : pc[r] \in {"count", "search"} =>
                     \A a \in topic : a.window # window[r]

NotSentTwice == \A r \in Replicas : pc[r] = "send" =>
                   \A a \in topic : a.window = window[r] =>
                      \A e \in docs[r] : e \notin a.events /\ ~SameGroup(a, e)

TopicOK == \A a \in topic : /\ a.window \in windows
                            /\ a.events # {}
                            /\ \A e \in a.events : /\ e \in saved /\ InWindow(e, a.window)
                                                  /\ SameGroup(a, e)

Separate == \A a, b \in topic : a.window = b.window /\ a # b =>
               /\ a.events \cap b.events = {}
               /\ ~(a.tenant = b.tenant /\ a.endpoint = b.endpoint)

IInv == WInv /\ DocsOK /\ NothingSentYet /\ NotSentTwice /\ TopicOK /\ Separate

-----------------------------------------------------------------------------
\* A key is a non-empty sequence of names.
LEMMA KeyType ==
  ASSUME NEW e \in Events
  PROVE  /\ GroupKey(e) \in Seq(STRING) /\ GroupKey(e) # <<>>
         /\ KeyTenant(GroupKey(e)) \in Seq(STRING)
         /\ KeyEndpoint(GroupKey(e)) \in Seq(STRING)
<1>1. /\ TenantOf[e] \in Seq(STRING) /\ TenantOf[e] # <<>>
      /\ EndpointOf[e] \in Seq(STRING)
  BY AggregationAssumption
<1>2. ASSUME NEW s \in Seq(STRING), s # <<>>, NEW t \in Seq(STRING)
      PROVE  s \o t \in Seq(STRING) /\ s \o t # <<>>
  <2>1. Len(s) > 0 /\ Len(t) >= 0 /\ Len(s \o t) = Len(s) + Len(t)
    BY <1>2
  <2> QED BY <2>1, <1>2
<1>3. GroupKey(e) \in Seq(STRING) /\ GroupKey(e) # <<>>
  BY <1>1, <1>2 DEF GroupKey
<1>4. Head(GroupKey(e)) \in STRING /\ Tail(GroupKey(e)) \in Seq(STRING)
  BY <1>3
<1> QED BY <1>3, <1>4 DEF KeyTenant, KeyEndpoint

\* The first name and the rest determine a key.
LEMMA KeyParts ==
  ASSUME NEW x \in Seq(STRING), x # <<>>, NEW y \in Seq(STRING), y # <<>>,
         KeyTenant(x) = KeyTenant(y), KeyEndpoint(x) = KeyEndpoint(y)
  PROVE  x = y
<1>1. Head(x) = Head(y) /\ Tail(x) = Tail(y)
  BY DEF KeyTenant, KeyEndpoint
<1>2. x = <<Head(x)>> \o Tail(x) /\ y = <<Head(y)>> \o Tail(y)
  OBVIOUS
<1> QED BY <1>1, <1>2

\* The window of a run that starts now.
LEMMA WindowNowType ==
  ASSUME TypeOK, NEW r \in Replicas
  PROVE  /\ WindowNow(r) \in WindowType
         /\ WindowNow(r).rep = r /\ WindowNow(r).epoch = epoch[r]
         /\ WindowNow(r).end = now /\ WindowNow(r).end = WindowNow(r).start + Window
BY AggregationAssumption DEF TypeOK, WindowNow, WindowType

-----------------------------------------------------------------------------
\* The state is well typed after every step.
LEMMA TypeSteps ==
  ASSUME TypeOK, [Next]_vars
  PROVE  TypeOK'
<1>a. Window \in Nat /\ Delay \in Nat /\ NoTime \notin Nat
  BY AggregationAssumption
<1>1. CASE Tick
  BY <1>1, <1>a DEF Tick, TypeOK
<1>2. ASSUME NEW e \in Events, Occur(e) PROVE TypeOK'
  BY <1>2, <1>a DEF Occur, TypeOK
<1>3. ASSUME NEW e \in Events, Save(e) PROVE TypeOK'
  BY <1>3, <1>a DEF Save, TypeOK
<1>4. ASSUME NEW r \in Replicas, StartRun(r) PROVE TypeOK'
  BY <1>4, <1>a, WindowNowType DEF StartRun, TypeOK
<1>5. ASSUME NEW r \in Replicas, Count(r) PROVE TypeOK'
  <2>1. Matching(window[r]) \subseteq Events
    BY <1>5 DEF Matching, TypeOK
  <2>2. pc' \in [Replicas -> {"idle", "count", "search", "send"}] /\ due' \in [Replicas -> Nat]
    BY <1>5, <1>a DEF Count, EndRun, NextDue, TypeOK
  <2>3. Cardinality(Matching(window[r])) \in Nat
    BY <2>1, AggregationAssumption, FS_Subset, FS_CardinalityType
  <2>4. count' \in [Replicas -> Nat]
    BY <1>5, <2>3 DEF Count, TypeOK
  <2> QED BY <1>5, <1>a, <2>2, <2>4 DEF Count, TypeOK
<1>6. ASSUME NEW r \in Replicas, Search(r) PROVE TypeOK'
  <2>1. Matching(window[r]) \subseteq Events
    BY <1>6 DEF Matching, TypeOK
  <2> QED BY <1>6, <1>a, <2>1 DEF Search, TypeOK
<1>7. ASSUME NEW r \in Replicas, QueryFails(r) PROVE TypeOK'
  BY <1>7, <1>a DEF QueryFails, EndRun, NextDue, TypeOK
<1>8. ASSUME NEW r \in Replicas, Send(r) PROVE TypeOK'
  <2>1. PICK key \in {GroupKey(e) : e \in docs[r]} :
          /\ topic' \in {topic, topic \cup {[window |-> window[r], tenant |-> KeyTenant(key),
                             endpoint |-> KeyEndpoint(key), events |-> Group(r, key)]}}
          /\ docs' = [docs EXCEPT ![r] = @ \ Group(r, key)]
    BY <1>8 DEF Send
  <2>2. KeyTenant(key) \in Seq(STRING) /\ KeyEndpoint(key) \in Seq(STRING)
    BY KeyType DEF TypeOK
  <2>3. Group(r, key) \subseteq Events
    BY DEF Group, TypeOK
  <2>4. topic' \subseteq AggregationType
    BY <2>1, <2>2, <2>3 DEF AggregationType, TypeOK
  <2>5. docs' \in [Replicas -> SUBSET Events]
    BY <2>1 DEF TypeOK
  <2> QED BY <1>8, <1>a, <2>4, <2>5 DEF Send, TypeOK
<1>9. ASSUME NEW r \in Replicas, Finish(r) PROVE TypeOK'
  BY <1>9, <1>a DEF Finish, EndRun, NextDue, TypeOK
<1>10. ASSUME NEW r \in Replicas, Restart(r) PROVE TypeOK'
  BY <1>10, <1>a DEF Restart, TypeOK
<1>11. CASE UNCHANGED vars
  BY <1>11 DEF vars, TypeOK
<1> QED BY <1>1, <1>2, <1>3, <1>4, <1>5, <1>6, <1>7, <1>8, <1>9, <1>10, <1>11 DEF Next, Run

-----------------------------------------------------------------------------
\* The steps that leave the schedule, the windows and the processes alone, or
\* end a run, keep the windows of each process apart.
LEMMA WindowSteps ==
  ASSUME WInv, [Next]_vars
  PROVE  WInv'
<1>t. TypeOK /\ WindowsOK /\ CurrentOK /\ Paced /\ WindowsApart /\ TypeOK'
  BY TypeSteps DEF WInv
<1>a. Window \in Nat \ {0} /\ Delay \in Nat /\ Delay >= Window
  BY AggregationAssumption
<1>w. \A w \in windows : w.rep \in Replicas /\ w.epoch \in Nat /\ w.start \in Nat /\ w.end \in Nat
  BY <1>t DEF TypeOK, WindowType
<1>n. now \in Nat /\ \A r \in Replicas : epoch[r] \in Nat /\ due[r] \in Nat
  BY <1>t DEF TypeOK
<1>1. CASE Tick
  BY <1>1, <1>t, <1>w, <1>n DEF Tick, WInv, WindowsOK, CurrentOK, Paced, WindowsApart, Running, Live
\* A step that goes on with the run of each replica.
<1>2. ASSUME UNCHANGED <<now, due, window, epoch, windows>>,
             \A r \in Replicas : pc'[r] = "idle" <=> pc[r] = "idle"
      PROVE  WInv'
  BY <1>2, <1>t DEF WInv, WindowsOK, CurrentOK, Paced, WindowsApart, Running, Live
\* A step that ends the run of one replica.
<1>3. ASSUME NEW r \in Replicas, Running(r), EndRun(r), UNCHANGED <<now, window, epoch, windows>>
      PROVE  WInv'
  <2>1. /\ pc'[r] = "idle" /\ due'[r] = now + Delay
        /\ \A q \in Replicas \ {r} : pc'[q] = pc[q] /\ due'[q] = due[q]
    BY <1>3, <1>t DEF EndRun, NextDue, TypeOK
  <2>2. WindowsOK' /\ WindowsApart'
    BY <1>3, <1>t DEF WindowsOK, WindowsApart
  <2>3. CurrentOK'
    BY <1>3, <1>t, <2>1 DEF CurrentOK, Running, Live
  <2>4. ASSUME NEW w \in windows PROVE w.end + Delay <= now + Delay
    BY <1>t, <1>a, <1>w, <1>n DEF WindowsOK
  <2>5. Paced'
    BY <1>3, <1>t, <2>1, <2>4 DEF Paced, Running, Live
  <2> QED BY <1>t, <2>2, <2>3, <2>5 DEF WInv
<1>4. ASSUME NEW r \in Replicas, StartRun(r)
      PROVE  WInv'
  <2> DEFINE v == WindowNow(r)
  <2>1. v \in WindowType /\ Live(v, r) /\ v.end = now /\ v.end = v.start + Window
    BY <1>t, <1>4, WindowNowType DEF Live
  <2>2. /\ windows' = windows \cup {v} /\ window'[r] = v /\ pc'[r] = "count" /\ now >= due[r]
        /\ \A q \in Replicas \ {r} : window'[q] = window[q] /\ pc'[q] = pc[q]
        /\ UNCHANGED <<now, due, epoch>> /\ pc[r] = "idle"
    BY <1>4, <1>t DEF StartRun, TypeOK
  <2> HIDE DEF v
  <2>v. v.rep = r /\ v.epoch = epoch[r] /\ v.start \in Nat /\ v.end \in Nat
    BY <2>1 DEF WindowType, Live
  <2>3. ASSUME NEW w \in windows, Live(w, r)
        PROVE  w.end + Delay <= v.end /\ w.end <= v.start
    <3>1. w.end + Delay <= due[r]
      BY <1>t, <2>2, <2>3 DEF Paced, Running
    <3> QED BY <1>a, <1>w, <1>n, <2>1, <2>2, <2>v, <3>1
  <2>4. WindowsOK'
    <3>1. v.end = v.start + Window /\ v.epoch <= epoch[v.rep] /\ v.end <= now
      BY <1>n, <2>1, <2>v
    <3> QED BY <1>t, <2>2, <3>1 DEF WindowsOK
  <2>5. CurrentOK'
    BY <1>t, <2>1, <2>2 DEF CurrentOK, Running, Live
  <2>6. Paced'
    <3> SUFFICES ASSUME NEW q \in Replicas, NEW w \in windows', Live(w, q)
                 PROVE  IF pc'[q] # "idle" THEN w = window'[q] \/ w.end + Delay <= window'[q].end
                                           ELSE w.end + Delay <= due[q]
      BY <2>2 DEF Paced, Running, Live
    <3>1. CASE q = r
      BY <2>2, <2>3, <3>1
    <3>2. CASE q # r
      <4>1. w \in windows
        BY <2>2, <2>v, <3>2 DEF Live
      <4> QED BY <1>t, <2>2, <3>2, <4>1 DEF Paced, Running
    <3> QED BY <3>1, <3>2
  <2>7. \A w \in windows : SameProcess(v, w) => w.end <= v.start
    BY <2>3, <2>v DEF SameProcess, Live
  <2>8. WindowsApart'
    BY <1>t, <2>2, <2>7 DEF WindowsApart, SameProcess
  <2> QED BY <1>t, <2>4, <2>5, <2>6, <2>8 DEF WInv
<1>5. ASSUME NEW r \in Replicas, Restart(r)
      PROVE  WInv'
  <2>1. /\ pc'[r] = "idle" /\ epoch'[r] = epoch[r] + 1
        /\ \A q \in Replicas \ {r} : pc'[q] = pc[q] /\ due'[q] = due[q] /\ epoch'[q] = epoch[q]
        /\ UNCHANGED <<now, window, windows>>
    BY <1>5, <1>t DEF Restart, TypeOK
  <2>2. \A q \in Replicas : epoch[q] <= epoch'[q] /\ epoch'[q] \in Nat
    BY <1>n, <2>1
  <2>3. WindowsOK'
    BY <1>t, <1>w, <1>n, <2>1, <2>2 DEF WindowsOK
  <2>4. \A w \in windows : w.rep = r => w.epoch # epoch'[r]
    BY <1>t, <1>w, <1>n, <2>1 DEF WindowsOK
  <2>5. CurrentOK'
    BY <1>t, <2>1 DEF CurrentOK, Running, Live
  <2>6. Paced'
    BY <1>t, <2>1, <2>4 DEF Paced, Running, Live
  <2>7. WindowsApart'
    BY <1>t, <2>1 DEF WindowsApart
  <2> QED BY <1>t, <2>3, <2>5, <2>6, <2>7 DEF WInv
<1>6. ASSUME NEW r \in Replicas, Count(r) PROVE WInv'
  <2>1. CASE count'[r] = 0
    BY <1>6, <2>1, <1>3 DEF Count, Running
  <2>2. CASE count'[r] # 0
    BY <1>6, <1>t, <2>2, <1>2 DEF Count, TypeOK
  <2> QED BY <2>1, <2>2
<1>7. ASSUME NEW r \in Replicas, Search(r) \/ Send(r) PROVE WInv'
  BY <1>7, <1>t, <1>2 DEF Search, Send, TypeOK
<1>8. ASSUME NEW r \in Replicas, QueryFails(r) \/ Finish(r) PROVE WInv'
  BY <1>8, <1>3 DEF QueryFails, Finish, Running
<1>9. ASSUME NEW e \in Events, Occur(e) \/ Save(e) PROVE WInv'
  BY <1>9, <1>2 DEF Occur, Save
<1>10. CASE UNCHANGED vars
  BY <1>10, <1>2 DEF vars
<1> QED BY <1>1, <1>4, <1>5, <1>6, <1>7, <1>8, <1>9, <1>10 DEF Next, Run

-----------------------------------------------------------------------------
AggInv == DocsOK /\ NothingSentYet /\ NotSentTwice /\ TopicOK /\ Separate

\* What a window holds does not change when an event happens.
LEMMA StampSteps ==
  ASSUME TypeOK, [Next]_vars, NEW e \in Events, NEW w, InWindow(e, w)
  PROVE  stamp'[e] = stamp[e]
<1>1. stamp[e] # NoTime
  BY DEF InWindow
<1>2. ASSUME NEW f \in Events, Occur(f) PROVE stamp'[e] = stamp[e]
  BY <1>1, <1>2 DEF Occur, TypeOK
<1>3. CASE UNCHANGED stamp
  BY <1>3
<1>4. (\E f \in Events : Occur(f)) \/ UNCHANGED stamp
  BY DEF Next, Run, Tick, Save, StartRun, Count, Search, QueryFails, Send, Finish, Restart, vars
<1> QED BY <1>2, <1>3, <1>4

\* The step that sends a group: what it sends is of its window, was not sent
\* before, and is not left to be sent again.
LEMMA SendStep ==
  ASSUME WInv, AggInv, NEW r \in Replicas, Send(r)
  PROVE  AggInv'
<1>t. /\ TypeOK /\ CurrentOK /\ DocsOK /\ NothingSentYet /\ NotSentTwice /\ TopicOK /\ Separate
      /\ pc[r] = "send" /\ UNCHANGED <<stamp, saved, pc, window, windows>>
  BY DEF WInv, AggInv, Send
<1>1. PICK key \in {GroupKey(e) : e \in docs[r]} :
        /\ topic' \in {topic, topic \cup {[window |-> window[r], tenant |-> KeyTenant(key),
                           endpoint |-> KeyEndpoint(key), events |-> Group(r, key)]}}
        /\ docs' = [docs EXCEPT ![r] = @ \ Group(r, key)]
  BY DEF Send
<1> DEFINE agg == [window |-> window[r], tenant |-> KeyTenant(key),
                   endpoint |-> KeyEndpoint(key), events |-> Group(r, key)]
<1>2. PICK f \in docs[r] : key = GroupKey(f)
  BY <1>1
<1>e. docs[r] \subseteq Events /\ \A q \in Replicas : docs[q] \subseteq Events
  BY <1>t DEF TypeOK
<1>3. /\ agg.window = window[r] /\ agg.tenant = KeyTenant(key)
      /\ agg.endpoint = KeyEndpoint(key) /\ agg.events = Group(r, key)
  OBVIOUS
<1>4. Group(r, key) = {e \in docs[r] : GroupKey(e) = key}
  BY DEF Group
<1>5. topic' = topic \/ topic' = topic \cup {agg}
  BY <1>1
<1> HIDE DEF agg
<1>6. /\ docs'[r] = docs[r] \ Group(r, key)
      /\ \A q \in Replicas \ {r} : docs'[q] = docs[q]
  BY <1>1, <1>t DEF TypeOK
<1>7. window[r] \in windows /\ Live(window[r], r)
  BY <1>t DEF CurrentOK, Running
\* The windows of the other runs are other windows.
<1>8. \A q \in Replicas \ {r} : pc[q] # "idle" => window[q] # agg.window
  BY <1>t, <1>3, <1>7 DEF CurrentOK, Running, Live
\* A document of another key is of another group.
<1>9. \A e \in docs[r] : SameGroup(agg, e) => GroupKey(e) = key
  <2> SUFFICES ASSUME NEW e \in docs[r], SameGroup(agg, e)
               PROVE  GroupKey(e) = GroupKey(f)
    BY <1>2
  <2>1. /\ GroupKey(e) \in Seq(STRING) /\ GroupKey(e) # <<>>
        /\ GroupKey(f) \in Seq(STRING) /\ GroupKey(f) # <<>>
    BY <1>e, KeyType
  <2>2. KeyTenant(GroupKey(e)) = KeyTenant(GroupKey(f))
        /\ KeyEndpoint(GroupKey(e)) = KeyEndpoint(GroupKey(f))
    BY <1>2, <1>3 DEF SameGroup
  <2> QED BY <2>1, <2>2, KeyParts
<1>10. DocsOK'
  BY <1>t, <1>6 DEF DocsOK, InWindow
<1>11. NothingSentYet'
  <2> SUFFICES ASSUME NEW q \in Replicas, pc[q] \in {"count", "search"}, NEW a \in topic'
               PROVE  a.window # window[q]
    BY <1>t DEF NothingSentYet
  <2>1. CASE a \in topic
    BY <1>t, <2>1 DEF NothingSentYet
  <2>2. CASE a = agg
    BY <1>t, <1>8, <2>2
  <2> QED BY <1>5, <2>1, <2>2
<1>12. NotSentTwice'
  <2> SUFFICES ASSUME NEW q \in Replicas, pc[q] = "send", NEW a \in topic', a.window = window[q],
                      NEW e \in docs'[q]
               PROVE  e \notin a.events /\ ~SameGroup(a, e)
    BY <1>t DEF NotSentTwice, SameGroup
  <2>0. e \in docs[q]
    BY <1>6
  <2>1. CASE a \in topic
    BY <1>t, <2>0, <2>1 DEF NotSentTwice
  <2>2. CASE a = agg
    <3>1. q = r
      BY <1>8, <2>2
    <3>2. GroupKey(e) # key /\ e \in docs[r]
      BY <1>4, <1>6, <3>1
    <3> QED BY <1>3, <1>4, <1>9, <2>2, <3>2
  <2> QED BY <1>5, <2>1, <2>2
<1>13. TopicOK'
  <2>1. agg.window \in windows /\ agg.events # {}
    BY <1>2, <1>3, <1>4, <1>7
  <2>2. \A e \in agg.events : e \in saved /\ InWindow(e, agg.window) /\ SameGroup(agg, e)
    BY <1>t, <1>3, <1>4 DEF DocsOK, SameGroup
  <2> QED BY <1>t, <1>5, <2>1, <2>2 DEF TopicOK, InWindow, SameGroup
<1>14. Separate'
  <2>1. ASSUME NEW a \in topic, a.window = agg.window
        PROVE  /\ a.events \cap agg.events = {}
               /\ ~(a.tenant = agg.tenant /\ a.endpoint = agg.endpoint)
    <3>1. \A e \in docs[r] : e \notin a.events /\ ~SameGroup(a, e)
      BY <1>t, <1>3, <2>1 DEF NotSentTwice
    <3>2. ~SameGroup(a, f)
      BY <3>1, <1>2
    <3> QED BY <1>2, <1>3, <1>4, <3>1, <3>2 DEF SameGroup
  <2> QED BY <1>t, <1>5, <2>1 DEF Separate
<1> QED BY <1>10, <1>11, <1>12, <1>13, <1>14 DEF AggInv

\* The other steps send nothing.
LEMMA QuietSteps ==
  ASSUME WInv, AggInv, [Next]_vars, \A r \in Replicas : ~Send(r)
  PROVE  AggInv'
<1>t. /\ TypeOK /\ Paced /\ DocsOK /\ NothingSentYet /\ NotSentTwice /\ TopicOK /\ Separate
  BY DEF WInv, AggInv
<1>1. topic' = topic /\ saved \subseteq saved' /\ windows \subseteq windows'
  BY DEF Next, Run, Tick, Occur, Save, StartRun, Count, Search, QueryFails, Finish, Restart, vars
<1>2. \A e \in Events, w \in windows : InWindow(e, w) => InWindow(e, w)'
  <2> SUFFICES ASSUME NEW e \in Events, NEW w \in windows, InWindow(e, w)
               PROVE  stamp'[e] # NoTime /\ w.start <= stamp'[e] /\ stamp'[e] <= w.end
    BY DEF InWindow
  <2> QED BY <1>t, StampSteps DEF InWindow
<1>3. TopicOK'
  <2>1. \A a \in topic : a.events \subseteq Events
    BY <1>t DEF TypeOK, AggregationType
  <2> QED BY <1>t, <1>1, <1>2, <2>1 DEF TopicOK, SameGroup
<1>4. Separate'
  BY <1>t, <1>1 DEF Separate
\* The runs a step does not touch.
<1>5. ASSUME NEW q \in Replicas, pc'[q] = pc[q], window'[q] = window[q], docs'[q] = docs[q]
      PROVE  /\ pc'[q] = "send" =>
                  /\ \A e \in docs'[q] : e \in saved' /\ InWindow(e, window[q])'
                  /\ \A a \in topic' : a.window = window'[q] =>
                        \A e \in docs'[q] : e \notin a.events /\ ~SameGroup(a, e)
             /\ pc'[q] \in {"count", "search"} => \A a \in topic' : a.window # window'[q]
  <2>1. ASSUME pc[q] = "send", NEW e \in docs[q]
        PROVE  e \in saved' /\ InWindow(e, window[q])'
    <3>1. e \in Events /\ e \in saved /\ InWindow(e, window[q])
      BY <1>t, <2>1 DEF DocsOK, TypeOK
    <3>2. stamp'[e] = stamp[e]
      BY <1>t, <3>1, StampSteps
    <3> QED BY <1>1, <1>5, <3>1, <3>2 DEF InWindow
  <2>2. ASSUME pc[q] = "send", NEW a \in topic, a.window = window[q], NEW e \in docs[q]
        PROVE  e \notin a.events /\ ~SameGroup(a, e)
    BY <1>t, <2>2 DEF NotSentTwice
  <2>3. ASSUME pc[q] \in {"count", "search"}, NEW a \in topic PROVE a.window # window[q]
    BY <1>t, <2>3 DEF NothingSentYet
  <2> QED BY <1>1, <1>5, <2>1, <2>2, <2>3
\* The run that takes the step, if there is one.
<1>6. ASSUME NEW r \in Replicas, StartRun(r) \/ Run(r) \/ Restart(r)
      PROVE  /\ pc'[r] = "send" =>
                  /\ \A e \in docs'[r] : e \in saved' /\ InWindow(e, window[r])'
                  /\ \A a \in topic' : a.window = window'[r] =>
                        \A e \in docs'[r] : e \notin a.events /\ ~SameGroup(a, e)
             /\ pc'[r] \in {"count", "search"} => \A a \in topic' : a.window # window'[r]
             /\ \A q \in Replicas \ {r} :
                   pc'[q] = pc[q] /\ window'[q] = window[q] /\ docs'[q] = docs[q]
  <2>0. \A q \in Replicas \ {r} :
           pc'[q] = pc[q] /\ window'[q] = window[q] /\ docs'[q] = docs[q]
    BY <1>t, <1>6 DEF StartRun, Run, Count, Search, QueryFails, Send, Finish, Restart, EndRun, TypeOK
  <2>1. CASE StartRun(r)
    <3>1. pc'[r] = "count" /\ window'[r] = WindowNow(r) /\ now >= due[r] /\ pc[r] = "idle"
      BY <1>t, <2>1 DEF StartRun, TypeOK
    <3>2. WindowNow(r) \notin windows
      <4> SUFFICES ASSUME WindowNow(r) \in windows PROVE FALSE
        OBVIOUS
      <4>1. Live(WindowNow(r), r) /\ WindowNow(r).end = now
        BY <1>t, WindowNowType DEF Live
      <4>2. now + Delay <= due[r]
        BY <1>t, <3>1, <4>1 DEF Paced, Running
      <4> QED BY <1>t, <3>1, <4>2, AggregationAssumption DEF TypeOK
    <3> QED BY <1>t, <1>1, <2>0, <3>1, <3>2 DEF TopicOK
  <2>2. CASE Count(r)
    <3>1. pc'[r] \in {"idle", "search"} /\ pc[r] = "count" /\ window' = window
      BY <1>t, <2>2 DEF Count, EndRun, TypeOK
    <3> QED BY <1>t, <1>1, <2>0, <3>1 DEF NothingSentYet
  <2>3. CASE Search(r)
    <3>1. /\ pc'[r] = "send" /\ pc[r] = "search" /\ UNCHANGED <<window, saved, stamp>>
          /\ docs'[r] \subseteq Matching(window[r])
      BY <1>t, <2>3 DEF Search, TypeOK
    <3>2. \A e \in docs'[r] : e \in saved' /\ InWindow(e, window[r])'
      BY <3>1 DEF Matching, InWindow
    <3>3. \A a \in topic' : a.window # window'[r]
      BY <1>t, <1>1, <3>1 DEF NothingSentYet
    <3> QED BY <2>0, <3>1, <3>2, <3>3
  <2>4. CASE QueryFails(r) \/ Finish(r) \/ Restart(r)
    <3>1. pc'[r] = "idle"
      BY <1>t, <2>4 DEF QueryFails, Finish, Restart, EndRun, TypeOK
    <3> QED BY <2>0, <3>1
  <2> QED BY <1>6, <2>1, <2>2, <2>3, <2>4 DEF Run
<1>7. \/ \E r \in Replicas : StartRun(r) \/ Run(r) \/ Restart(r)
      \/ UNCHANGED <<pc, window, docs>>
  BY DEF Next, Tick, Occur, Save, vars
<1>8. \A q \in Replicas :
         /\ pc'[q] = "send" =>
                  /\ \A e \in docs'[q] : e \in saved' /\ InWindow(e, window[q])'
                  /\ \A a \in topic' : a.window = window'[q] =>
                        \A e \in docs'[q] : e \notin a.events /\ ~SameGroup(a, e)
         /\ pc'[q] \in {"count", "search"} => \A a \in topic' : a.window # window'[q]
  BY <1>5, <1>6, <1>7
<1>9. DocsOK' /\ NothingSentYet' /\ NotSentTwice'
  BY <1>8 DEF DocsOK, NothingSentYet, NotSentTwice, SameGroup
<1> QED BY <1>3, <1>4, <1>9 DEF AggInv

-----------------------------------------------------------------------------
\* The invariant is inductive.
THEOREM Inductive == Spec => []IInv
<1>1. Init => IInv
  <2> SUFFICES ASSUME Init PROVE IInv
    OBVIOUS
  <2>1. TypeOK
    BY AggregationAssumption DEF Init, TypeOK, WindowType
  <2>2. WindowsOK /\ CurrentOK /\ Paced /\ WindowsApart
    BY DEF Init, WindowsOK, CurrentOK, Paced, WindowsApart, Running
  <2>3. DocsOK /\ NothingSentYet /\ NotSentTwice /\ TopicOK /\ Separate
    BY DEF Init, DocsOK, NothingSentYet, NotSentTwice, TopicOK, Separate
  <2> QED BY <2>1, <2>2, <2>3 DEF IInv, WInv
<1>2. IInv /\ [Next]_vars => IInv'
  <2> SUFFICES ASSUME IInv, [Next]_vars PROVE IInv'
    OBVIOUS
  <2>1. WInv /\ AggInv
    BY DEF IInv, AggInv
  <2>2. AggInv'
    BY <2>1, SendStep, QuietSteps
  <2> QED BY <2>1, <2>2, WindowSteps DEF IInv, AggInv
<1> QED BY <1>1, <1>2, PTL DEF Spec

\* The job's state is well typed.
THEOREM TypeCorrect == Spec => []TypeOK
<1>1. IInv => TypeOK
  BY DEF IInv, WInv
<1> QED BY <1>1, Inductive, PTL

\* One process counts an event twice only where two of its windows meet.
THEOREM EventsAreCountedOnce == Spec => []CountedOnce
<1>1. IInv => CountedOnce
  <2> SUFFICES ASSUME IInv, NEW a \in topic, NEW b \in topic, SameProcess(a.window, b.window),
                      a # b, NEW e \in a.events \cap b.events
               PROVE  \/ stamp[e] = a.window.end /\ stamp[e] = b.window.start
                      \/ stamp[e] = b.window.end /\ stamp[e] = a.window.start
    BY DEF CountedOnce
  <2>1. a.window \in windows /\ b.window \in windows /\ InWindow(e, a.window) /\ InWindow(e, b.window)
    BY DEF IInv, TopicOK
  <2>2. a.window # b.window
    BY DEF IInv, Separate
  <2>3. a.window.end <= b.window.start \/ b.window.end <= a.window.start
    BY <2>1, <2>2 DEF IInv, WInv, WindowsApart
  <2>4. /\ a.window.start \in Nat /\ a.window.end \in Nat
        /\ b.window.start \in Nat /\ b.window.end \in Nat
    BY <2>1 DEF IInv, WInv, TypeOK, WindowType
  <2>5. stamp[e] \in Nat
    BY <2>1 DEF InWindow, IInv, WInv, TypeOK, AggregationType
  <2> QED BY <2>1, <2>3, <2>4, <2>5 DEF InWindow
<1> QED BY <1>1, Inductive, PTL

\* An aggregation has events, all of them indexed and inside its window.
THEOREM SoundAggregates == Spec => []AggregatesAreSound
<1>1. IInv => AggregatesAreSound
  BY DEF IInv, TopicOK, AggregatesAreSound, InWindow
<1> QED BY <1>1, Inductive, PTL

\* One run sends one aggregation for a tenant and endpoint.
THEOREM OneForEachGroup == Spec => []OneAggregatePerGroup
<1>1. IInv => OneAggregatePerGroup
  BY DEF IInv, Separate, OneAggregatePerGroup
<1> QED BY <1>1, Inductive, PTL

\* Tenants are told apart as long as no tenant id contains the separator.
THEOREM PlainTenantsAreIsolated ==
  ASSUME \A e \in Events : Len(TenantOf[e]) = 1
  PROVE  Spec => []TenantIsolation
<1>1. ASSUME NEW s \in Seq(STRING), Len(s) = 1, NEW t \in Seq(STRING)
      PROVE  <<Head(s \o t)>> = s /\ Tail(s \o t) = t
  <2> DEFINE u == s \o t
  <2>0. /\ u \in Seq(STRING) /\ Len(u) = Len(s) + Len(t) /\ Len(t) \in Nat
        /\ \A i \in 1..Len(s) + Len(t) : u[i] = IF i <= Len(s) THEN s[i] ELSE t[i - Len(s)]
    BY <1>1, ConcatProperties
  <2>1. /\ u \in Seq(STRING) /\ Len(u) = 1 + Len(t) /\ Len(t) \in Nat
        /\ u[1] = s[1] /\ \A i \in 1..Len(t) : u[i + 1] = t[i]
    BY <1>1, <2>0
  <2> HIDE DEF u
  <2>2. u # <<>> /\ Head(u) = s[1]
    BY <2>1
  <2>3. <<s[1]>> = s
    BY <1>1
  <2>4. Tail(u) \in Seq(STRING) /\ Len(Tail(u)) = Len(t) /\ \A i \in 1..Len(t) : Tail(u)[i] = t[i]
    BY <2>1, <2>2
  <2>5. Tail(u) = t
    BY <1>1, <2>4
  <2> QED BY <2>2, <2>3, <2>5 DEF u
<1>2. IInv => TenantIsolation
  <2> SUFFICES ASSUME IInv, NEW a \in topic, NEW e \in a.events
               PROVE  a.tenant = TenantOf[e] /\ a.endpoint = EndpointOf[e]
    BY DEF TenantIsolation
  <2>1. e \in Events
    BY DEF IInv, WInv, TypeOK, AggregationType
  <2>2. TenantOf[e] \in Seq(STRING) /\ EndpointOf[e] \in Seq(STRING) /\ Len(TenantOf[e]) = 1
    BY <2>1, AggregationAssumption
  <2>3. KeyTenant(GroupKey(e)) = TenantOf[e] /\ KeyEndpoint(GroupKey(e)) = EndpointOf[e]
    BY <1>1, <2>2 DEF KeyTenant, KeyEndpoint, GroupKey
  <2> QED BY <2>3 DEF IInv, TopicOK, SameGroup
<1> QED BY <1>2, Inductive, PTL
=============================================================================
