------------------------ MODULE ProjectFiles_proofs ------------------------
(***************************************************************************)
(* The scripts, for any number of runs and of interrupted runs.            *)
(*                                                                         *)
(* That a patch is whole or absent rests on what a file that is not torn   *)
(* looks like (TextOK): nothing in it is a scrap, the places to insert at  *)
(* are there once, and so the separate tests of add_logs_feature come to   *)
(* the same answer.                                                        *)
(*                                                                         *)
(* That the demo's scripts repair the demo is followed from script to      *)
(* script: a script that runs has written the files it is past             *)
(* (WrittenSoFar), the scripts after it write other files, and a patch     *)
(* leaves a file to whoever wrote it.  A stop anywhere empties trail, and  *)
(* nothing is claimed then.  What a file of an earlier script may still    *)
(* give or need (Known) decides what stays broken.                         *)
(***************************************************************************)
EXTENDS ProjectFiles, TLAPS

Demo == "generate_demo_v2"
PageScript == "generate_dashboard"
Logs == "add_logs_feature"

-----------------------------------------------------------------------------
(* The lists of files.                                                     *)

IsList(a, S) == a \in Seq(S) /\ DOMAIN a = 1..Len(a) /\ Len(a) \in Nat /\ ToSet(a) = S

LEMMA List1 ==
  ASSUME NEW a1
  PROVE  LET a == <<a1>>
         IN IsList(a, {a1}) /\ Len(a) = 1
<1> DEFINE a == <<a1>>
           S == {a1}
<1>1. /\ a[1] = a1
  OBVIOUS
<1>2. a \in Seq(S) /\ Len(a) = 1 /\ DOMAIN a = 1..1
  OBVIOUS
<1>3. ToSet(a) = S
  BY <1>1, <1>2 DEF ToSet
<1> QED BY <1>2, <1>3 DEF IsList

LEMMA List5 ==
  ASSUME NEW a1, NEW a2, NEW a3, NEW a4, NEW a5
  PROVE  LET a == <<a1, a2, a3, a4, a5>>
         IN IsList(a, {a1, a2, a3, a4, a5}) /\ Len(a) = 5
<1> DEFINE a == <<a1, a2, a3, a4, a5>>
           S == {a1, a2, a3, a4, a5}
<1>1. /\ a[1] = a1 /\ a[2] = a2 /\ a[3] = a3 /\ a[4] = a4 /\ a[5] = a5
  OBVIOUS
<1>2. a \in Seq(S) /\ Len(a) = 5 /\ DOMAIN a = 1..5
  OBVIOUS
<1>3. ToSet(a) = S
  BY <1>1, <1>2 DEF ToSet
<1> QED BY <1>2, <1>3 DEF IsList

LEMMA List11 ==
  ASSUME NEW a1, NEW a2, NEW a3, NEW a4, NEW a5, NEW a6, NEW a7, NEW a8, NEW a9,
         NEW a10, NEW a11
  PROVE  LET a == <<a1, a2, a3, a4, a5, a6, a7, a8, a9, a10, a11>>
         IN IsList(a, {a1, a2, a3, a4, a5, a6, a7, a8, a9, a10, a11}) /\ Len(a) = 11
<1> DEFINE a == <<a1, a2, a3, a4, a5, a6, a7, a8, a9, a10, a11>>
           S == {a1, a2, a3, a4, a5, a6, a7, a8, a9, a10, a11}
<1>1. /\ a[1] = a1 /\ a[2] = a2 /\ a[3] = a3 /\ a[4] = a4 /\ a[5] = a5 /\ a[6] = a6
      /\ a[7] = a7 /\ a[8] = a8 /\ a[9] = a9 /\ a[10] = a10 /\ a[11] = a11
  OBVIOUS
<1>2. a \in Seq(S) /\ Len(a) = 11 /\ DOMAIN a = 1..11
  OBVIOUS
<1>3. ToSet(a) = S
  BY <1>1, <1>2 DEF ToSet
<1> QED BY <1>2, <1>3 DEF IsList

LEMMA List12 ==
  ASSUME NEW a1, NEW a2, NEW a3, NEW a4, NEW a5, NEW a6, NEW a7, NEW a8, NEW a9,
         NEW a10, NEW a11, NEW a12
  PROVE  LET a == <<a1, a2, a3, a4, a5, a6, a7, a8, a9, a10, a11, a12>>
         IN IsList(a, {a1, a2, a3, a4, a5, a6, a7, a8, a9, a10, a11, a12}) /\ Len(a) = 12
<1> DEFINE a == <<a1, a2, a3, a4, a5, a6, a7, a8, a9, a10, a11, a12>>
           S == {a1, a2, a3, a4, a5, a6, a7, a8, a9, a10, a11, a12}
<1>1. /\ a[1] = a1 /\ a[2] = a2 /\ a[3] = a3 /\ a[4] = a4 /\ a[5] = a5 /\ a[6] = a6
      /\ a[7] = a7 /\ a[8] = a8 /\ a[9] = a9 /\ a[10] = a10 /\ a[11] = a11
      /\ a[12] = a12
  OBVIOUS
<1>2. a \in Seq(S) /\ Len(a) = 12 /\ DOMAIN a = 1..12
  OBVIOUS
<1>3. ToSet(a) = S
  BY <1>1, <1>2 DEF ToSet
<1> QED BY <1>2, <1>3 DEF IsList


\* The entries of each script.
DemoV1Entries ==
  {Patch(Settings), V1Build, V1Application, V1Event, V1Alert, V1KafkaConfig, V1Store,
   V1Consumer, V1Traffic, V1Controller, V1Yml}

DemoEntries ==
  {V2Build, V2Application, V2Event, V2Message, V2Alert, V2Store, V2Listener, V2Traffic,
   V2Controller, V2Config, V2Yml, V2Banner}

LogsEntries == {LogsEntry, LogsAppender, LogsXml, Patch(Controller), Patch(Page)}

VersionEntries ==
  {NewWrapper, NewRoot, ServiceBuild("gateway-service/build.gradle"),
   ServiceBuild("analytics-service/build.gradle"), ServiceBuild("alert-service/build.gradle")}

ProjectEntries ==
  {Rest("config"), Rest("docker"),
   ServiceBuild("gateway-service/build.gradle"), Rest("gateway-service/src"),
   ServiceBuild("analytics-service/build.gradle"), Rest("analytics-service/src"),
   ServiceBuild("alert-service/build.gradle"), Rest("alert-service/src"),
   Rest("k8s"), Rest("kibana"), Rest("scripts"), Rest("docs")}

LEMMA Lists ==
  /\ IsList(Script("generate_demo"), DemoV1Entries)
  /\ IsList(Script(Demo), DemoEntries)
  /\ IsList(Script(PageScript), {Dashboard})
  /\ IsList(Script(Logs), LogsEntries) /\ Len(Script(Logs)) = 5
  /\ IsList(Script("update_versions"), VersionEntries)
  /\ IsList(Script("generate_project"), ProjectEntries)
<1>1. IsList(GenerateDemo, DemoV1Entries)
  BY List11 DEF GenerateDemo, DemoV1Entries
<1>2. IsList(GenerateDemoV2, DemoEntries)
  BY List12 DEF GenerateDemoV2, DemoEntries
<1>3. IsList(<<Dashboard>>, {Dashboard})
  BY List1
<1>4. IsList(AddLogsFeature, LogsEntries) /\ Len(AddLogsFeature) = 5
  BY List5 DEF AddLogsFeature, LogsEntries
<1>5. IsList(UpdateVersions, VersionEntries)
  BY List5 DEF UpdateVersions, VersionEntries
<1>6. IsList(GenerateProject, ProjectEntries)
  BY List12 DEF GenerateProject, ProjectEntries
<1> QED BY <1>1, <1>2, <1>3, <1>4, <1>5, <1>6 DEF Script, Demo, PageScript, Logs

\* What the rest of the proof needs to know of an entry: only generate_demo's
\* build file gives the Kafka library, no file includes the demo (a patch of
\* settings.gradle does), the Kafka classes need the library, and every
\* build.gradle gives the plugin and Lombok.
EntryFacts(e) ==
  /\ "springKafka" \in e.gives => e.file = DemoBuild
  /\ "demoIncluded" \notin e.gives
  /\ e.file \in KafkaClasses => "springKafka" \in e.needs
  /\ e.file = RootBuild => e.gives = {"bootPlugin", "lombok"}

LEMMA V1Facts == \A e \in DemoV1Entries : EntryFacts(e)
<1> USE DEF File, Patch, EntryFacts, KafkaClasses, V1KafkaConfig, V1Consumer, RootBuild
<1>1. /\ EntryFacts(Patch(Settings)) /\ EntryFacts(V1Build) /\ EntryFacts(V1Application)
      /\ EntryFacts(V1Event) /\ EntryFacts(V1Alert)
  BY DEF Settings, V1Build, DemoBuild, V1Application, V1Event, V1Alert
<1>2. EntryFacts(V1KafkaConfig) /\ EntryFacts(V1Store) /\ EntryFacts(V1Consumer)
  BY DEF V1Store
<1>3. EntryFacts(V1Traffic) /\ EntryFacts(V1Controller) /\ EntryFacts(V1Yml)
  BY DEF V1Traffic, V1Controller, Controller, V1Yml
<1> QED BY <1>1, <1>2, <1>3 DEF DemoV1Entries

LEMMA V2Facts == \A e \in DemoEntries : EntryFacts(e)
<1> USE DEF File, EntryFacts, KafkaClasses, V1KafkaConfig, V1Consumer, RootBuild
<1>1. EntryFacts(V2Build) /\ EntryFacts(V2Application) /\ EntryFacts(V2Event) /\ EntryFacts(V2Message)
  BY DEF V2Build, DemoBuild, V2Application, V2Event, V2Message
<1>2. EntryFacts(V2Alert) /\ EntryFacts(V2Store) /\ EntryFacts(V2Listener) /\ EntryFacts(V2Traffic)
  BY DEF V2Alert, V2Store, V2Listener, V2Traffic
<1>3. EntryFacts(V2Controller) /\ EntryFacts(V2Config) /\ EntryFacts(V2Yml) /\ EntryFacts(V2Banner)
  BY DEF V2Controller, Controller, V2Config, V2Yml, V2Banner
<1> QED BY <1>1, <1>2, <1>3 DEF DemoEntries

LEMMA OtherFacts ==
  \A e \in {Dashboard} \cup LogsEntries \cup VersionEntries \cup ProjectEntries : EntryFacts(e)
<1> USE DEF File, Patch, EntryFacts, KafkaClasses, V1KafkaConfig, V1Consumer, RootBuild
<1>1. EntryFacts(Dashboard)
  BY DEF Dashboard, Page
<1>2. \A e \in LogsEntries : EntryFacts(e)
  <2>1. EntryFacts(LogsEntry) /\ EntryFacts(LogsAppender) /\ EntryFacts(LogsXml)
    BY DEF LogsEntry, LogsAppender, LogsXml
  <2>2. EntryFacts(Patch(Controller)) /\ EntryFacts(Patch(Page))
    BY DEF Controller, Page
  <2> QED BY <2>1, <2>2 DEF LogsEntries
<1>3. \A e \in VersionEntries : EntryFacts(e)
  <2>1. EntryFacts(NewWrapper) /\ EntryFacts(NewRoot)
    BY DEF NewWrapper, Wrapper, NewRoot
  <2>2. /\ EntryFacts(ServiceBuild("gateway-service/build.gradle"))
        /\ EntryFacts(ServiceBuild("analytics-service/build.gradle"))
        /\ EntryFacts(ServiceBuild("alert-service/build.gradle"))
    BY DEF ServiceBuild
  <2> QED BY <2>1, <2>2 DEF VersionEntries
<1>4. \A e \in ProjectEntries : EntryFacts(e)
  <2>1. /\ EntryFacts(ServiceBuild("gateway-service/build.gradle"))
        /\ EntryFacts(ServiceBuild("analytics-service/build.gradle"))
        /\ EntryFacts(ServiceBuild("alert-service/build.gradle"))
    BY DEF ServiceBuild
  <2>2. /\ EntryFacts(Rest("config")) /\ EntryFacts(Rest("docker"))
        /\ EntryFacts(Rest("gateway-service/src")) /\ EntryFacts(Rest("analytics-service/src"))
        /\ EntryFacts(Rest("alert-service/src")) /\ EntryFacts(Rest("k8s"))
        /\ EntryFacts(Rest("kibana")) /\ EntryFacts(Rest("scripts")) /\ EntryFacts(Rest("docs"))
    BY DEF Rest
  <2> QED BY <2>1, <2>2 DEF ProjectEntries
<1> QED BY <1>1, <1>2, <1>3, <1>4

\* The positions in a list, and the entries at them.
LEMMA ListFacts ==
  ASSUME NEW s \in Scripts
  PROVE  /\ Len(Script(s)) \in Nat
         /\ \A i \in 1..Len(Script(s)) : Script(s)[i] \in ToSet(Script(s))
         /\ \A e \in ToSet(Script(s)) : \E i \in 1..Len(Script(s)) : e = Script(s)[i]
         /\ \A e \in ToSet(Script(s)) :
               /\ e.file \in Files /\ e.needs \in SUBSET Things /\ e.gives \in SUBSET Things
               /\ EntryFacts(e)
<1>1. \E S : IsList(Script(s), S)
  BY Lists DEF Scripts, Demo, PageScript, Logs
<1>2. \A e \in ToSet(Script(s)) : EntryFacts(e)
  BY Lists, V1Facts, V2Facts, OtherFacts DEF IsList, Scripts, Demo, PageScript, Logs
<1>3. \A e \in ToSet(Script(s)) : e \in Entries
  BY DEF Entries
<1>4. /\ Len(Script(s)) \in Nat
      /\ \A i \in 1..Len(Script(s)) : Script(s)[i] \in ToSet(Script(s))
      /\ \A e \in ToSet(Script(s)) : \E i \in 1..Len(Script(s)) : e = Script(s)[i]
  BY <1>1 DEF IsList, ToSet
<1>5. \A e \in Entries : e.file \in Files /\ e.needs \subseteq Things /\ e.gives \subseteq Things
  <2>1. \A e \in Entries : e.needs \cup e.gives \subseteq Things
    BY DEF Things
  <2> QED BY <2>1 DEF Files
<1> QED BY <1>2, <1>3, <1>4, <1>5

\* No script of the three writes a file twice.
LEMMA OneEntryPerFile ==
  /\ \A e1, e2 \in DemoEntries : e1.file = e2.file => e1 = e2
  /\ \A e1, e2 \in LogsEntries : e1.file = e2.file => e1 = e2
<1>1. ASSUME NEW e1 \in DemoEntries, NEW e2 \in DemoEntries, e1.file = e2.file
      PROVE  e1 = e2
  <2>1. /\ V2Build.file = "demo/build.gradle" /\ V2Application.file = "demo/DemoApplication"
        /\ V2Event.file = "demo/model/ApiAnalyticsEvent"
        /\ V2Message.file = "demo/model/ApiAnalyticsEventMessage"
        /\ V2Alert.file = "demo/model/AlertNotification"
        /\ V2Store.file = "demo/service/InMemoryMetricsStore"
        /\ V2Listener.file = "demo/consumer/ApiEventListener"
        /\ V2Traffic.file = "demo/runner/SampleTrafficGenerator"
        /\ V2Controller.file = "demo/controller/DemoController"
        /\ V2Config.file = "demo/config/AppConfig" /\ V2Yml.file = "demo/application.yml"
        /\ V2Banner.file = "demo/banner.txt"
    BY DEF File, V2Build, DemoBuild, V2Application, V2Event, V2Message, V2Alert, V2Store,
           V2Listener, V2Traffic, V2Controller, Controller, V2Config, V2Yml, V2Banner
  <2> QED BY <1>1, <2>1 DEF DemoEntries
<1>2. ASSUME NEW e1 \in LogsEntries, NEW e2 \in LogsEntries, e1.file = e2.file
      PROVE  e1 = e2
  <2>1. /\ LogsEntry.file = "demo/model/LogEntry"
        /\ LogsAppender.file = "demo/logging/InMemoryLogAppender"
        /\ LogsXml.file = "demo/logback-spring.xml"
        /\ Patch(Controller).file = "demo/controller/DemoController"
        /\ Patch(Page).file = "demo/static/index.html"
    BY DEF File, Patch, LogsEntry, LogsAppender, LogsXml, Controller, Page
  <2> QED BY <1>2, <2>1 DEF LogsEntries
<1> QED BY <1>1, <1>2
-----------------------------------------------------------------------------
(* The texts that are patched.                                             *)

Texts == [Landmarks -> {0, 1}]

\* The text of a controller that nothing tore: what is inserted goes before
\* something that is there once, and is all there or not at all.
ControllerText(t) == /\ t["importNotification"] = 1
                     /\ AllOrNone(t, {"importAppender", "endpoints"})

LEMMA LandmarkNames ==
  /\ "includeDemo" \in Landmarks
  /\ "importAppender" \in Landmarks /\ "importNotification" \in Landmarks
  /\ "endpoints" \in Landmarks
  /\ "css" \in Landmarks /\ "styleEnd" \in Landmarks /\ "html" \in Landmarks
  /\ "spacer" \in Landmarks /\ "wrapEnd" \in Landmarks /\ "js" \in Landmarks
  /\ "scriptEnd" \in Landmarks /\ "bodyEnd" \in Landmarks
  /\ "none" \notin Landmarks
BY DEF Landmarks

LEMMA TextValue ==
  ASSUME NEW t \in Texts, NEW l \in Landmarks
  PROVE  t[l] \in {0, 1} /\ (t[l] > 0 <=> t[l] = 1)
<1>1. t[l] \in {0, 1}
  BY DEF Texts
<1> QED BY <1>1

\* Inserting a piece that is not there puts it there once, or as often as
\* what it goes before.
LEMMA InsertedOnce ==
  ASSUME NEW t \in Texts, NEW p \in Landmarks, t[p] = 0
  PROVE  /\ InsertOnce(t, p) \in Texts
         /\ InsertOnce(t, p)[p] = 1
         /\ \A l \in Landmarks \ {p} : InsertOnce(t, p)[l] = t[l]
<1>1. t[p] + 1 = 1
  OBVIOUS
<1>2. InsertOnce(t, p) = [t EXCEPT ![p] = 1]
  BY <1>1 DEF InsertOnce
<1>3. 1 \in {0, 1}
  OBVIOUS
<1> QED BY <1>2, <1>3 DEF Texts

LEMMA InsertedBefore ==
  ASSUME NEW t \in Texts, NEW p \in Landmarks, t[p] = 0, NEW a \in Landmarks
  PROVE  /\ InsertBefore(t, p, a) \in Texts
         /\ InsertBefore(t, p, a)[p] = t[a]
         /\ \A l \in Landmarks \ {p} : InsertBefore(t, p, a)[l] = t[l]
<1>1. t[a] \in {0, 1}
  BY DEF Texts
<1>2. t[p] + t[a] = t[a]
  BY <1>1
<1>3. InsertBefore(t, p, a) = [t EXCEPT ![p] = t[a]]
  BY <1>2 DEF InsertBefore
<1> QED BY <1>1, <1>3 DEF Texts

LEMMA MentionsOne ==
  ASSUME NEW t \in Texts, NEW f, NEW a \in Landmarks
  PROVE  Mentioned(f, t, {a}) <=> scrap[f] = a \/ t[a] = 1
BY TextValue DEF Mentioned

LEMMA MentionsTwo ==
  ASSUME NEW t \in Texts, NEW f, NEW a \in Landmarks, NEW b \in Landmarks
  PROVE  Mentioned(f, t, {a, b}) <=> scrap[f] \in {a, b} \/ t[a] = 1 \/ t[b] = 1
BY TextValue DEF Mentioned

LEMMA MentionsThree ==
  ASSUME NEW t \in Texts, NEW f, NEW a \in Landmarks, NEW b \in Landmarks, NEW c \in Landmarks
  PROVE  Mentioned(f, t, {a, b, c}) <=>
            scrap[f] \in {a, b, c} \/ t[a] = 1 \/ t[b] = 1 \/ t[c] = 1
BY TextValue DEF Mentioned

LEMMA InsertsImport ==
  ASSUME NEW t \in Texts
  PROVE  /\ WithImport(t) \in Texts
         /\ \A l \in Landmarks \ {"importAppender"} : WithImport(t)[l] = t[l]
         /\ scrap[Controller] = "none" /\ ControllerText(t) =>
               WithImport(t)["importAppender"] = 1
<1> USE LandmarkNames
<1>0. t["importAppender"] \in {0, 1} /\ t["endpoints"] \in {0, 1}
  BY TextValue
<1>1. CASE Mentioned(Controller, t, {"importAppender", "endpoints"})
  <2>1. WithImport(t) = t
    BY <1>1 DEF WithImport
  <2>2. ASSUME scrap[Controller] = "none", ControllerText(t)
        PROVE  t["importAppender"] = 1
    <3>1. t["importAppender"] = 1 \/ t["endpoints"] = 1
      BY <1>1, <2>2, MentionsTwo
    <3> QED BY <2>2, <3>1 DEF ControllerText, AllOrNone
  <2> QED BY <2>1, <2>2
<1>2. CASE ~Mentioned(Controller, t, {"importAppender", "endpoints"})
  <2>1. t["importAppender"] = 0
    BY <1>0, <1>2, TextValue, MentionsTwo
  <2>2. WithImport(t) = InsertBefore(t, "importAppender", "importNotification")
    BY <1>2 DEF WithImport
  <2>3. /\ InsertBefore(t, "importAppender", "importNotification") \in Texts
        /\ InsertBefore(t, "importAppender", "importNotification")["importAppender"] = t["importNotification"]
        /\ \A l \in Landmarks \ {"importAppender"} :
              InsertBefore(t, "importAppender", "importNotification")[l] = t[l]
    BY <2>1, InsertedBefore
  <2> QED BY <2>2, <2>3 DEF ControllerText
<1> QED BY <1>1, <1>2

LEMMA InsertsEndpoints ==
  ASSUME NEW t \in Texts
  PROVE  /\ WithEndpoints(t) \in Texts
         /\ \A l \in Landmarks \ {"endpoints"} : WithEndpoints(t)[l] = t[l]
         /\ scrap[Controller] = "none" => WithEndpoints(t)["endpoints"] = 1
<1> USE LandmarkNames
<1>1. CASE Mentioned(Controller, t, {"endpoints"})
  <2>1. scrap[Controller] = "none" => t["endpoints"] = 1
    BY <1>1, MentionsOne
  <2> QED BY <1>1, <2>1 DEF WithEndpoints
<1>2. CASE ~Mentioned(Controller, t, {"endpoints"})
  <2>1. t["endpoints"] = 0
    BY <1>2, TextValue, MentionsOne
  <2>2. WithEndpoints(t) = InsertOnce(t, "endpoints")
    BY <1>2 DEF WithEndpoints
  <2>3. /\ InsertOnce(t, "endpoints") \in Texts
        /\ InsertOnce(t, "endpoints")["endpoints"] = 1
        /\ \A l \in Landmarks \ {"endpoints"} : InsertOnce(t, "endpoints")[l] = t[l]
    BY <2>1, InsertedOnce
  <2> QED BY <2>2, <2>3
<1> QED BY <1>1, <1>2

LEMMA PatchesController ==
  ASSUME NEW t \in Texts
  PROVE  /\ PatchedController(t) \in Texts
         /\ PatchedController(t)["includeDemo"] = t["includeDemo"]
         /\ scrap[Controller] = "none" /\ ControllerText(t) =>
               /\ ControllerText(PatchedController(t))
               /\ PatchedController(t)["importAppender"] = 1
               /\ PatchedController(t)["endpoints"] = 1
<1> USE LandmarkNames
<1> DEFINE u == WithImport(t)
           v == WithEndpoints(u)
<1>1. /\ u \in Texts /\ u["includeDemo"] = t["includeDemo"]
      /\ u["importNotification"] = t["importNotification"]
      /\ scrap[Controller] = "none" /\ ControllerText(t) => u["importAppender"] = 1
  BY InsertsImport
<1> HIDE DEF u
<1>2. /\ v \in Texts /\ v["includeDemo"] = u["includeDemo"]
      /\ v["importNotification"] = u["importNotification"]
      /\ v["importAppender"] = u["importAppender"]
      /\ scrap[Controller] = "none" => v["endpoints"] = 1
  BY <1>1, InsertsEndpoints
<1> HIDE DEF v
<1>3. PatchedController(t) = v
  BY DEF PatchedController, u, v
<1>4. ASSUME scrap[Controller] = "none", ControllerText(t)
      PROVE  ControllerText(v) /\ v["importAppender"] = 1 /\ v["endpoints"] = 1
  BY <1>1, <1>2, <1>4 DEF ControllerText, AllOrNone
<1> QED BY <1>1, <1>2, <1>3, <1>4

\* The three insertions into the page, one by one.
PageAnchors(t) == /\ t["styleEnd"] = 1 /\ t["wrapEnd"] = 1
                  /\ t["scriptEnd"] = 1 /\ t["bodyEnd"] = 1

LEMMA InsertsStyle ==
  ASSUME NEW t \in Texts
  PROVE  /\ WithStyle(t) \in Texts
         /\ \A l \in Landmarks \ {"css"} : WithStyle(t)[l] = t[l]
         /\ scrap[Page] = "none" /\ PageAnchors(t) /\ AllOrNone(t, {"css", "html", "js"}) =>
               WithStyle(t)["css"] = 1
<1> USE LandmarkNames
<1>0. t["css"] \in {0, 1}
  BY TextValue
<1>1. CASE Mentioned(Page, t, {"css", "html", "js"})
  <2>1. WithStyle(t) = t
    BY <1>1 DEF WithStyle
  <2>2. ASSUME scrap[Page] = "none", AllOrNone(t, {"css", "html", "js"})
        PROVE  t["css"] = 1
    <3>1. t["css"] = 1 \/ t["html"] = 1 \/ t["js"] = 1
      BY <1>1, <2>2, MentionsThree
    <3> QED BY <2>2, <3>1 DEF AllOrNone
  <2> QED BY <2>1, <2>2
<1>2. CASE ~Mentioned(Page, t, {"css", "html", "js"})
  <2>1. t["css"] = 0
    BY <1>0, <1>2, TextValue, MentionsThree
  <2>2. WithStyle(t) = InsertBefore(t, "css", "styleEnd")
    BY <1>2 DEF WithStyle
  <2>3. /\ InsertBefore(t, "css", "styleEnd") \in Texts
        /\ InsertBefore(t, "css", "styleEnd")["css"] = t["styleEnd"]
        /\ \A l \in Landmarks \ {"css"} : InsertBefore(t, "css", "styleEnd")[l] = t[l]
    BY <2>1, InsertedBefore
  <2> QED BY <2>2, <2>3 DEF PageAnchors
<1> QED BY <1>1, <1>2

LEMMA InsertsPanel ==
  ASSUME NEW t \in Texts
  PROVE  /\ WithPanel(t) \in Texts
         /\ \A l \in Landmarks \ {"html", "spacer"} : WithPanel(t)[l] = t[l]
         /\ scrap[Page] = "none" /\ PageAnchors(t) => WithPanel(t)["html"] = 1
<1> USE LandmarkNames
<1>1. CASE Mentioned(Page, t, {"html"})
  <2>1. scrap[Page] = "none" => t["html"] = 1
    BY <1>1, MentionsOne
  <2> QED BY <1>1, <2>1 DEF WithPanel
<1>2. CASE ~Mentioned(Page, t, {"html"})
  <2>1. t["html"] = 0
    BY <1>2, TextValue, MentionsOne
  <2>2. CASE t["wrapEnd"] > 0
    <3> DEFINE u == InsertOnce(t, "html")
    <3>1. u \in Texts /\ u["html"] = 1 /\ \A l \in Landmarks \ {"html"} : u[l] = t[l]
      BY <2>1, InsertedOnce
    <3>2. WithPanel(t) = [u EXCEPT !["spacer"] = 0]
      BY <1>2, <2>2 DEF WithPanel
    <3> HIDE DEF u
    <3> QED BY <3>1, <3>2 DEF Texts
  <2>3. CASE ~(t["wrapEnd"] > 0)
    <3>1. WithPanel(t) = InsertBefore(t, "html", "bodyEnd")
      BY <1>2, <2>3 DEF WithPanel
    <3>2. /\ InsertBefore(t, "html", "bodyEnd") \in Texts
          /\ InsertBefore(t, "html", "bodyEnd")["html"] = t["bodyEnd"]
          /\ \A l \in Landmarks \ {"html"} : InsertBefore(t, "html", "bodyEnd")[l] = t[l]
      BY <2>1, InsertedBefore
    <3> QED BY <3>1, <3>2 DEF PageAnchors
  <2> QED BY <2>2, <2>3
<1> QED BY <1>1, <1>2

LEMMA InsertsScript ==
  ASSUME NEW t \in Texts
  PROVE  /\ WithScript(t) \in Texts
         /\ \A l \in Landmarks \ {"js"} : WithScript(t)[l] = t[l]
         /\ scrap[Page] = "none" /\ PageAnchors(t) => WithScript(t)["js"] = 1
<1> USE LandmarkNames
<1>1. CASE Mentioned(Page, t, {"js"}) \/ t["scriptEnd"] = 0
  <2>1. ASSUME scrap[Page] = "none", PageAnchors(t)
        PROVE  t["js"] = 1
    <3>1. t["scriptEnd"] # 0
      BY <2>1 DEF PageAnchors
    <3> QED BY <1>1, <2>1, <3>1, MentionsOne
  <2> QED BY <1>1, <2>1 DEF WithScript
<1>2. CASE ~(Mentioned(Page, t, {"js"}) \/ t["scriptEnd"] = 0)
  <2>1. t["js"] = 0
    BY <1>2, TextValue, MentionsOne
  <2>2. WithScript(t) = InsertBefore(t, "js", "bodyEnd")
    BY <1>2 DEF WithScript
  <2>3. /\ InsertBefore(t, "js", "bodyEnd") \in Texts
        /\ InsertBefore(t, "js", "bodyEnd")["js"] = t["bodyEnd"]
        /\ \A l \in Landmarks \ {"js"} : InsertBefore(t, "js", "bodyEnd")[l] = t[l]
    BY <2>1, InsertedBefore
  <2> QED BY <2>2, <2>3 DEF PageAnchors
<1> QED BY <1>1, <1>2

PageText(t) == PageAnchors(t) /\ AllOrNone(t, {"css", "html", "js"})

LEMMA PatchesPage ==
  ASSUME NEW t \in Texts
  PROVE  /\ PatchedPage(t) \in Texts
         /\ PatchedPage(t)["includeDemo"] = t["includeDemo"]
         /\ scrap[Page] = "none" /\ PageText(t) =>
               /\ PageText(PatchedPage(t))
               /\ PatchedPage(t)["css"] = 1 /\ PatchedPage(t)["html"] = 1
               /\ PatchedPage(t)["js"] = 1
<1> USE LandmarkNames
<1> DEFINE u == WithStyle(t)
           v == WithPanel(u)
           w == WithScript(v)
<1>1. /\ u \in Texts /\ \A l \in Landmarks \ {"css"} : u[l] = t[l]
      /\ scrap[Page] = "none" /\ PageText(t) => u["css"] = 1
  BY InsertsStyle DEF PageText
<1> HIDE DEF u
<1>2. /\ v \in Texts /\ \A l \in Landmarks \ {"html", "spacer"} : v[l] = u[l]
      /\ scrap[Page] = "none" /\ PageAnchors(u) => v["html"] = 1
  BY <1>1, InsertsPanel
<1> HIDE DEF v
<1>3. /\ w \in Texts /\ \A l \in Landmarks \ {"js"} : w[l] = v[l]
      /\ scrap[Page] = "none" /\ PageAnchors(v) => w["js"] = 1
  BY <1>2, InsertsScript
<1> HIDE DEF w
<1>4. PatchedPage(t) = w
  BY DEF PatchedPage, u, v, w
<1>5. w["includeDemo"] = t["includeDemo"]
  BY <1>1, <1>2, <1>3
<1>6. ASSUME scrap[Page] = "none", PageText(t)
      PROVE  PageAnchors(w) /\ w["css"] = 1 /\ w["html"] = 1 /\ w["js"] = 1
  <2>1. PageAnchors(t)
    BY <1>6 DEF PageText
  <2>2. PageAnchors(u)
    BY <1>1, <2>1 DEF PageAnchors
  <2>3. PageAnchors(v)
    BY <1>2, <2>2 DEF PageAnchors
  <2>4. PageAnchors(w)
    BY <1>3, <2>3 DEF PageAnchors
  <2> QED BY <1>1, <1>2, <1>3, <1>6, <2>2, <2>3, <2>4
<1> QED BY <1>3, <1>4, <1>5, <1>6 DEF PageText, AllOrNone

LEMMA PatchesSettings ==
  ASSUME NEW t \in Texts
  PROVE  PatchedSettings(t) \in Texts
<1> USE LandmarkNames
<1>1. CASE Mentioned(Settings, t, {"includeDemo"})
  BY <1>1 DEF PatchedSettings
<1>2. CASE ~Mentioned(Settings, t, {"includeDemo"})
  <2>1. t["includeDemo"] = 0
    BY <1>2, TextValue, MentionsOne
  <2> QED BY <1>2, <2>1, InsertedOnce DEF PatchedSettings
<1> QED BY <1>1, <1>2
-----------------------------------------------------------------------------
(* The invariant.                                                          *)

\* The file is as the script wrote it, patches aside.
Fresh(s, e) == tree[e.file] = [by |-> s, torn |-> FALSE, needs |-> e.needs, gives |-> e.gives]

\* Everything the script writes anew is as it wrote it.
Done(s) == \A e \in ToSet(Script(s)) : ~Patches(s, e.file) => Fresh(s, e)

\* The script that runs has written the files it is past.
WrittenSoFar ==
  run # NoRun =>
     \A i \in 1..run.step - 1 :
        LET f == Script(run.script)[i].file
        IN ~Patches(run.script, f) =>
              \E e \in ToSet(Script(run.script)) : e.file = f /\ Fresh(run.script, e)

\* What a file is known to give and need, whoever wrote it.
Known ==
  /\ \A f \in Files : Whole(f) /\ "springKafka" \in tree[f].gives => f = DemoBuild
  /\ \A f \in Files : "demoIncluded" \notin tree[f].gives
  /\ \A f \in KafkaClasses : Whole(f) => "springKafka" \in tree[f].needs
  /\ Whole(RootBuild) => tree[RootBuild].gives = {"bootPlugin", "lombok"}

\* The texts of the patched files, and what one that is not torn looks like.
TextOK ==
  /\ text \in [Patched -> Texts]
  /\ text[Controller]["includeDemo"] = 0 /\ text[Page]["includeDemo"] = 0
  /\ ~tree[Controller].torn =>
        /\ scrap[Controller] = "none"
        /\ AllOrNone(text[Controller], {"importAppender", "endpoints"})
        /\ Exists(Controller) => ControllerText(text[Controller])
  /\ ~tree[Page].torn =>
        /\ scrap[Page] = "none"
        /\ AllOrNone(text[Page], {"css", "html", "js"})
        /\ Exists(Page) => PageText(text[Page])

\* The last scripts completed, in order.
Last1(a) == Len(trail) >= 1 /\ trail[Len(trail)] = a
Last2(a, b) == Len(trail) >= 2 /\ trail[Len(trail) - 1] = a /\ trail[Len(trail)] = b
Last3(a, b, c) == Len(trail) >= 3 /\ trail[Len(trail) - 2] = a
                    /\ trail[Len(trail) - 1] = b /\ trail[Len(trail)] = c

\* The demo is built, and at most the page's script has begun since.
DemoBuilt == Last1(Demo) /\ (run = NoRun \/ run.script = PageScript) => Done(Demo)

\* The page is written too, and at most the logs' script has begun since.
PageBuilt == Last2(Demo, PageScript) /\ (run = NoRun \/ run.script = Logs) =>
                Done(Demo) /\ Done(PageScript)

ControllerPatched == /\ text[Controller]["importAppender"] = 1
                     /\ text[Controller]["endpoints"] = 1

PagePatched == /\ text[Page]["css"] = 1 /\ text[Page]["html"] = 1
               /\ text[Page]["js"] = 1

\* The patches that the logs' script is past are in.
PatchedSoFar ==
  Last2(Demo, PageScript) /\ run # NoRun /\ run.script = Logs =>
     /\ run.step > 4 => ControllerPatched
     /\ run.step > 5 => PagePatched

LogsBuilt ==
  Last3(Demo, PageScript, Logs) /\ run = NoRun =>
     /\ Done(Demo) /\ Done(PageScript) /\ Done(Logs)
     /\ ControllerPatched /\ PagePatched

PInv == /\ TypeOK
        /\ TextOK
        /\ Known
        /\ WrittenSoFar
        /\ DemoBuilt
        /\ PageBuilt
        /\ PatchedSoFar
        /\ LogsBuilt

FileType == [by : Scripts \cup {"nobody", "hand"}, torn : BOOLEAN,
             needs : SUBSET Things, gives : SUBSET Things]

\* A script that has a file to write.
LEMMA StepFacts ==
  ASSUME TypeOK, AtStep
  PROVE  /\ run \in [script : Scripts, step : Nat] /\ run.script \in Scripts
         /\ run.step \in 1..Len(Script(run.script))
         /\ run.step + 1 \in 1..Len(Script(run.script)) + 1
         /\ Step \in ToSet(Script(run.script)) /\ Step.file \in Files
         /\ Step.needs \in SUBSET Things /\ Step.gives \in SUBSET Things
         /\ EntryFacts(Step)
         /\ tree[Step.file] \in FileType
<1>1. run \in [script : Scripts, step : Nat] /\ run.script \in Scripts
  BY DEF TypeOK, AtStep
<1>2. Len(Script(run.script)) \in Nat
  BY <1>1, ListFacts
<1>3. run.step \in 1..Len(Script(run.script)) + 1 /\ run.step <= Len(Script(run.script))
  BY DEF TypeOK, AtStep
<1>4. run.step \in 1..Len(Script(run.script))
  BY <1>2, <1>3
<1>5. Step \in ToSet(Script(run.script))
  BY <1>1, <1>4, ListFacts DEF Step
<1>6. /\ Step.file \in Files /\ EntryFacts(Step)
      /\ Step.needs \in SUBSET Things /\ Step.gives \in SUBSET Things
  BY <1>1, <1>5, ListFacts
<1>7. tree[Step.file] \in FileType
  BY <1>6 DEF TypeOK, FileType
<1> QED BY <1>1, <1>2, <1>4, <1>5, <1>6, <1>7

\* A script at its end has written all of its files.
LEMMA FinishedIsDone ==
  ASSUME TypeOK, WrittenSoFar, run # NoRun, ~AtStep
  PROVE  /\ run.script \in Scripts
         /\ run.step = Len(Script(run.script)) + 1
         /\ run.script \in {Demo, PageScript, Logs} => Done(run.script)
<1>1. run.script \in Scripts /\ run.step \in 1..Len(Script(run.script)) + 1
  BY DEF TypeOK
<1>2. Len(Script(run.script)) \in Nat
  BY <1>1, ListFacts
<1>3. run.step = Len(Script(run.script)) + 1
  BY <1>1, <1>2 DEF AtStep
<1>4. ASSUME run.script \in {Demo, PageScript, Logs},
             NEW e \in ToSet(Script(run.script)), ~Patches(run.script, e.file)
      PROVE  Fresh(run.script, e)
  <2>1. PICK i \in 1..Len(Script(run.script)) : e = Script(run.script)[i]
    BY <1>1, ListFacts
  <2>2. i \in 1..run.step - 1
    BY <1>2, <1>3, <2>1
  <2>3. PICK d \in ToSet(Script(run.script)) : d.file = e.file /\ Fresh(run.script, d)
    BY <1>4, <2>1, <2>2 DEF WrittenSoFar
  <2>4. d = e
    BY <1>4, <2>3, Lists, OneEntryPerFile DEF IsList
  <2> QED BY <2>3, <2>4
<1> QED BY <1>1, <1>3, <1>4 DEF Done
-----------------------------------------------------------------------------
(* The texts and the types.                                                *)

LEMMA PatchedTexts ==
  ASSUME TextOK, NEW f \in Patched
  PROVE  PatchedText(f) \in Texts
<1>1. text[f] \in Texts
  BY DEF TextOK
<1>2. f = Settings \/ f = Controller \/ f = Page
  BY DEF Patched
<1>3. Settings # Controller /\ Settings # Page /\ Controller # Page
  BY DEF Settings, Controller, Page
<1>4. /\ PatchedText(Settings) = PatchedSettings(text[Settings])
      /\ PatchedText(Controller) = PatchedController(text[Controller])
      /\ PatchedText(Page) = PatchedPage(text[Page])
  BY <1>3 DEF PatchedText
<1> QED BY <1>1, <1>2, <1>4, PatchesSettings, PatchesController, PatchesPage

LEMMA NewTexts ==
  ASSUME NEW f \in Patched
  PROVE  /\ NewText(f) \in Texts
         /\ NewText(Controller)["includeDemo"] = 0 /\ NewText(Page)["includeDemo"] = 0
         /\ ControllerText(NewText(Controller)) /\ PageText(NewText(Page))
<1>1. \A S : Plain(S) \in Texts
  BY DEF Plain, Texts
<1>2. Generated(Controller) = {"importNotification"}
      /\ Generated(Page) = {"styleEnd", "spacer", "wrapEnd", "scriptEnd", "bodyEnd"}
  BY DEF Generated, Settings, Controller, Page
<1>3. NewText(Controller)["includeDemo"] = 0 /\ NewText(Page)["includeDemo"] = 0
  BY <1>2, LandmarkNames DEF NewText, Plain
<1>4. ControllerText(NewText(Controller))
  BY <1>2, LandmarkNames DEF NewText, Plain, ControllerText, AllOrNone
<1>5. PageText(NewText(Page))
  BY <1>2, LandmarkNames DEF NewText, Plain, PageText, PageAnchors, AllOrNone
<1> QED BY <1>1, <1>3, <1>4, <1>5 DEF NewText

LEMMA TornTexts ==
  ASSUME NEW f \in Patched, NEW t \in Texts, NEW n
  PROVE  /\ Torn(f, t, n) \in Texts
         /\ t["includeDemo"] = 0 => Torn(f, t, n)["includeDemo"] = 0
         /\ TypeOK => Scraps(f, t, n) \subseteq Landmarks \cup {"none"}
<1>1. \A l \in Landmarks : t[l] \in {0, 1}
  BY DEF Texts
<1>2. Torn(f, t, n) \in Texts
  BY <1>1 DEF Torn, Texts
<1>3. t["includeDemo"] = 0 => Torn(f, t, n)["includeDemo"] = 0
  BY LandmarkNames DEF Torn
<1>4. TypeOK => Scraps(f, t, n) \subseteq Landmarks \cup {"none"}
  BY DEF Scraps, TypeOK
<1> QED BY <1>2, <1>3, <1>4

LEMMA FileNames ==
  /\ Controller # Page /\ Settings # Controller /\ Settings # Page
  /\ Controller \in Patched /\ Page \in Patched /\ Settings \in Patched
  /\ Patched \subseteq Files /\ KafkaClasses \subseteq Files
  /\ RootBuild \in Files /\ DemoBuild \in Files
  /\ RootBuild \notin Patched /\ RootBuild \notin KafkaClasses
  /\ \A f \in KafkaClasses : f \notin Patched
  /\ \A s, f : Patches(s, f) => f \in Patched
<1>1. V1KafkaConfig \in Entries /\ V1Consumer \in Entries /\ V1Build \in Entries
  BY Lists DEF Entries, Scripts, IsList, DemoV1Entries
<1>2. V2Controller \in Entries /\ Dashboard \in Entries
  BY Lists DEF Entries, Scripts, IsList, DemoEntries, Demo, PageScript
<1>3. V2Controller.file = Controller /\ Dashboard.file = Page /\ V1Build.file = DemoBuild
  BY DEF V2Controller, Dashboard, V1Build, File
<1>4. Controller \in Files /\ Page \in Files /\ DemoBuild \in Files /\ KafkaClasses \subseteq Files
  BY <1>1, <1>2, <1>3 DEF Files, KafkaClasses
<1>5. Settings \in Files /\ RootBuild \in Files
  BY DEF Files, HandMade
<1>6. Controller # Page /\ Settings # Controller /\ Settings # Page
  BY DEF Settings, Controller, Page
<1>7. RootBuild \notin Patched /\ RootBuild \notin KafkaClasses
  BY DEF RootBuild, Patched, Settings, Controller, Page, KafkaClasses, V1KafkaConfig, V1Consumer,
         File
<1>8. \A f \in KafkaClasses : f \notin Patched
  BY DEF Patched, Settings, Controller, Page, KafkaClasses, V1KafkaConfig, V1Consumer, File
<1>9. \A s, f : Patches(s, f) => f \in Patched
  BY DEF Patches, Patched
<1> QED BY <1>4, <1>5, <1>6, <1>7, <1>8, <1>9 DEF Patched

\* One file is written or torn: what is known of the others stays known.
LEMMA KnownKept ==
  ASSUME TypeOK, Known, NEW f \in Files, NEW file \in FileType,
         tree' = [tree EXCEPT ![f] = file],
         "demoIncluded" \notin file.gives,
         ~file.torn => /\ "springKafka" \in file.gives => f = DemoBuild
                       /\ f \in KafkaClasses => "springKafka" \in file.needs
                       /\ f = RootBuild => file.gives = {"bootPlugin", "lombok"}
  PROVE  Known' /\ tree' \in [Files -> FileType]
<1>1. tree \in [Files -> FileType]
  BY DEF TypeOK, FileType
<1>2. /\ tree' \in [Files -> FileType] /\ tree'[f] = file
      /\ \A g \in Files \ {f} : tree'[g] = tree[g]
  BY <1>1
<1>3. \A g \in Files \ {f} : Whole(g)' = Whole(g)
  BY <1>2 DEF Whole, Exists
<1>4. Whole(f)' => ~file.torn
  BY <1>2 DEF Whole
<1>5. (\A g \in Files : Whole(g) /\ "springKafka" \in tree[g].gives => g = DemoBuild)'
  BY <1>2, <1>3, <1>4 DEF Known
<1>6. (\A g \in Files : "demoIncluded" \notin tree[g].gives)'
  BY <1>2 DEF Known
<1>7. (\A g \in KafkaClasses : Whole(g) => "springKafka" \in tree[g].needs)'
  BY <1>2, <1>3, <1>4, FileNames DEF Known
<1>8. (Whole(RootBuild) => tree[RootBuild].gives = {"bootPlugin", "lombok"})'
  BY <1>2, <1>3, <1>4, FileNames DEF Known
<1> QED BY <1>2, <1>5, <1>6, <1>7, <1>8 DEF Known

\* What WriteFile and PatchFile do.
LEMMA WriteEffect ==
  ASSUME TypeOK, WriteFile
  PROVE  /\ trail' = trail /\ run # NoRun /\ run' # NoRun
         /\ run'.script = run.script /\ run'.step = run.step + 1
         /\ run' \in [script : Scripts, step : Nat]
         /\ tree'[Step.file] = [by |-> run.script, torn |-> FALSE,
                                needs |-> Step.needs, gives |-> Step.gives]
         /\ \A f \in Files \ {Step.file} : tree'[f] = tree[f]
         /\ ~Patches(run.script, Step.file)
<1>1. /\ run \in [script : Scripts, step : Nat] /\ Step.file \in Files
      /\ run.step + 1 \in Nat
  BY StepFacts DEF WriteFile
<1>2. run' = [script |-> run.script, step |-> run.step + 1]
  BY <1>1 DEF WriteFile
<1>3. run' # NoRun
  BY <1>1, <1>2 DEF NoRun, Scripts
<1>4. /\ tree' = [tree EXCEPT ![Step.file] = [by |-> run.script, torn |-> FALSE,
                                              needs |-> Step.needs, gives |-> Step.gives]]
      /\ trail' = trail /\ run # NoRun /\ ~Patches(run.script, Step.file)
  BY DEF WriteFile, AtStep, Patching
<1>5. tree'[Step.file] = [by |-> run.script, torn |-> FALSE,
                          needs |-> Step.needs, gives |-> Step.gives]
  BY <1>1, <1>4 DEF TypeOK
<1>6. \A f \in Files \ {Step.file} : tree'[f] = tree[f]
  BY <1>1, <1>4 DEF TypeOK
<1> QED BY <1>1, <1>2, <1>3, <1>4, <1>5, <1>6

LEMMA PatchEffect ==
  ASSUME TypeOK, TextOK, PatchFile
  PROVE  /\ trail' = trail /\ tree' = tree /\ scrap' = scrap /\ run # NoRun /\ run' # NoRun
         /\ run'.script = run.script /\ run'.step = run.step + 1
         /\ run' \in [script : Scripts, step : Nat]
         /\ Step.file \in Patched /\ Exists(Step.file)
         /\ text'[Step.file] = PatchedText(Step.file)
         /\ \A f \in Patched \ {Step.file} : text'[f] = text[f]
         /\ text' \in [Patched -> Texts]
<1>1. run \in [script : Scripts, step : Nat] /\ run.step + 1 \in Nat
  BY StepFacts DEF PatchFile
<1>2. run' = [script |-> run.script, step |-> run.step + 1]
  BY <1>1 DEF PatchFile
<1>3. run' # NoRun
  BY <1>1, <1>2 DEF NoRun, Scripts
<1>4. Step.file \in Patched /\ Exists(Step.file)
  BY FileNames DEF PatchFile, Patching
<1>5. PatchedText(Step.file) \in Texts
  BY <1>4, PatchedTexts
<1>6. text' = [text EXCEPT ![Step.file] = PatchedText(Step.file)] /\ text \in [Patched -> Texts]
  BY DEF PatchFile, TextOK
<1>7. /\ trail' = trail /\ tree' = tree /\ scrap' = scrap /\ run # NoRun
  BY DEF PatchFile, AtStep
<1>8. /\ text'[Step.file] = PatchedText(Step.file)
      /\ \A f \in Patched \ {Step.file} : text'[f] = text[f]
      /\ text' \in [Patched -> Texts]
  BY <1>4, <1>5, <1>6
<1> QED BY <1>1, <1>2, <1>3, <1>4, <1>7, <1>8

\* The texts stay as they should when one file is patched, written anew or torn.
LEMMA TextPatched ==
  ASSUME TypeOK, TextOK, PatchFile
  PROVE  TextOK'
<1> DEFINE f == Step.file
<1>1. /\ tree' = tree /\ scrap' = scrap /\ f \in Patched /\ Exists(f)
      /\ text'[f] = PatchedText(f)
      /\ \A g \in Patched \ {f} : text'[g] = text[g]
      /\ text' \in [Patched -> Texts]
  BY PatchEffect
<1> HIDE DEF f
<1>2. text[Controller] \in Texts /\ text[Page] \in Texts
  BY FileNames DEF TextOK
<1>3. CASE f = Settings
  BY <1>1, <1>3, FileNames DEF TextOK, Exists
<1>4. CASE f = Controller
  <2>1. text'[Controller] = PatchedController(text[Controller]) /\ text'[Page] = text[Page]
    BY <1>1, <1>4, FileNames DEF PatchedText
  <2>2. text'[Controller]["includeDemo"] = 0
    BY <1>2, <2>1, PatchesController DEF TextOK
  <2>3. ~tree[Controller].torn => ControllerText(text'[Controller])
    BY <1>1, <1>2, <1>4, <2>1, PatchesController DEF TextOK
  <2> QED BY <1>1, <2>1, <2>2, <2>3 DEF TextOK, ControllerText, Exists
<1>5. CASE f = Page
  <2>1. text'[Page] = PatchedPage(text[Page]) /\ text'[Controller] = text[Controller]
    BY <1>1, <1>5, FileNames DEF PatchedText
  <2>2. text'[Page]["includeDemo"] = 0
    BY <1>2, <2>1, PatchesPage DEF TextOK
  <2>3. ~tree[Page].torn => PageText(text'[Page])
    BY <1>1, <1>2, <1>5, <2>1, PatchesPage DEF TextOK
  <2> QED BY <1>1, <2>1, <2>2, <2>3 DEF TextOK, PageText, Exists
<1> QED BY <1>1, <1>3, <1>4, <1>5 DEF Patched

LEMMA TextWritten ==
  ASSUME TypeOK, TextOK, WriteFile
  PROVE  TextOK' /\ scrap' \in [Patched -> Landmarks \cup {"none"}]
<1> DEFINE f == Step.file
<1>1. \A g \in Files \ {f} : tree'[g] = tree[g]
  BY WriteEffect
<1>2. /\ f \in Patched => /\ text' = [text EXCEPT ![f] = NewText(f)]
                          /\ scrap' = [scrap EXCEPT ![f] = "none"]
      /\ f \notin Patched => text' = text /\ scrap' = scrap
  BY DEF WriteFile
<1> HIDE DEF f
<1>3. scrap \in [Patched -> Landmarks \cup {"none"}] /\ text \in [Patched -> Texts]
  BY DEF TypeOK, TextOK
<1>4. /\ f \in Patched => text'[f] = NewText(f) /\ scrap'[f] = "none"
      /\ \A g \in Patched \ {f} : text'[g] = text[g] /\ scrap'[g] = scrap[g]
      /\ text' \in [Patched -> Texts] /\ scrap' \in [Patched -> Landmarks \cup {"none"}]
  BY <1>2, <1>3, NewTexts
<1>5. (/\ text[Controller]["includeDemo"] = 0
       /\ ~tree[Controller].torn =>
            /\ scrap[Controller] = "none"
            /\ AllOrNone(text[Controller], {"importAppender", "endpoints"})
            /\ Exists(Controller) => ControllerText(text[Controller]))'
  <2>1. CASE f = Controller
    BY <1>4, <2>1, NewTexts, FileNames DEF ControllerText
  <2>2. CASE f # Controller
    BY <1>1, <1>4, <2>2, FileNames DEF TextOK, Exists
  <2> QED BY <2>1, <2>2
<1>6. (/\ text[Page]["includeDemo"] = 0
       /\ ~tree[Page].torn =>
            /\ scrap[Page] = "none"
            /\ AllOrNone(text[Page], {"css", "html", "js"})
            /\ Exists(Page) => PageText(text[Page]))'
  <2>1. CASE f = Page
    BY <1>4, <2>1, NewTexts, FileNames DEF PageText
  <2>2. CASE f # Page
    BY <1>1, <1>4, <2>2, FileNames DEF TextOK, Exists
  <2> QED BY <2>1, <2>2
<1> QED BY <1>4, <1>5, <1>6 DEF TextOK

LEMMA TextTorn ==
  ASSUME TypeOK, TextOK, AtStep, TearFile
  PROVE  TextOK' /\ scrap' \in [Patched -> Landmarks \cup {"none"}]
<1> DEFINE f == Step.file
           t == IF Patching THEN PatchedText(f) ELSE NewText(f)
<1>1. /\ f \in Files /\ tree \in [Files -> FileType]
      /\ tree' = [tree EXCEPT ![f] = [by |-> run.script, torn |-> TRUE,
                                      needs |-> {}, gives |-> {}]]
  BY StepFacts DEF TearFile, TypeOK, FileType
<1>2. /\ f \in Patched => \E n \in 1..Len(Layout(f)) + 1 :
                             /\ text' = [text EXCEPT ![f] = Torn(f, t, n)]
                             /\ \E l \in Scraps(f, t, n) : scrap' = [scrap EXCEPT ![f] = l]
      /\ f \notin Patched => text' = text /\ scrap' = scrap
  BY DEF TearFile
<1>3. f \in Patched => t \in Texts
  BY PatchedTexts, NewTexts
<1>4. /\ f = Controller => t["includeDemo"] = 0
      /\ f = Page => t["includeDemo"] = 0
  <2>1. text[Controller] \in Texts /\ text[Page] \in Texts
    BY FileNames DEF TextOK
  <2>2. PatchedText(Controller) = PatchedController(text[Controller])
          /\ PatchedText(Page) = PatchedPage(text[Page])
    BY FileNames DEF PatchedText
  <2>3. PatchedText(Controller)["includeDemo"] = 0 /\ PatchedText(Page)["includeDemo"] = 0
    BY <2>1, <2>2, PatchesController, PatchesPage DEF TextOK
  <2> QED BY <2>3, NewTexts, FileNames
<1> HIDE DEF f, t
<1>5. tree'[f].torn /\ \A g \in Files \ {f} : tree'[g] = tree[g]
  BY <1>1
<1>6. scrap \in [Patched -> Landmarks \cup {"none"}] /\ text \in [Patched -> Texts]
  BY DEF TypeOK, TextOK
<1>7. /\ f = Controller => text'[f]["includeDemo"] = 0
      /\ f = Page => text'[f]["includeDemo"] = 0
      /\ \A g \in Patched \ {f} : text'[g] = text[g] /\ scrap'[g] = scrap[g]
      /\ text' \in [Patched -> Texts] /\ scrap' \in [Patched -> Landmarks \cup {"none"}]
  <2>1. CASE f \in Patched
    <3>1. PICK n \in 1..Len(Layout(f)) + 1 :
             /\ text' = [text EXCEPT ![f] = Torn(f, t, n)]
             /\ \E l \in Scraps(f, t, n) : scrap' = [scrap EXCEPT ![f] = l]
      BY <1>2, <2>1
    <3>2. PICK l \in Scraps(f, t, n) : scrap' = [scrap EXCEPT ![f] = l]
      BY <3>1
    <3>3. /\ Torn(f, t, n) \in Texts /\ l \in Landmarks \cup {"none"}
          /\ t["includeDemo"] = 0 => Torn(f, t, n)["includeDemo"] = 0
      BY <1>3, <2>1, TornTexts
    <3> QED BY <1>4, <1>6, <2>1, <3>1, <3>2, <3>3
  <2>2. CASE f \notin Patched
    BY <1>2, <1>6, <2>2, FileNames
  <2> QED BY <2>1, <2>2
<1> QED BY <1>5, <1>7, FileNames DEF TextOK, Exists
-----------------------------------------------------------------------------
(* The steps.                                                              *)

\* A script that was stopped, or missed a file, leaves nothing to claim.
LEMMA NothingClaimed ==
  ASSUME trail' = <<>>, run' = NoRun
  PROVE  WrittenSoFar' /\ DemoBuilt' /\ PageBuilt' /\ PatchedSoFar' /\ LogsBuilt'
<1>1. Len(trail') = 0
  OBVIOUS
<1> QED BY <1>1 DEF WrittenSoFar, DemoBuilt, PageBuilt, PatchedSoFar, LogsBuilt, Last1, Last2, Last3

LEMMA TypeSteps ==
  ASSUME PInv, [Next]_vars
  PROVE  TypeOK' /\ TextOK' /\ Known'
<1>t. TypeOK /\ TextOK /\ Known
  BY DEF PInv
<1>u. UNCHANGED vars \/ Next
  OBVIOUS
<1>f. tree \in [Files -> FileType]
  BY <1>t DEF TypeOK, FileType
<1>s. \A t : t \in [Patched -> Texts] => t \in [Patched -> [Landmarks -> Nat]]
  BY DEF Texts
<1>1. ASSUME tree' = tree /\ text' = text /\ scrap' = scrap
      PROVE  TextOK' /\ Known'
  BY <1>t, <1>1 DEF TextOK, Known, Exists, Whole
<1>2. ASSUME UNCHANGED vars
      PROVE  TypeOK'
  BY <1>t, <1>2 DEF vars, TypeOK
<1>3. ASSUME NEW s \in Scripts, Start(s)
      PROVE  TypeOK'
  <2>1. Len(Script(s)) \in Nat
    BY ListFacts
  <2>2. run' \in [script : Scripts, step : Nat] /\ run'.step \in 1..Len(Script(run'.script)) + 1
    BY <1>3, <2>1 DEF Start
  <2>3. runs' \in 0..MaxRuns
    BY <1>t, <1>3, ProjectFilesAssumption DEF Start, TypeOK
  <2> QED BY <1>t, <1>3, <2>2, <2>3 DEF Start, TypeOK
<1>4. CASE WriteFile
  <2> DEFINE file == [by |-> run.script, torn |-> FALSE, needs |-> Step.needs, gives |-> Step.gives]
  <2>1. /\ file \in FileType /\ Step.file \in Files /\ ~file.torn
        /\ file.gives = Step.gives /\ file.needs = Step.needs
    BY <1>t, <1>4, StepFacts DEF WriteFile, FileType
  <2>2. EntryFacts(Step)
    BY <1>t, <1>4, StepFacts DEF WriteFile
  <2>3. tree' = [tree EXCEPT ![Step.file] = file]
    BY <1>4 DEF WriteFile
  <2> HIDE DEF file
  <2>4. Known' /\ tree' \in [Files -> FileType]
    BY <1>t, <2>1, <2>2, <2>3, KnownKept DEF EntryFacts
  <2>5. TextOK' /\ scrap' \in [Patched -> Landmarks \cup {"none"}]
    BY <1>t, <1>4, TextWritten
  <2>6. text' \in [Patched -> [Landmarks -> Nat]]
    BY <1>s, <2>5 DEF TextOK
  <2>7. run' \in [script : Scripts, step : Nat] /\ run'.step \in 1..Len(Script(run'.script)) + 1
    BY <1>t, <1>4, WriteEffect, StepFacts DEF WriteFile
  <2> QED BY <1>t, <1>4, <2>4, <2>5, <2>6, <2>7 DEF WriteFile, TypeOK, FileType
<1>5. CASE PatchFile
  <2>1. TextOK' /\ tree' = tree /\ scrap' = scrap
    BY <1>t, <1>5, TextPatched, PatchEffect
  <2>2. Known'
    BY <1>t, <2>1 DEF Known, Whole, Exists
  <2>3. text' \in [Patched -> [Landmarks -> Nat]]
    BY <1>s, <2>1 DEF TextOK
  <2>4. run' \in [script : Scripts, step : Nat] /\ run'.step \in 1..Len(Script(run'.script)) + 1
    BY <1>t, <1>5, PatchEffect, StepFacts DEF PatchFile
  <2> QED BY <1>t, <1>5, <2>1, <2>2, <2>3, <2>4 DEF PatchFile, TypeOK
<1>6. CASE FileMissing
  BY <1>t, <1>1, <1>6 DEF FileMissing, TypeOK
<1>7. CASE Interrupt
  <2>1. interrupts' \in 0..MaxInterrupts
    BY <1>t, <1>7, ProjectFilesAssumption DEF Interrupt, TypeOK
  <2>2. CASE UNCHANGED <<tree, text, scrap>>
    BY <1>t, <1>1, <1>7, <2>1, <2>2 DEF Interrupt, TypeOK
  <2>3. CASE TearFile
    <3>1. AtStep
      BY <1>7 DEF Interrupt
    <3> DEFINE file == [by |-> run.script, torn |-> TRUE, needs |-> {}, gives |-> {}]
    <3>2. /\ file \in FileType /\ Step.file \in Files /\ file.torn /\ "demoIncluded" \notin file.gives
      BY <1>t, <3>1, StepFacts DEF FileType
    <3>3. tree' = [tree EXCEPT ![Step.file] = file]
      BY <2>3 DEF TearFile
    <3> HIDE DEF file
    <3>4. Known' /\ tree' \in [Files -> FileType]
      BY <1>t, <3>2, <3>3, KnownKept
    <3>5. TextOK' /\ scrap' \in [Patched -> Landmarks \cup {"none"}]
      BY <1>t, <2>3, <3>1, TextTorn
    <3>6. text' \in [Patched -> [Landmarks -> Nat]]
      BY <1>s, <3>5 DEF TextOK
    <3> QED BY <1>t, <1>7, <2>1, <3>4, <3>5, <3>6 DEF Interrupt, TypeOK, FileType
  <2> QED BY <1>7, <2>2, <2>3 DEF Interrupt
<1>8. CASE Finish
  <2>1. run.script \in Scripts
    BY <1>t, <1>8 DEF Finish, TypeOK
  <2>2. trail' \in Seq(Scripts)
    BY <1>t, <1>8, <2>1 DEF Finish, TypeOK
  <2> QED BY <1>t, <1>1, <1>8, <2>2 DEF Finish, TypeOK
<1>9. ASSUME UNCHANGED vars \/ \E s \in Scripts : Start(s)
      PROVE  tree' = tree /\ text' = text /\ scrap' = scrap
  BY <1>9 DEF vars, Start
<1> QED BY <1>u, <1>1, <1>2, <1>3, <1>4, <1>5, <1>6, <1>7, <1>8, <1>9 DEF Next

\* What a script leaves of the files that another one wrote: a file is no
\* longer as that one wrote it only if the script writes it anew.
LEMMA DoneKept ==
  ASSUME TypeOK, TextOK, WriteFile \/ PatchFile, NEW s \in Scripts, Done(s),
         WriteFile => \A e \in ToSet(Script(s)) : e.file # Step.file
  PROVE  Done(s)'
<1>1. \A e \in ToSet(Script(s)) : e.file \in Files
  BY ListFacts
<1>2. \A e \in ToSet(Script(s)) : tree'[e.file] = tree[e.file]
  BY <1>1, WriteEffect, PatchEffect
<1> QED BY <1>2 DEF Done, Fresh

\* The scripts of the demo write different files.
LEMMA DemoFileNames ==
  \A e \in DemoEntries : e.file # Page /\ \A d \in {LogsEntry, LogsAppender, LogsXml} :
                                             d.file # e.file /\ d.file # Page
BY DEF DemoEntries, File, V2Build, DemoBuild, V2Application, V2Event, V2Message, V2Alert, V2Store,
       V2Listener, V2Traffic, V2Controller, Controller, V2Config, V2Yml, V2Banner, Page,
       LogsEntry, LogsAppender, LogsXml

LEMMA DemoScriptsAreApart ==
  ASSUME TypeOK, WriteFile
  PROVE  /\ run.script = PageScript => \A e \in ToSet(Script(Demo)) : e.file # Step.file
         /\ run.script = Logs => /\ \A e \in ToSet(Script(Demo)) : e.file # Step.file
                                 /\ \A e \in ToSet(Script(PageScript)) : e.file # Step.file
<1>1. Step \in ToSet(Script(run.script)) /\ ~Patches(run.script, Step.file)
  BY StepFacts DEF WriteFile, Patching
<1>2. ToSet(Script(Demo)) = DemoEntries /\ ToSet(Script(PageScript)) = {Dashboard}
        /\ ToSet(Script(Logs)) = LogsEntries /\ Dashboard.file = Page
  BY Lists DEF IsList, Dashboard, File
<1>3. CASE run.script = PageScript
  <2>1. Step.file = Page
    BY <1>1, <1>2, <1>3
  <2> QED BY <1>2, <1>3, <2>1, DemoFileNames DEF PageScript, Logs
<1>4. CASE run.script = Logs
  <2>1. Patch(Controller).file = Controller /\ Patch(Page).file = Page
    BY DEF Patch, File
  <2>2. Step \in {LogsEntry, LogsAppender, LogsXml}
    BY <1>1, <1>2, <1>4, <2>1 DEF LogsEntries, Patches, Logs
  <2> QED BY <1>2, <1>4, <2>2, DemoFileNames DEF PageScript, Logs, DemoEntries
<1> QED BY <1>3, <1>4

\* The script that runs is past one file more.
LEMMA WrittenSteps ==
  ASSUME PInv, Next
  PROVE  WrittenSoFar'
<1>t. TypeOK /\ TextOK /\ WrittenSoFar
  BY DEF PInv
<1>1. ASSUME NEW s \in Scripts, Start(s)
      PROVE  WrittenSoFar'
  BY <1>1 DEF Start, WrittenSoFar
<1>2. CASE WriteFile \/ PatchFile
  <2>1. /\ run' # NoRun /\ run # NoRun /\ run'.script = run.script /\ run'.step = run.step + 1
        /\ run.script \in Scripts /\ run.step \in 1..Len(Script(run.script))
    BY <1>t, <1>2, WriteEffect, PatchEffect, StepFacts DEF WriteFile, PatchFile
  <2>2. Len(Script(run.script)) \in Nat
    BY <2>1, ListFacts
  <2> DEFINE s == run.script
             IsFresh(e) == tree'[e.file] = [by |-> s, torn |-> FALSE,
                                            needs |-> e.needs, gives |-> e.gives]
  <2>3. ASSUME NEW i \in 1..run.step, ~Patches(s, Script(s)[i].file)
        PROVE  \E e \in ToSet(Script(s)) : e.file = Script(s)[i].file /\ IsFresh(e)
    <3>1. CASE Step.file = Script(s)[i].file
      <4>1. Step \in ToSet(Script(s))
        BY <1>t, <1>2, StepFacts DEF WriteFile, PatchFile
      <4>2. WriteFile
        BY <1>2, <2>3, <3>1 DEF PatchFile, Patching
      <4> QED BY <1>t, <3>1, <4>1, <4>2, WriteEffect
    <3>2. CASE Step.file # Script(s)[i].file
      <4>1. i \in 1..run.step - 1
        <5>1. i # run.step
          BY <3>2 DEF Step
        <5> QED BY <2>1, <2>2, <5>1
      <4>2. PICK e \in ToSet(Script(s)) : e.file = Script(s)[i].file /\ Fresh(s, e)
        BY <1>t, <2>1, <2>3, <4>1 DEF WrittenSoFar
      <4>3. e.file \in Files
        BY <2>1, <4>2, ListFacts
      <4>4. tree'[e.file] = tree[e.file]
        BY <1>t, <1>2, <3>2, <4>2, <4>3, WriteEffect, PatchEffect
      <4> QED BY <4>2, <4>4 DEF Fresh
    <3> QED BY <3>1, <3>2
  <2>4. run'.step - 1 = run.step
    BY <2>1, <2>2
  <2> HIDE DEF IsFresh
  <2>5. \A i \in 1..run'.step - 1 :
           ~Patches(run'.script, Script(run'.script)[i].file) =>
              \E e \in ToSet(Script(run'.script)) :
                 e.file = Script(run'.script)[i].file /\ IsFresh(e)
    BY <2>1, <2>3, <2>4
  <2>6. \A e : IsFresh(e) <=> Fresh(run.script, e)'
    BY <2>1 DEF IsFresh, Fresh
  <2> QED BY <2>5, <2>6 DEF WrittenSoFar
<1>3. CASE FileMissing \/ Interrupt
  BY <1>3, NothingClaimed DEF FileMissing, Interrupt
<1>4. CASE Finish
  BY <1>4 DEF Finish, WrittenSoFar
<1> QED BY <1>1, <1>2, <1>3, <1>4 DEF Next

\* The scripts completed, once one more is.
LEMMA OneAppended ==
  ASSUME trail \in Seq(Scripts), run.script \in Scripts, trail' = Append(trail, run.script),
         NEW a, NEW b, NEW c
  PROVE  /\ Last1(a)' => run.script = a
         /\ Last2(a, b)' => Last1(a) /\ run.script = b
         /\ Last3(a, b, c)' => Last2(a, b) /\ run.script = c
<1>1. trail \in Seq(Scripts) /\ run.script \in Scripts /\ trail' = Append(trail, run.script)
  OBVIOUS
<1>2. Len(trail) \in Nat /\ Len(trail') = Len(trail) + 1 /\ trail'[Len(trail) + 1] = run.script
  BY <1>1
<1>3. \A i \in 1..Len(trail) : trail'[i] = trail[i]
  BY <1>1
<1>4. Last1(a)' => run.script = a
  BY <1>2 DEF Last1
<1>5. ASSUME Last2(a, b)'
      PROVE  Last1(a) /\ run.script = b
  <2>1. Len(trail) >= 1 /\ trail'[Len(trail)] = a /\ trail'[Len(trail) + 1] = b
    BY <1>2, <1>5 DEF Last2
  <2>2. Len(trail) \in 1..Len(trail)
    BY <1>2, <2>1
  <2> QED BY <1>2, <1>3, <2>1, <2>2 DEF Last1
<1>6. ASSUME Last3(a, b, c)'
      PROVE  Last2(a, b) /\ run.script = c
  <2>1. /\ Len(trail) >= 2 /\ trail'[Len(trail) - 1] = a
        /\ trail'[Len(trail)] = b /\ trail'[Len(trail) + 1] = c
    BY <1>2, <1>6 DEF Last3
  <2>2. Len(trail) \in 1..Len(trail) /\ Len(trail) - 1 \in 1..Len(trail)
    BY <1>2, <2>1
  <2> QED BY <1>2, <1>3, <2>1, <2>2 DEF Last2
<1> QED BY <1>4, <1>5, <1>6

LEMMA OneMore ==
  ASSUME TypeOK, Finish, NEW a, NEW b, NEW c
  PROVE  /\ Last1(a)' => run.script = a
         /\ Last2(a, b)' => Last1(a) /\ run.script = b
         /\ Last3(a, b, c)' => Last2(a, b) /\ run.script = c
<1>0. trail \in Seq(Scripts) /\ run.script \in Scripts
      /\ (trail' = <<>> \/ trail' = Append(trail, run.script))
  BY DEF TypeOK, Finish
<1>1. CASE trail' = <<>>
  BY <1>1 DEF Last1, Last2, Last3
<1>2. CASE trail' = Append(trail, run.script)
  BY <1>0, <1>2, OneAppended
<1> QED BY <1>0, <1>1, <1>2

\* The positions of the logs' script.
LEMMA LogsList ==
  /\ Len(Script(Logs)) = 5
  /\ \A i \in 1..3 : ~Patches(Logs, Script(Logs)[i].file)
  /\ Script(Logs)[4].file = Controller /\ Script(Logs)[5].file = Page
<1>1. Script(Logs) = <<LogsEntry, LogsAppender, LogsXml, Patch(Controller), Patch(Page)>>
  BY DEF Script, Logs, AddLogsFeature
<1>2. /\ Script(Logs)[1] = LogsEntry /\ Script(Logs)[2] = LogsAppender
      /\ Script(Logs)[3] = LogsXml
      /\ Script(Logs)[4] = Patch(Controller) /\ Script(Logs)[5] = Patch(Page)
  BY <1>1
<1>3. Patch(Controller).file = Controller /\ Patch(Page).file = Page
  BY DEF Patch, File
<1>4. \A d \in {LogsEntry, LogsAppender, LogsXml} : ~Patches(Logs, d.file)
  BY DEF Patches, Logs, LogsEntry, LogsAppender, LogsXml, File, Controller, Page
<1> QED BY <1>2, <1>3, <1>4, Lists

\* A patch of a file that is whole puts all of its pieces in.
LEMMA PatchCompletes ==
  ASSUME TypeOK, TextOK, PatchFile, ~tree[Step.file].torn
  PROVE  /\ Step.file = Controller => ControllerPatched'
         /\ Step.file = Page => PagePatched'
<1>1. text[Controller] \in Texts /\ text[Page] \in Texts
  BY FileNames DEF TextOK
<1>2. PatchedText(Controller) = PatchedController(text[Controller])
        /\ PatchedText(Page) = PatchedPage(text[Page])
  BY FileNames DEF PatchedText
<1>3. CASE Step.file = Controller
  <2>1. scrap[Controller] = "none" /\ ControllerText(text[Controller])
    BY <1>3, PatchEffect DEF TextOK
  <2>2. text'[Controller] = PatchedController(text[Controller])
    BY <1>2, <1>3, PatchEffect
  <2> QED BY <1>1, <1>3, <2>1, <2>2, PatchesController, FileNames DEF ControllerPatched
<1>4. CASE Step.file = Page
  <2>1. scrap[Page] = "none" /\ PageText(text[Page])
    BY <1>4, PatchEffect DEF TextOK
  <2>2. text'[Page] = PatchedPage(text[Page])
    BY <1>2, <1>4, PatchEffect
  <2> QED BY <1>1, <1>4, <2>1, <2>2, PatchesPage, FileNames DEF PagePatched
<1> QED BY <1>3, <1>4

\* With the demo and the page done, the files to patch are whole.
LEMMA DoneFiles ==
  ASSUME Done(Demo), Done(PageScript)
  PROVE  ~tree[Controller].torn /\ ~tree[Page].torn
<1>1. V2Controller \in ToSet(Script(Demo)) /\ Dashboard \in ToSet(Script(PageScript))
  BY Lists DEF IsList, DemoEntries
<1>2. V2Controller.file = Controller /\ Dashboard.file = Page
  BY DEF V2Controller, Dashboard, File
<1>3. ~Patches(Demo, Controller) /\ ~Patches(PageScript, Page)
  BY DEF Patches, Demo, PageScript
<1>4. Fresh(Demo, V2Controller) /\ Fresh(PageScript, Dashboard)
  BY <1>1, <1>2, <1>3 DEF Done
<1> QED BY <1>2, <1>4 DEF Fresh

\* The claims made of the demo, step by step.
LEMMA DemoSteps ==
  ASSUME PInv, Next
  PROVE  DemoBuilt' /\ PageBuilt' /\ PatchedSoFar' /\ LogsBuilt'
<1>t. TypeOK /\ TextOK /\ WrittenSoFar /\ DemoBuilt /\ PageBuilt /\ PatchedSoFar
  BY DEF PInv
<1>n. Demo \in Scripts /\ PageScript \in Scripts /\ Logs \in Scripts
  BY DEF Demo, PageScript, Logs, Scripts
<1>1. ASSUME NEW s \in Scripts, Start(s)
      PROVE  DemoBuilt' /\ PageBuilt' /\ PatchedSoFar' /\ LogsBuilt'
  <2>1. run' # NoRun /\ run'.step = 1 /\ run = NoRun /\ trail' = trail /\ tree' = tree
    BY <1>1 DEF Start, NoRun, Scripts
  <2>2. Last1(Demo)' = Last1(Demo) /\ Last2(Demo, PageScript)' = Last2(Demo, PageScript)
    BY <2>1 DEF Last1, Last2
  <2>3. Done(Demo)' = Done(Demo) /\ Done(PageScript)' = Done(PageScript)
    BY <2>1 DEF Done, Fresh
  <2> QED BY <1>t, <2>1, <2>2, <2>3 DEF DemoBuilt, PageBuilt, PatchedSoFar, LogsBuilt
<1>2. CASE WriteFile \/ PatchFile
  <2>1. /\ run' # NoRun /\ run # NoRun /\ run'.script = run.script /\ run'.step = run.step + 1
        /\ trail' = trail /\ run.script \in Scripts
        /\ run.step \in 1..Len(Script(run.script))
    BY <1>t, <1>2, WriteEffect, PatchEffect, StepFacts DEF WriteFile, PatchFile
  <2>2. Last1(Demo)' = Last1(Demo) /\ Last2(Demo, PageScript)' = Last2(Demo, PageScript)
    BY <2>1 DEF Last1, Last2
  <2>3. DemoBuilt'
    BY <1>t, <1>n, <1>2, <2>1, <2>2, DemoScriptsAreApart, DoneKept DEF DemoBuilt
  <2>4. PageBuilt'
    BY <1>t, <1>n, <1>2, <2>1, <2>2, DemoScriptsAreApart, DoneKept DEF PageBuilt
  <2>5. ASSUME Last2(Demo, PageScript), run.script = Logs
        PROVE  /\ run.step + 1 > 4 => ControllerPatched'
               /\ run.step + 1 > 5 => PagePatched'
    <3>1. run.step \in 1..5
      BY <2>1, <2>5, LogsList
    <3>2. ~tree[Controller].torn /\ ~tree[Page].torn
      BY <1>t, <2>1, <2>5, DoneFiles DEF PageBuilt
    <3>3. CASE run.step \in 1..3
      BY <3>3
    <3>4. CASE run.step = 4
      <4>1. Step.file = Controller
        BY <2>5, <3>4, LogsList DEF Step
      <4>2. PatchFile
        BY <1>2, <2>5, <4>1 DEF WriteFile, Patching, Patches, Logs
      <4>3. ControllerPatched'
        BY <1>t, <3>2, <4>1, <4>2, PatchCompletes
      <4> QED BY <3>4, <4>3
    <3>5. CASE run.step = 5
      <4>1. Step.file = Page
        BY <2>5, <3>5, LogsList DEF Step
      <4>2. PatchFile
        BY <1>2, <2>5, <4>1 DEF WriteFile, Patching, Patches, Logs
      <4>3. PagePatched'
        BY <1>t, <3>2, <4>1, <4>2, PatchCompletes
      <4>4. text'[Controller] = text[Controller]
        BY <1>t, <4>1, <4>2, PatchEffect, FileNames
      <4>5. ControllerPatched
        BY <1>t, <2>1, <2>5, <3>5 DEF PatchedSoFar
      <4> QED BY <4>3, <4>4, <4>5 DEF ControllerPatched
    <3> QED BY <3>1, <3>3, <3>4, <3>5
  <2>6. PatchedSoFar'
    BY <2>1, <2>2, <2>5 DEF PatchedSoFar
  <2> QED BY <2>1, <2>3, <2>4, <2>6 DEF LogsBuilt
<1>3. CASE FileMissing \/ Interrupt
  BY <1>3, NothingClaimed DEF FileMissing, Interrupt
<1>4. CASE Finish
  <2>1. /\ run # NoRun /\ run' = NoRun /\ tree' = tree /\ text' = text
        /\ run.step = Len(Script(run.script)) + 1
        /\ run.script \in {Demo, PageScript, Logs} => Done(run.script)
    BY <1>t, <1>4, FinishedIsDone DEF Finish
  <2>2. Done(Demo)' = Done(Demo) /\ Done(PageScript)' = Done(PageScript)
          /\ Done(Logs)' = Done(Logs)
    BY <2>1 DEF Done, Fresh
  <2>3. DemoBuilt'
    BY <1>t, <1>4, <2>1, <2>2, OneMore DEF DemoBuilt
  <2>4. PageBuilt'
    BY <1>t, <1>4, <2>1, <2>2, OneMore DEF DemoBuilt, PageBuilt
  <2>5. ASSUME Last3(Demo, PageScript, Logs)'
        PROVE  /\ Done(Demo) /\ Done(PageScript) /\ Done(Logs)
               /\ ControllerPatched /\ PagePatched
    <3>1. Last2(Demo, PageScript) /\ run.script = Logs
      BY <1>t, <1>4, <2>5, OneMore
    <3>2. run.step = 6
      BY <2>1, <3>1, LogsList
    <3> QED BY <1>t, <2>1, <3>1, <3>2 DEF PageBuilt, PatchedSoFar
  <2>6. LogsBuilt'
    BY <2>1, <2>2, <2>5 DEF LogsBuilt, ControllerPatched, PagePatched
  <2> QED BY <2>1, <2>3, <2>4, <2>6 DEF PatchedSoFar
<1> QED BY <1>1, <1>2, <1>3, <1>4 DEF Next

LEMMA PInvInit == Init => PInv
<1> SUFFICES ASSUME Init PROVE PInv
  OBVIOUS
<1>1. \A S : Plain(S) \in Texts /\ Plain({}) = [l \in Landmarks |-> 0]
  BY DEF Plain, Texts
<1>2. /\ text \in [Patched -> Texts] /\ text[Controller] = Plain({}) /\ text[Page] = Plain({})
      /\ scrap[Controller] = "none" /\ scrap[Page] = "none"
      /\ scrap \in [Patched -> Landmarks \cup {"none"}]
  BY <1>1, FileNames DEF Init
<1>3. \A f \in Files : /\ HandGives(f) \in SUBSET Things
                       /\ "demoIncluded" \notin HandGives(f) /\ "springKafka" \notin HandGives(f)
  <2>1. \A f \in HandMade : HandGives(f) \subseteq Things
    <3>1. NewRoot \in ToSet(Script("update_versions")) /\ NewWrapper \in ToSet(Script("update_versions"))
      BY Lists DEF IsList, VersionEntries
    <3>2. NewRoot.gives \in SUBSET Things /\ NewWrapper.gives \in SUBSET Things
      BY <3>1, ListFacts DEF Scripts
    <3>3. HandGives(RootBuild) = NewRoot.gives /\ HandGives(Wrapper) = NewWrapper.gives
            /\ HandGives(Settings) = {}
      BY DEF HandGives, NewRoot, NewWrapper, File, RootBuild, Wrapper, Settings
    <3> QED BY <3>2, <3>3 DEF HandMade
  <2>2. \A f : f \notin HandMade => HandGives(f) = {}
    BY DEF HandGives, HandMade
  <2>3. \A f : "demoIncluded" \notin HandGives(f) /\ "springKafka" \notin HandGives(f)
    BY DEF HandGives
  <2> QED BY <2>1, <2>2, <2>3
<1>4. tree \in [Files -> FileType]
  BY <1>3 DEF Init, FileType
<1>5. TypeOK
  BY <1>1, <1>2, <1>4, ProjectFilesAssumption DEF Init, TypeOK, NoRun, FileType, Texts
<1>6. Exists(Controller) = FALSE /\ Exists(Page) = FALSE
  BY FileNames DEF Init, Exists, HandMade, RootBuild, Settings, Wrapper, Controller, Page
<1>7. TextOK
  BY <1>1, <1>2, <1>6, LandmarkNames DEF TextOK, AllOrNone
<1>8. Known
  <2>1. \A f \in KafkaClasses : ~Exists(f)
    BY FileNames DEF Init, Exists, HandMade, RootBuild, Settings, Wrapper, KafkaClasses,
                     V1KafkaConfig, V1Consumer, File
  <2>2. \A f \in Files : tree[f].gives = HandGives(f)
    BY DEF Init
  <2>3. HandGives(RootBuild) = {"bootPlugin", "lombok"}
    BY DEF HandGives, RootBuild, Wrapper
  <2> QED BY <1>3, <2>1, <2>2, <2>3, FileNames DEF Known, Whole
<1>9. run = NoRun /\ Len(trail) = 0
  BY DEF Init
<1> QED BY <1>5, <1>7, <1>8, <1>9
        DEF PInv, WrittenSoFar, DemoBuilt, PageBuilt, PatchedSoFar, LogsBuilt, Last1, Last2, Last3

LEMMA PInvStep == PInv /\ [Next]_vars => PInv'
<1> SUFFICES ASSUME PInv, [Next]_vars PROVE PInv'
  OBVIOUS
<1>1. TypeOK' /\ TextOK' /\ Known'
  BY TypeSteps
<1>2. CASE UNCHANGED vars
  <2>1. WrittenSoFar' /\ DemoBuilt' /\ PageBuilt' /\ PatchedSoFar' /\ LogsBuilt'
    BY <1>2 DEF PInv, vars, WrittenSoFar, DemoBuilt, PageBuilt, PatchedSoFar, LogsBuilt,
                Last1, Last2, Last3, Done, Fresh, ControllerPatched, PagePatched
  <2> QED BY <1>1, <2>1 DEF PInv
<1>3. CASE Next
  BY <1>1, <1>3, WrittenSteps, DemoSteps DEF PInv
<1> QED BY <1>2, <1>3

THEOREM PInvariant == Spec => []PInv
BY PInvInit, PInvStep, PTL DEF Spec
-----------------------------------------------------------------------------
(* What the demo's three scripts leave.                                    *)

\* A sequence that ends in the three scripts.
LEMMA Suffix ==
  ASSUME NEW t \in Seq(Scripts), NEW a, NEW b, NEW c, IsSuffix(<<a, b, c>>, t)
  PROVE  Len(t) >= 3 /\ t[Len(t) - 2] = a /\ t[Len(t) - 1] = b /\ t[Len(t)] = c
<1> DEFINE n == Len(t)
           r == [i \in 1..n |-> t[(n - i) + 1]]
           q == [i \in 1..3 |-> <<a, b, c>>[(3 - i) + 1]]
<1>1. n \in Nat
  OBVIOUS
<1>2. Len(<<a, b, c>>) = 3
  OBVIOUS
<1>3. Reverse(t) = r /\ Reverse(<<a, b, c>>) = q
  BY <1>2 DEF Reverse
<1>4. q[1] = c /\ q[2] = b /\ q[3] = a
  OBVIOUS
<1>5. Len(r) = n /\ Len(q) = 3
  BY <1>1
<1>6. 3 <= n /\ SubSeq(q, 1, 3) = SubSeq(r, 1, 3)
  BY <1>3, <1>5 DEF IsSuffix, IsPrefix
<1>7. r \in Seq(Scripts)
  BY <1>1
<1>8. \A i \in 1..3 : SubSeq(r, 1, 3)[i] = r[i]
  BY <1>5, <1>6, <1>7
<1>9. q \in Seq({a, b, c})
  BY <1>4
<1>10. \A i \in 1..3 : SubSeq(q, 1, 3)[i] = q[i]
  BY <1>5, <1>9
<1>11. r[1] = c /\ r[2] = b /\ r[3] = a
  BY <1>4, <1>6, <1>8, <1>10
<1> QED BY <1>1, <1>6, <1>11

\* What the three scripts write.
WrittenEntries == DemoEntries \cup {Dashboard, LogsEntry, LogsAppender, LogsXml}

\* All that their files give each other, and take from the root's build file.
Provided ==
  {"bootPlugin", "lombok", "springWeb", "scheduling", "async",
   "ApiAnalyticsEvent", "ApiAnalyticsEventMessage", "AlertNotification", "InMemoryMetricsStore",
   "requests_60s", "p99LatencyMs", "totalEventsBuffered", "errorCount", "alertsFired",
   "endpointsTracked", "GET_dashboard", "GET_metrics", "GET_alerts",
   "LogEntry", "InMemoryLogAppender", "importedAppender", "GET_logs", "DELETE_logs",
   "logStyles", "logElements"}

\* Every file but the build file needs no more than that.
LEMMA NeedsProvided ==
  /\ \A e \in WrittenEntries : e = V2Build \/ e.needs \subseteq Provided
  /\ V2Build.needs = {"bootPlugin", "demoIncluded"}
  /\ \A l : PieceNeeds(l) \subseteq Provided
<1> USE DEF Provided, File
<1>1. \A e \in DemoEntries : e = V2Build \/ e.needs \subseteq Provided
  <2>1. V2Application.needs \subseteq Provided /\ V2Event.needs \subseteq Provided
          /\ V2Message.needs \subseteq Provided /\ V2Alert.needs \subseteq Provided
    BY DEF V2Application, V2Event, V2Message, V2Alert
  <2>2. V2Store.needs \subseteq Provided /\ V2Listener.needs \subseteq Provided
          /\ V2Traffic.needs \subseteq Provided /\ V2Controller.needs \subseteq Provided
    BY DEF V2Store, V2Listener, V2Traffic, V2Controller
  <2>3. V2Config.needs \subseteq Provided /\ V2Yml.needs \subseteq Provided
          /\ V2Banner.needs \subseteq Provided
    BY DEF V2Config, V2Yml, V2Banner
  <2> QED BY <2>1, <2>2, <2>3 DEF DemoEntries
<1>2. Dashboard.needs \subseteq Provided /\ LogsEntry.needs \subseteq Provided
        /\ LogsAppender.needs \subseteq Provided /\ LogsXml.needs \subseteq Provided
  BY DEF Dashboard, LogsEntry, LogsAppender, LogsXml
<1>3. V2Build.needs = {"bootPlugin", "demoIncluded"}
  BY DEF V2Build
<1>4. \A l : PieceNeeds(l) \subseteq Provided
  BY DEF PieceNeeds
<1> QED BY <1>1, <1>2, <1>3, <1>4 DEF WrittenEntries

\* What is provided comes from a file of the three scripts, a piece they
\* insert, or the root's build file.
LEMMA ProvidedBy ==
  \A x \in Provided :
     \/ \E e \in WrittenEntries : x \in e.gives
     \/ x \in {"bootPlugin", "lombok"}
     \/ x \in PieceGives("importAppender") \cup PieceGives("endpoints")
     \/ x \in PieceGives("css") \cup PieceGives("html")
<1>1. /\ V2Build.gives = {"springWeb"} /\ V2Application.gives = {"scheduling"}
      /\ V2Config.gives = {"async"}
      /\ V2Event.gives = {"ApiAnalyticsEvent"} /\ V2Message.gives = {"ApiAnalyticsEventMessage"}
      /\ V2Alert.gives = {"AlertNotification"}
      /\ LogsEntry.gives = {"LogEntry"} /\ LogsAppender.gives = {"InMemoryLogAppender"}
  BY DEF File, V2Build, V2Application, V2Config, V2Event, V2Message, V2Alert, LogsEntry,
         LogsAppender
<1>2. /\ V2Store.gives = {"InMemoryMetricsStore", "requests_60s", "p99LatencyMs",
                          "totalEventsBuffered", "errorCount", "alertsFired", "endpointsTracked"}
      /\ V2Controller.gives = {"GET_dashboard", "GET_metrics", "GET_alerts"}
  BY DEF File, V2Store, V2Controller
<1>3. /\ PieceGives("importAppender") = {"importedAppender"}
      /\ PieceGives("endpoints") = {"GET_logs", "DELETE_logs"}
      /\ PieceGives("css") = {"logStyles"} /\ PieceGives("html") = {"logElements"}
  BY DEF PieceGives
<1>4. /\ V2Build \in WrittenEntries /\ V2Application \in WrittenEntries
      /\ V2Config \in WrittenEntries /\ V2Event \in WrittenEntries
      /\ V2Message \in WrittenEntries /\ V2Alert \in WrittenEntries
      /\ V2Store \in WrittenEntries /\ V2Controller \in WrittenEntries
      /\ LogsEntry \in WrittenEntries /\ LogsAppender \in WrittenEntries
  BY DEF WrittenEntries, DemoEntries
<1>5. \A x \in Provided :
         \/ x \in V2Build.gives \cup V2Application.gives \cup V2Config.gives \cup V2Event.gives
         \/ x \in V2Message.gives \cup V2Alert.gives \cup V2Store.gives \cup V2Controller.gives
         \/ x \in LogsEntry.gives \cup LogsAppender.gives
         \/ x \in {"bootPlugin", "lombok"}
         \/ x \in PieceGives("importAppender") \cup PieceGives("endpoints")
         \/ x \in PieceGives("css") \cup PieceGives("html")
  BY <1>1, <1>2, <1>3 DEF Provided
<1> QED BY <1>4, <1>5

\* The files of the demo: those the three scripts write, and what
\* generate_demo adds.
LEMMA DemoFilesAre ==
  DemoFiles = {e.file : e \in WrittenEntries} \cup KafkaClasses
<1> DEFINE all == UNION {ToSet(Script(s)) : s \in {"generate_demo", "generate_demo_v2",
                                                  "generate_dashboard", "add_logs_feature"}}
<1>1. all = DemoV1Entries \cup DemoEntries \cup {Dashboard} \cup LogsEntries
  BY Lists DEF IsList, Demo, PageScript, Logs
<1>2. DemoFiles = {e.file : e \in all} \ {Settings}
  BY DEF DemoFiles
<1> HIDE DEF all
<1>3. /\ Patch(Settings).file = Settings /\ V1Build.file = V2Build.file
      /\ V1Application.file = V2Application.file /\ V1Event.file = V2Event.file
      /\ V1Alert.file = V2Alert.file /\ V1Store.file = V2Store.file
      /\ V1Traffic.file = V2Traffic.file /\ V1Controller.file = V2Controller.file
      /\ V1Yml.file = V2Yml.file
      /\ Patch(Controller).file = V2Controller.file /\ Patch(Page).file = Dashboard.file
  BY DEF Patch, File, V1Build, V1Application, V1Event, V1Alert, V1Store, V1Traffic, V1Controller,
         V1Yml, V2Build, V2Application, V2Event, V2Alert, V2Store, V2Traffic, V2Controller, V2Yml,
         Dashboard
<1>4. \A e \in WrittenEntries \cup {V1KafkaConfig, V1Consumer} : e.file # Settings
  BY DEF WrittenEntries, DemoEntries, File, V2Build, DemoBuild, V2Application, V2Event, V2Message,
         V2Alert, V2Store, V2Listener, V2Traffic, V2Controller, Controller, V2Config, V2Yml,
         V2Banner, Dashboard, Page, LogsEntry, LogsAppender, LogsXml, V1KafkaConfig, V1Consumer,
         Settings
<1>5. ASSUME NEW e \in all, e.file # Settings
      PROVE  e.file \in {d.file : d \in WrittenEntries} \cup KafkaClasses
  BY <1>1, <1>3, <1>5 DEF DemoV1Entries, LogsEntries, WrittenEntries, DemoEntries, KafkaClasses
<1>6. WrittenEntries \subseteq all /\ V1KafkaConfig \in all /\ V1Consumer \in all
  BY <1>1 DEF WrittenEntries, DemoV1Entries, LogsEntries
<1> QED BY <1>2, <1>4, <1>5, <1>6 DEF KafkaClasses

LEMMA GivenBy ==
  ASSUME NEW f \in Files, Whole(f)
  PROVE  Gives(f) \subseteq Given
BY DEF Given

\* Only settings.gradle includes the demo, and nothing gives the Kafka library
\* once the demo's build file is the second version's.
LEMMA WhatIsGiven ==
  ASSUME TypeOK, TextOK, Known
  PROVE  /\ "demoIncluded" \in Given <=>
               Whole(Settings) /\ text[Settings]["includeDemo"] = 1
         /\ "springKafka" \notin tree[DemoBuild].gives => "springKafka" \notin Given
<1>1. PieceGives("includeDemo") = {"demoIncluded"}
      /\ \A l : /\ "springKafka" \notin PieceGives(l)
                /\ "demoIncluded" \in PieceGives(l) => l = "includeDemo"
  BY DEF PieceGives
<1>2. \A f \in Patched : text[f] \in Texts
  BY DEF TextOK
<1>3. ASSUME "demoIncluded" \in Given
      PROVE  Whole(Settings) /\ text[Settings]["includeDemo"] = 1
  <2>1. PICK f \in Files : Whole(f) /\ "demoIncluded" \in Gives(f)
    BY <1>3 DEF Given
  <2>2. PICK l \in Pieces(f) : "demoIncluded" \in PieceGives(l)
    BY <2>1 DEF Gives, Known
  <2>3. "includeDemo" \in Pieces(f)
    BY <1>1, <2>2
  <2>4. f \in Patched /\ text[f]["includeDemo"] > 0
    BY <2>3 DEF Pieces
  <2>5. f = Settings
    BY <2>4 DEF TextOK, Patched
  <2> QED BY <1>2, <2>1, <2>4, <2>5, LandmarkNames, TextValue
<1>4. ASSUME Whole(Settings), text[Settings]["includeDemo"] = 1
      PROVE  "demoIncluded" \in Given
  <2>1. "includeDemo" \in Pieces(Settings)
    BY <1>4, LandmarkNames, FileNames DEF Pieces
  <2>2. "demoIncluded" \in Gives(Settings)
    BY <1>1, <2>1 DEF Gives
  <2> QED BY <1>4, <2>2, GivenBy, FileNames
<1>5. ASSUME "springKafka" \notin tree[DemoBuild].gives, "springKafka" \in Given
      PROVE  FALSE
  <2>1. PICK f \in Files : Whole(f) /\ "springKafka" \in Gives(f)
    BY <1>5 DEF Given
  <2>2. "springKafka" \in tree[f].gives
    BY <1>1, <2>1 DEF Gives
  <2> QED BY <1>5, <2>1, <2>2 DEF Known
<1> QED BY <1>3, <1>4, <1>5

\* The three scripts are done, and nothing was written since.
DemoDone == Done(Demo) /\ Done(PageScript) /\ Done(Logs) /\ ControllerPatched /\ PagePatched

LEMMA DoneEntries ==
  ASSUME DemoDone, NEW e \in WrittenEntries
  PROVE  /\ e.file \in Files /\ Whole(e.file)
         /\ tree[e.file].needs = e.needs /\ tree[e.file].gives = e.gives
<1>1. \A s, f : Patches(s, f) => s # Demo /\ s # PageScript
  BY DEF Patches, Demo, PageScript
<1>2. \A d \in {LogsEntry, LogsAppender, LogsXml} : ~Patches(Logs, d.file)
  BY DEF Patches, Logs, LogsEntry, LogsAppender, LogsXml, File, Controller, Page
<1>3. \E s \in {Demo, PageScript, Logs} : e \in ToSet(Script(s)) /\ ~Patches(s, e.file)
  BY <1>1, <1>2, Lists DEF IsList, WrittenEntries, LogsEntries
<1>4. PICK s \in {Demo, PageScript, Logs} : e \in ToSet(Script(s)) /\ Fresh(s, e)
  BY <1>3 DEF DemoDone, Done
<1>5. s \in Scripts /\ s # "nobody"
  BY DEF Scripts, Demo, PageScript, Logs
<1>6. e.file \in Files
  BY <1>4, <1>5, ListFacts
<1> QED BY <1>4, <1>5, <1>6 DEF Fresh, Whole, Exists

\* After them, the demo's files have what they need.
LEMMA ProvidedIsGiven ==
  ASSUME TypeOK, TextOK, Known, DemoDone, Whole(RootBuild)
  PROVE  Provided \subseteq Given
<1>1. \A e \in WrittenEntries : e.gives \subseteq Given
  <2> SUFFICES ASSUME NEW e \in WrittenEntries PROVE e.gives \subseteq Given
    OBVIOUS
  <2>1. e.file \in Files /\ Whole(e.file) /\ tree[e.file].gives = e.gives
    BY DoneEntries
  <2> QED BY <2>1, GivenBy DEF Gives
<1>2. {"bootPlugin", "lombok"} \subseteq Given
  BY FileNames, GivenBy DEF Known, Gives
<1>3. V2Controller \in WrittenEntries /\ V2Controller.file = Controller
      /\ Dashboard \in WrittenEntries /\ Dashboard.file = Page
  BY DEF WrittenEntries, DemoEntries, V2Controller, Dashboard, File
<1>4. Whole(Controller) /\ Whole(Page)
  BY <1>3, DoneEntries
<1>5. PieceGives("importAppender") \cup PieceGives("endpoints") \subseteq Given
  <2>1. "importAppender" \in Pieces(Controller) /\ "endpoints" \in Pieces(Controller)
    BY LandmarkNames, FileNames DEF Pieces, DemoDone, ControllerPatched
  <2> QED BY <1>4, <2>1, GivenBy, FileNames DEF Gives
<1>6. PieceGives("css") \cup PieceGives("html") \subseteq Given
  <2>1. "css" \in Pieces(Page) /\ "html" \in Pieces(Page)
    BY LandmarkNames, FileNames DEF Pieces, DemoDone, PagePatched
  <2> QED BY <1>4, <2>1, GivenBy, FileNames DEF Gives
<1> QED BY <1>1, <1>2, <1>5, <1>6, ProvidedBy

\* Which of the demo's files stay broken.
LEMMA BrokenFiles ==
  ASSUME TypeOK, TextOK, Known, DemoDone, Whole(RootBuild)
  PROVE  Broken \cap DemoFiles =
            {f \in KafkaClasses : Exists(f)}
            \cup (IF Whole(Settings) /\ text[Settings]["includeDemo"] = 1 THEN {} ELSE {DemoBuild})
<1>1. V2Build \in WrittenEntries /\ V2Build.file = DemoBuild
        /\ "springKafka" \notin V2Build.gives
  BY DEF WrittenEntries, DemoEntries, V2Build, File
<1>2. "springKafka" \notin Given
  BY <1>1, DoneEntries, WhatIsGiven
<1>3. \A f \in Files : Needs(f) \subseteq tree[f].needs \cup Provided
  BY NeedsProvided DEF Needs
<1>4. ASSUME NEW e \in WrittenEntries, e # V2Build
      PROVE  e.file \notin Broken
  <2>1. Needs(e.file) \subseteq Given
    BY <1>3, <1>4, DoneEntries, NeedsProvided, ProvidedIsGiven
  <2> QED BY <2>1, DoneEntries DEF Broken
<1>5. DemoBuild \in Broken <=> "demoIncluded" \notin Given
  <2>1. Whole(DemoBuild) /\ Exists(DemoBuild) /\ tree[DemoBuild].needs = {"bootPlugin", "demoIncluded"}
    BY <1>1, DoneEntries, NeedsProvided DEF Whole
  <2>2. Needs(DemoBuild) \subseteq {"demoIncluded"} \cup Given
    BY <1>3, <2>1, FileNames, ProvidedIsGiven DEF Provided
  <2>3. "demoIncluded" \in Needs(DemoBuild)
    BY <2>1 DEF Needs
  <2> QED BY <2>1, <2>2, <2>3, FileNames DEF Broken
<1>6. ASSUME NEW f \in KafkaClasses
      PROVE  f \in Broken <=> Exists(f)
  <2>1. Whole(f) => "springKafka" \in Needs(f)
    BY DEF Known, Needs
  <2> QED BY <1>2, <2>1, FileNames DEF Broken
<1>7. "demoIncluded" \in Given <=> Whole(Settings) /\ text[Settings]["includeDemo"] = 1
  BY WhatIsGiven
<1>8. DemoBuild \notin KafkaClasses
  BY DEF DemoBuild, KafkaClasses, V1KafkaConfig, V1Consumer, File
<1>9. \A f \in Broken \cap DemoFiles : f = DemoBuild \/ f \in KafkaClasses
  BY <1>1, <1>4, DemoFilesAre
<1>10. DemoBuild \in DemoFiles /\ KafkaClasses \subseteq DemoFiles
  BY <1>1, DemoFilesAre
<1> QED BY <1>5, <1>6, <1>7, <1>8, <1>9, <1>10
-----------------------------------------------------------------------------
\* The files, their texts, the script that runs and the scripts completed are
\* well typed: no script is past the end of its list.
THEOREM TypeCorrect == Spec => []TypeOK
<1>1. PInv => TypeOK
  BY DEF PInv
<1> QED BY <1>1, PInvariant, PTL

\* A file that is not torn has all the pieces of its patch or none, and no
\* piece twice, however often the scripts are run and wherever they are
\* stopped.
THEOREM PatchesStayWhole == Spec => []PatchesAreWhole
<1>1. PInv => PatchesAreWhole
  <2> SUFFICES ASSUME PInv PROVE PatchesAreWhole
    OBVIOUS
  <2>1. \A f \in Patched, l \in Landmarks : text[f][l] <= 1
    <3> SUFFICES ASSUME NEW f \in Patched, NEW l \in Landmarks PROVE text[f][l] <= 1
      OBVIOUS
    <3>1. text[f][l] \in {0, 1}
      BY TextValue DEF PInv, TextOK
    <3> QED BY <3>1
  <2> QED BY <2>1 DEF PInv, TextOK, PatchesAreWhole
<1> QED BY <1>1, PInvariant, PTL

\* The demo's scripts in order repair the demo's files after any history of
\* runs and stops, torn files included, but for the Kafka classes an earlier
\* generate_demo left, and but for the entry in settings.gradle.
THEOREM DemoIsRepaired == Spec => []RegenerationIsWhole
<1>1. PInv => RegenerationIsWhole
  <2> SUFFICES ASSUME PInv, run = NoRun, IsSuffix(LogsPipeline, trail), Whole(RootBuild)
               PROVE  /\ Broken \cap DemoFiles =
                            {f \in KafkaClasses : Exists(f)}
                            \cup (IF Whole(Settings) /\ text[Settings]["includeDemo"] = 1
                                  THEN {} ELSE {DemoBuild})
                      /\ text[Controller]["endpoints"] = 1 /\ text[Page]["js"] = 1
    BY DEF RegenerationIsWhole
  <2>1. trail \in Seq(Scripts)
    BY DEF PInv, TypeOK
  <2>2. Last3(Demo, PageScript, Logs)
    BY <2>1, Suffix DEF LogsPipeline, Last3, Demo, PageScript, Logs
  <2>3. DemoDone
    BY <2>2 DEF PInv, LogsBuilt, DemoDone
  <2> QED BY <2>3, BrokenFiles DEF PInv, DemoDone, ControllerPatched, PagePatched
<1> QED BY <1>1, PInvariant, PTL
=============================================================================
