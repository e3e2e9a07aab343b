---------------------------- MODULE ProjectFiles ----------------------------
(***************************************************************************)
(* The Python scripts that write the project's files.  Each script writes  *)
(* a list of files in its order; generate_demo and add_logs_feature also   *)
(* insert pieces of text into files others wrote, each insertion behind a  *)
(* test of its own ("if marker not in text").  A script may be run at any  *)
(* time and interrupted anywhere.                                          *)
(*                                                                         *)
(* What a file contains is abstracted to what it needs from the other      *)
(* files of the build (classes, libraries, HTTP endpoints, JSON keys, page *)
(* elements) and what it gives to them.  The three files with insertions   *)
(* are also known by their landmarks: the pieces inserted, and the places  *)
(* at which they are inserted.                                             *)
(***************************************************************************)
EXTENDS Naturals, Sequences, SequencesExt

CONSTANTS
  MaxRuns,       \* bound: runs of scripts
  MaxInterrupts  \* bound: interrupted runs

ASSUME ProjectFilesAssumption == MaxRuns \in Nat /\ MaxInterrupts \in Nat

-----------------------------------------------------------------------------
Settings   == "settings.gradle"
RootBuild  == "build.gradle"
Wrapper    == "gradle-wrapper.properties"
DemoBuild  == "demo/build.gradle"
Controller == "demo/controller/DemoController"
Page       == "demo/static/index.html"

\* A file a script writes, with what it needs and what it gives.
File(f, needs, gives) == [file |-> f, needs |-> needs, gives |-> gives]

\* A step that reads a file and may write it back with something inserted.
Patch(f) == File(f, {}, {})

\* generate_demo: the demo on an embedded Kafka broker.
V1Build == File(DemoBuild, {"bootPlugin", "demoIncluded"},
                {"springWeb", "springKafka", "springKafkaTest"})
V1Application == File("demo/DemoApplication", {"springWeb"}, {"scheduling"})
V1Event == File("demo/model/ApiAnalyticsEvent", {"lombok", "springWeb"}, {"ApiAnalyticsEvent"})
V1Alert == File("demo/model/AlertNotification", {"lombok"}, {"AlertNotification"})
V1KafkaConfig == File("demo/config/EmbeddedKafkaConfig",
                      {"springKafka", "springKafkaTest", "ApiAnalyticsEvent"},
                      {"KafkaTemplate", "listenerContainer"})
V1Store == File("demo/service/InMemoryMetricsStore",
                {"lombok", "springWeb", "ApiAnalyticsEvent", "AlertNotification"},
                {"InMemoryMetricsStore", "requests", "totalEventsInMemory", "errorCount",
                 "alertsFired"})
V1Consumer == File("demo/consumer/ApiEventConsumer",
                   {"lombok", "springKafka", "listenerContainer", "ApiAnalyticsEvent",
                    "InMemoryMetricsStore"}, {})
V1Traffic == File("demo/runner/SampleTrafficGenerator",
                  {"lombok", "scheduling", "springKafka", "KafkaTemplate", "ApiAnalyticsEvent"}, {})
V1Controller == File(Controller,
                     {"lombok", "springWeb", "ApiAnalyticsEvent", "AlertNotification",
                      "InMemoryMetricsStore"},
                     {"GET_dashboard", "GET_metrics", "GET_alerts"})
V1Yml == File("demo/application.yml", {}, {"port8888"})

GenerateDemo == <<Patch(Settings), V1Build, V1Application, V1Event, V1Alert, V1KafkaConfig,
                  V1Store, V1Consumer, V1Traffic, V1Controller, V1Yml>>

\* generate_demo_v2: the demo on Spring's events, without Kafka.  It writes
\* over the files the two have in common and leaves the others where they are.
V2Build == File(DemoBuild, {"bootPlugin", "demoIncluded"}, {"springWeb"})
V2Application == File("demo/DemoApplication", {"springWeb"}, {"scheduling"})
V2Event == File("demo/model/ApiAnalyticsEvent", {"lombok"}, {"ApiAnalyticsEvent"})
V2Message == File("demo/model/ApiAnalyticsEventMessage", {"springWeb", "ApiAnalyticsEvent"},
                  {"ApiAnalyticsEventMessage"})
V2Alert == File("demo/model/AlertNotification", {"lombok"}, {"AlertNotification"})
V2Store == File("demo/service/InMemoryMetricsStore",
                {"lombok", "springWeb", "ApiAnalyticsEvent", "AlertNotification"},
                {"InMemoryMetricsStore", "requests_60s", "p99LatencyMs", "totalEventsBuffered",
                 "errorCount", "alertsFired", "endpointsTracked"})
V2Listener == File("demo/consumer/ApiEventListener",
                   {"lombok", "springWeb", "async", "ApiAnalyticsEventMessage",
                    "InMemoryMetricsStore"}, {})
V2Traffic == File("demo/runner/SampleTrafficGenerator",
                  {"lombok", "scheduling", "ApiAnalyticsEvent", "ApiAnalyticsEventMessage"}, {})
V2Controller == File(Controller,
                     {"lombok", "springWeb", "ApiAnalyticsEvent", "ApiAnalyticsEventMessage",
                      "AlertNotification", "InMemoryMetricsStore"},
                     {"GET_dashboard", "GET_metrics", "GET_alerts"})
V2Config == File("demo/config/AppConfig", {"springWeb"}, {"async"})
V2Yml == File("demo/application.yml", {}, {"port8888"})
V2Banner == File("demo/banner.txt", {}, {})

\* One class is forgotten.
GenerateDemoV2_MutNoMessage ==
  <<V2Build, V2Application, V2Event, V2Alert, V2Store, V2Listener, V2Traffic, V2Controller,
    V2Config, V2Yml, V2Banner>>

GenerateDemoV2 == <<V2Build, V2Application, V2Event, V2Message, V2Alert, V2Store, V2Listener,
                    V2Traffic, V2Controller, V2Config, V2Yml, V2Banner>>

\* generate_dashboard: the page, and what its update() asks for and reads.
Dashboard == File(Page, {"GET_dashboard", "GET_metrics", "GET_alerts",
                         "requests_60s", "p99LatencyMs", "totalEventsBuffered", "errorCount",
                         "alertsFired", "endpointsTracked"}, {})

\* add_logs_feature: what it writes anew, and the two files it patches.
LogsEntry == File("demo/model/LogEntry", {"lombok"}, {"LogEntry"})
LogsAppender == File("demo/logging/InMemoryLogAppender", {"springWeb", "LogEntry"},
                     {"InMemoryLogAppender"})
LogsXml == File("demo/logback-spring.xml", {"InMemoryLogAppender"}, {"capturedLines"})

AddLogsFeature == <<LogsEntry, LogsAppender, LogsXml, Patch(Controller), Patch(Page)>>

\* update_versions: the build files, for newer versions of the plugins.
NewWrapper == File(Wrapper, {}, {"gradle"})
NewRoot == File(RootBuild, {"gradle"}, {"bootPlugin", "lombok"})
ServiceBuild(f) == File(f, {"bootPlugin"}, {})
UpdateVersions == <<NewWrapper, NewRoot, ServiceBuild("gateway-service/build.gradle"),
                    ServiceBuild("analytics-service/build.gradle"),
                    ServiceBuild("alert-service/build.gradle")>>

\* generate_project: everything but the demo.  A directory stands for the
\* files below it that no other script writes.
Rest(f) == File(f, {}, {})
GenerateProject ==
  <<Rest("config"), Rest("docker"),
    ServiceBuild("gateway-service/build.gradle"), Rest("gateway-service/src"),
    ServiceBuild("analytics-service/build.gradle"), Rest("analytics-service/src"),
    ServiceBuild("alert-service/build.gradle"), Rest("alert-service/src"),
    Rest("k8s"), Rest("kibana"), Rest("scripts"), Rest("docs")>>

Script(s) ==
  CASE s = "generate_project"   -> GenerateProject
    [] s = "generate_demo"      -> GenerateDemo
    [] s = "generate_demo_v2"   -> GenerateDemoV2
    [] s = "generate_dashboard" -> <<Dashboard>>
    [] s = "update_versions"    -> UpdateVersions
    [] s = "add_logs_feature"   -> AddLogsFeature

Scripts == {"generate_project", "generate_demo", "generate_demo_v2", "generate_dashboard",
            "update_versions", "add_logs_feature"}

\* settings.gradle, build.gradle and the wrapper were made by hand.
HandMade == {Settings, RootBuild, Wrapper}

HandGives(f) == CASE f = RootBuild -> {"bootPlugin", "lombok"}
                  [] f = Wrapper   -> {"gradle"}
                  [] OTHER         -> {}

Entries == UNION {ToSet(Script(s)) : s \in Scripts}

Files == HandMade \cup {e.file : e \in Entries}

\* All that a file may need or give.
Things == UNION {e.needs \cup e.gives : e \in Entries}

Patches(s, f) == \/ s = "generate_demo" /\ f = Settings
                 \/ s = "add_logs_feature" /\ f \in {Controller, Page}

-----------------------------------------------------------------------------
\* The landmarks of the patched files, in their order in the text: the pieces
\* the scripts insert, and what those are inserted before.
Layout(f) ==
  CASE f = Settings   -> <<"includeDemo">>
    [] f = Controller -> <<"importAppender", "importNotification", "endpoints">>
    [] f = Page       -> <<"css", "styleEnd", "html", "spacer", "wrapEnd", "js",
                           "scriptEnd", "bodyEnd">>

Patched == {Settings, Controller, Page}

Landmarks == {"includeDemo",
              "importAppender", "importNotification", "endpoints",
              "css", "styleEnd", "html", "spacer", "wrapEnd", "js", "scriptEnd", "bodyEnd"}

\* The landmarks a generator writes.
Generated(f) ==
  CASE f = Settings   -> {}
    [] f = Controller -> {"importNotification"}
    [] f = Page       -> {"styleEnd", "spacer", "wrapEnd", "scriptEnd", "bodyEnd"}

\* What an inserted piece needs and gives.
PieceNeeds(l) ==
  CASE l = "importAppender" -> {"InMemoryLogAppender", "LogEntry"}
    [] l = "endpoints"       -> {"InMemoryLogAppender", "LogEntry", "importedAppender"}
    [] l = "html"            -> {"logStyles"}
    [] l = "js"              -> {"logElements", "GET_logs", "DELETE_logs"}
    [] OTHER                 -> {}

PieceGives(l) ==
  CASE l = "includeDemo"    -> {"demoIncluded"}
    [] l = "importAppender" -> {"importedAppender"}
    [] l = "endpoints"       -> {"GET_logs", "DELETE_logs"}
    [] l = "css"             -> {"logStyles"}
    [] l = "html"            -> {"logElements"}
    [] OTHER                 -> {}

-----------------------------------------------------------------------------
VARIABLES
  tree,       \* tree[f]: who wrote f last, whether it is torn, what is in it
  text,       \* text[f][l]: how often the landmark l is in the patched file f
  scrap,      \* scrap[f]: the landmark at which f was torn apart, or "none"
  run,        \* the script that runs and its position in its list, or NoRun
  trail,      \* history: the scripts completed since one failed or was stopped
  runs,       \* scripts started so far
  interrupts  \* scripts interrupted so far

vars == <<tree, text, scrap, run, trail, runs, interrupts>>

NoRun == [script |-> "none", step |-> 0]

Step == Script(run.script)[run.step]

AtStep == run # NoRun /\ run.step <= Len(Script(run.script))

Patching == Patches(run.script, Step.file)

Exists(f) == tree[f].by # "nobody"

Plain(landmarks) == [l \in Landmarks |-> IF l \in landmarks THEN 1 ELSE 0]

-----------------------------------------------------------------------------
\* Operators named ..._Mut... are plausible bugs, used by no action.

\* "marker" in content: the marker is in one of these pieces of f, or in what
\* is left of one of them.
Mentioned(f, t, landmarks) == scrap[f] \in landmarks \/ \E l \in landmarks : t[l] > 0

\* content.replace(anchor, piece + anchor), for each time the anchor is there
InsertBefore(t, piece, anchor) == [t EXCEPT ![piece] = @ + t[anchor]]

InsertOnce(t, piece) == [t EXCEPT ![piece] = @ + 1]

\* if "InMemoryLogAppender" not in ctrl
WithImport(t) ==
  IF Mentioned(Controller, t, {"importAppender", "endpoints"}) THEN t
  ELSE InsertBefore(t, "importAppender", "importNotification")

\* if "/demo/logs" not in ctrl: before the last brace, or before the last
\* character when there is none (rfind returns -1)
WithEndpoints(t) ==
  IF Mentioned(Controller, t, {"endpoints"}) THEN t ELSE InsertOnce(t, "endpoints")

\* if "log-viewer" not in html
WithStyle(t) ==
  IF Mentioned(Page, t, {"css", "html", "js"}) THEN t ELSE InsertBefore(t, "css", "styleEnd")

\* if "logs-card" not in html: at the end of the page's frame, whose spacer is
\* replaced, or at a looser marker, or before </body>
WithPanel(t) ==
  IF Mentioned(Page, t, {"html"}) THEN t
  ELSE IF t["wrapEnd"] > 0 THEN [InsertOnce(t, "html") EXCEPT !["spacer"] = 0]
  ELSE InsertBefore(t, "html", "bodyEnd")

\* if "updateLogs" not in html: before </script> and </body>
WithScript(t) ==
  IF Mentioned(Page, t, {"js"}) \/ t["scriptEnd"] = 0 THEN t
  ELSE InsertBefore(t, "js", "bodyEnd")

\* The style sheet is tested for last: the panel mentions log-viewer as well.
PatchedPage_MutStyleLast(t) == WithStyle(WithScript(WithPanel(t)))

PatchedPage(t) == WithScript(WithPanel(WithStyle(t)))

PatchedController(t) == WithEndpoints(WithImport(t))

\* if "demo-service" not in settings
PatchedSettings(t) ==
  IF Mentioned(Settings, t, {"includeDemo"}) THEN t ELSE InsertOnce(t, "includeDemo")

PatchedText(f) == CASE f = Settings   -> PatchedSettings(text[f])
                    [] f = Controller -> PatchedController(text[f])
                    [] f = Page       -> PatchedPage(text[f])

\* settings.gradle is only written when something is inserted.
Rewrites(f) == f = Settings => PatchedText(f) # text[f]

\* write(): open(p, 'w') leaves nothing of what was there.
NewText(f) == Plain(Generated(f))

\* The first n - 1 landmarks of a text; the n-th, or what was a scrap before,
\* may have left a scrap.
Torn(f, t, n) ==
  [l \in Landmarks |-> IF \E i \in 1..(n - 1) : i <= Len(Layout(f)) /\ Layout(f)[i] = l
                       THEN t[l] ELSE 0]

Scraps(f, t, n) ==
  {"none"} \cup (IF Patching THEN {scrap[f]} ELSE {})
  \cup {l \in Landmarks : n <= Len(Layout(f)) /\ l = Layout(f)[n] /\ t[l] > 0}

-----------------------------------------------------------------------------
Init == /\ tree = [f \in Files |-> [by    |-> IF f \in HandMade THEN "hand" ELSE "nobody",
                                    torn  |-> FALSE,
                                    needs |-> {},
                                    gives |-> HandGives(f)]]
        /\ text = [f \in Patched |-> Plain({})]
        /\ scrap = [f \in Patched |-> "none"]
        /\ run = NoRun
        /\ trail = <<>>
        /\ runs = 0
        /\ interrupts = 0

Start(s) == /\ run = NoRun
            /\ runs < MaxRuns
            /\ run' = [script |-> s, step |-> 1]
            /\ runs' = runs + 1
            /\ UNCHANGED <<tree, text, scrap, trail, interrupts>>

\* Only update_versions does not make the directory of the file, which is
\* there once generate_project has begun its first file.
CanWrite == run.script = "update_versions" => Exists(Step.file)

WriteFile ==
  /\ AtStep
  /\ ~Patching
  /\ CanWrite
  /\ tree' = [tree EXCEPT ![Step.file] = [by |-> run.script, torn |-> FALSE,
                                          needs |-> Step.needs, gives |-> Step.gives]]
  /\ IF Step.file \in Patched
     THEN /\ text' = [text EXCEPT ![Step.file] = NewText(Step.file)]
          /\ scrap' = [scrap EXCEPT ![Step.file] = "none"]
     ELSE UNCHANGED <<text, scrap>>
  /\ run' = [run EXCEPT !.step = @ + 1]
  /\ UNCHANGED <<trail, runs, interrupts>>

\* What was torn before stays torn.
PatchFile ==
  /\ AtStep
  /\ Patching
  /\ Exists(Step.file)
  /\ text' = [text EXCEPT ![Step.file] = PatchedText(Step.file)]
  /\ run' = [run EXCEPT !.step = @ + 1]
  /\ UNCHANGED <<tree, scrap, trail, runs, interrupts>>

\* FileNotFoundError: the files written so far stay.
FileMissing ==
  /\ AtStep
  /\ IF Patching THEN ~Exists(Step.file) ELSE ~CanWrite
  /\ run' = NoRun
  /\ trail' = <<>>
  /\ UNCHANGED <<tree, text, scrap, runs, interrupts>>

\* The script is stopped while it writes the file, which was truncated.
TearFile ==
  LET f == Step.file
      t == IF Patching THEN PatchedText(f) ELSE NewText(f)
  IN  /\ IF Patching THEN Exists(f) /\ Rewrites(f) ELSE CanWrite
      /\ tree' = [tree EXCEPT ![f] = [by |-> run.script, torn |-> TRUE, needs |-> {}, gives |-> {}]]
      /\ IF f \in Patched
         THEN \E n \in 1..Len(Layout(f)) + 1 :
                 /\ text' = [text EXCEPT ![f] = Torn(f, t, n)]
                 /\ \E l \in Scraps(f, t, n) : scrap' = [scrap EXCEPT ![f] = l]
         ELSE UNCHANGED <<text, scrap>>

\* The script is stopped between two files or within one.
Interrupt == /\ AtStep
             /\ interrupts < MaxInterrupts
             /\ TearFile \/ UNCHANGED <<tree, text, scrap>>
             /\ run' = NoRun
             /\ trail' = <<>>
             /\ interrupts' = interrupts + 1
             /\ UNCHANGED runs

\* generate_project ends in a NameError (its last line is a stray word), when
\* all of its files are written.
Fails(s) == s = "generate_project"

Finish == /\ run # NoRun
          /\ ~AtStep
          /\ run' = NoRun
          /\ trail' = IF Fails(run.script) THEN <<>> ELSE Append(trail, run.script)
          /\ UNCHANGED <<tree, text, scrap, runs, interrupts>>

Next == \/ \E s \in Scripts : Start(s)
        \/ WriteFile
        \/ PatchFile
        \/ FileMissing
        \/ Interrupt
        \/ Finish

Spec == Init /\ [][Next]_vars

-----------------------------------------------------------------------------
TypeOK ==
  /\ tree \in [Files -> [by : Scripts \cup {"nobody", "hand"}, torn : BOOLEAN,
                         needs : SUBSET Things, gives : SUBSET Things]]
  /\ text \in [Patched -> [Landmarks -> Nat]]
  /\ scrap \in [Patched -> Landmarks \cup {"none"}]
  /\ run \in [script : Scripts, step : Nat] \cup {NoRun}
  /\ run # NoRun => run.step \in 1..Len(Script(run.script)) + 1
  /\ trail \in Seq(Scripts)
  /\ runs \in 0..MaxRuns /\ interrupts \in 0..MaxInterrupts

AllOrNone(t, pieces) == \/ \A l \in pieces : t[l] = 1
                        \/ \A l \in pieces : t[l] = 0

\* However often the scripts are run, in whatever order and wherever they are
\* stopped: no piece is inserted twice, and a file that is not torn has all the
\* pieces of its patch or none.  The five tests of add_logs_feature could come
\* to different answers, since a piece also mentions the markers of others.
PatchesAreWhole ==
  /\ \A f \in Patched, l \in Landmarks : text[f][l] <= 1
  /\ ~tree[Controller].torn =>
        AllOrNone(text[Controller], {"importAppender", "endpoints"})
  /\ ~tree[Page].torn => AllOrNone(text[Page], {"css", "html", "js"})

Whole(f) == Exists(f) /\ ~tree[f].torn

Pieces(f) == IF f \in Patched THEN {l \in Landmarks : text[f][l] > 0} ELSE {}

Needs(f) == tree[f].needs \cup UNION {PieceNeeds(l) : l \in Pieces(f)}

Gives(f) == tree[f].gives \cup UNION {PieceGives(l) : l \in Pieces(f)}

Given == UNION {Gives(f) : f \in {g \in Files : Whole(g)}}

\* The files that break the build or do not work: torn, or without something
\* they need.
Broken == {f \in Files : Exists(f) /\ ~(Whole(f) /\ Needs(f) \subseteq Given)}

DemoFiles == {e.file : e \in UNION {ToSet(Script(s)) :
                s \in {"generate_demo", "generate_demo_v2", "generate_dashboard",
                       "add_logs_feature"}}}
             \ {Settings}

\* What generate_demo_v2 leaves of generate_demo, and no longer has the
\* library for.
KafkaClasses == {V1KafkaConfig.file, V1Consumer.file}

LogsPipeline == <<"generate_demo_v2", "generate_dashboard", "add_logs_feature">>

\* Running the demo's scripts in order repairs the demo after any history:
\* every file they write is whole and has what it needs, the log panel its
\* endpoints included.  What they do not repair is named: the Kafka classes
\* an earlier generate_demo left, whose library is gone; and the entry in
\* settings.gradle, which only generate_demo makes.
RegenerationIsWhole ==
  run = NoRun /\ IsSuffix(LogsPipeline, trail) /\ Whole(RootBuild) =>
     /\ Broken \cap DemoFiles =
           {f \in KafkaClasses : Exists(f)}
           \cup (IF Whole(Settings) /\ text[Settings]["includeDemo"] = 1 THEN {} ELSE {DemoBuild})
     /\ text[Controller]["endpoints"] = 1 /\ text[Page]["js"] = 1
=============================================================================
