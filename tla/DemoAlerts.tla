----------------------------- MODULE DemoAlerts -----------------------------
(***************************************************************************)
(* All of recordEvent: the bounded buffer of MetricsStore, then the two    *)
(* alert rules of evaluateAlerts, run by several threads of the @Async     *)
(* pool at once.  A breached rule asks canAlert, which reads the time of   *)
(* the last alert from the map cooldown and, when it is long enough ago,   *)
(* puts the new time; the alert itself is added to the deque afterwards.   *)
(*                                                                         *)
(* cooldown is a plain HashMap shared by the threads without a lock: get   *)
(* may miss an entry another thread's put is moving, or return a value     *)
(* that was replaced.  It returns nothing, or any time ever put for the    *)
(* key.  One tenant and endpoint: a key is a rule.                         *)
(***************************************************************************)
EXTENDS MetricsStore

CONSTANTS
  Cooldown,   \* 30 seconds, in ticks
  Never,      \* get() finds no entry
  MaxTime     \* bound: ticks

Rules == {"LAT", "ERR"}

ASSUME DemoAlertsAssumption ==
  /\ Cooldown \in Nat
  /\ MaxTime \in Nat
  /\ Never \notin Nat

VARIABLES
  now,         \* the clock
  rule,        \* rule[t]: the rule t evaluates
  step,        \* step[t]: "check" it, "put" the time, "add" the alert
  putAt,       \* putAt[t]: the time t has put
  puts,        \* puts[r]: the times put for r into cooldown
  alerts,      \* the alerts in the deque: rule, and the time put for it
  suppressed   \* history: breaches that found their key cooling down

storeVars == <<lo, hi, pc, cursor, seen, bottom>>
alertVars == <<rule, step, putAt, puts, alerts, suppressed>>
allVars == <<storeVars, now, alertVars>>

-----------------------------------------------------------------------------
Evaluating(t) == pc[t] = "evaluate" /\ step[t] = "check"

\* After the latency rule comes the error-rate rule, after that recordEvent
\* is done.
NextRule(t) ==
  /\ step' = [step EXCEPT ![t] = "check"]
  /\ IF rule[t] = "LAT"
     THEN rule' = [rule EXCEPT ![t] = "ERR"] /\ UNCHANGED storeVars
     ELSE rule' = [rule EXCEPT ![t] = "LAT"] /\ Evaluate(t)

\* Fewer than three events in the window, or the rule is not breached.
RuleHolds(t) ==
  /\ Evaluating(t)
  /\ NextRule(t)
  /\ UNCHANGED <<now, putAt, puts, alerts, suppressed>>

\* What cooldown.get(key) may return.
LastAlert(r) == puts[r] \cup {Never}

\* last == null || Instant.now().isAfter(last.plusSeconds(30))
CooledDown(last) == IF last = Never THEN TRUE ELSE now > last + Cooldown

CanAlert(t) ==
  /\ Evaluating(t)
  /\ \E last \in LastAlert(rule[t]) : CooledDown(last)
  /\ step' = [step EXCEPT ![t] = "put"]
  /\ UNCHANGED <<storeVars, now, rule, putAt, puts, alerts, suppressed>>

\* Operators named ..._Mut... are plausible bugs, used by no action.

\* A breach that is suppressed starts the cooldown anew.
PutWhenSuppressed_MutRenews(r) == [puts EXCEPT ![r] = @ \cup {now}]
PutWhenSuppressed(r) == puts

\* The breach is suppressed.
CannotAlert(t) ==
  /\ Evaluating(t)
  /\ \E last \in LastAlert(rule[t]) : ~CooledDown(last)
  /\ suppressed' = suppressed \cup {[rule |-> rule[t], at |-> now]}
  /\ puts' = PutWhenSuppressed(rule[t])
  /\ NextRule(t)
  /\ UNCHANGED <<now, putAt, alerts>>

\* cooldown.put(key, Instant.now())
Put(t) ==
  /\ step[t] = "put"
  /\ puts' = [puts EXCEPT ![rule[t]] = @ \cup {now}]
  /\ putAt' = [putAt EXCEPT ![t] = now]
  /\ step' = [step EXCEPT ![t] = "add"]
  /\ UNCHANGED <<storeVars, now, rule, alerts, suppressed>>

\* alerts.addFirst(alert)
AddAlert(t) ==
  /\ step[t] = "add"
  /\ alerts' = alerts \cup {[rule |-> rule[t], put |-> putAt[t]]}
  /\ NextRule(t)
  /\ UNCHANGED <<now, putAt, puts, suppressed>>

Buffer(t) == \/ StartWalk(t)
             \/ Walk(t)
             \/ RestartWalk(t)
             \/ EndWalk(t)
             \/ RemoveLast(t)

EvaluateAlerts(t) == \/ RuleHolds(t)
                     \/ CanAlert(t)
                     \/ CannotAlert(t)
                     \/ Put(t)
                     \/ AddAlert(t)

Tick == /\ now < MaxTime
        /\ now' = now + 1
        /\ UNCHANGED <<storeVars, alertVars>>

-----------------------------------------------------------------------------
AlertsInit == /\ Init
              /\ now = 0
              /\ rule = [t \in Threads |-> "LAT"]
              /\ step = [t \in Threads |-> "check"]
              /\ putAt = [t \in Threads |-> 0]
              /\ puts = [r \in Rules |-> {}]
              /\ alerts = {}
              /\ suppressed = {}

RecordEvent(t) == \/ Buffer(t) /\ UNCHANGED <<now, alertVars>>
                  \/ EvaluateAlerts(t)

AlertsNext == \/ \E t \in Threads : AddFirst(t) /\ UNCHANGED <<now, alertVars>>
              \/ \E t \in Threads : RecordEvent(t)
              \/ Tick

AlertsSpec == AlertsInit /\ [][AlertsNext]_allVars

\* A pool thread that has begun to record an event goes on.
AlertsFairSpec == AlertsSpec /\ \A t \in Threads : WF_allVars(RecordEvent(t))

-----------------------------------------------------------------------------
AlertsTypeOK ==
  /\ TypeOK
  /\ now \in Nat
  /\ rule \in [Threads -> Rules]
  /\ step \in [Threads -> {"check", "put", "add"}]
  /\ putAt \in [Threads -> Nat]
  /\ puts \in [Rules -> SUBSET Nat]
  /\ alerts \subseteq [rule : Rules, put : Nat]
  /\ suppressed \subseteq [rule : Rules, at : Nat]

\* The alerts in the deque, and those a thread is about to add.
Raised == alerts \cup {[rule |-> rule[t], put |-> putAt[t]] : t \in {u \in Threads : step[u] = "add"}}

\* No breach is suppressed into silence: whatever get() finds in the racing
\* map, a breach that raises no alert follows one of its rule, in the deque or
\* about to be, by no more than the cooldown.
SuppressedHasAlert ==
  \A s \in suppressed : \E a \in Raised :
     a.rule = s.rule /\ a.put <= s.at /\ s.at <= a.put + Cooldown

\* recordEvent ends once traffic rests: when no more events are added, a thread
\* that has added its event comes through the walk of size(), although other
\* threads still remove the nodes it stands on, and then through both alert
\* rules.  Without the premise the walk could start over for ever, once for
\* each event that other threads add and remove meanwhile.
EventsAreEvaluatedAtRest ==
  <>[][hi' = hi]_allVars =>
     \A t \in Threads : pc[t] = "size" ~> (pc[t] = "idle" /\ rule[t] = "LAT")
=============================================================================
