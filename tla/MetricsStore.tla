---------------------------- MODULE MetricsStore ----------------------------
(***************************************************************************)
(* The bounded event buffer of the demo's InMemoryMetricsStore.            *)
(* recordEvent runs in the threads of the @Async pool at the same time:    *)
(*     events.addFirst(event);                                             *)
(*     if (events.size() > MAX_EVENTS) events.removeLast();                *)
(*     evaluateAlerts(event);                                              *)
(* The ConcurrentLinkedDeque makes each call safe on its own.  Its size()  *)
(* is not a counter: it walks from the first node to the last and counts   *)
(* the nodes that still hold an item when it comes by.                     *)
(*                                                                         *)
(* Events are numbered in the order addFirst links them, so the deque is   *)
(* always the interval lo..hi, its last element being lo.                  *)
(***************************************************************************)
EXTENDS Integers, FiniteSets

CONSTANTS
  Threads,       \* threads of the async pool
  MAX_EVENTS,    \* capacity of the buffer
  MaxRecorded    \* bound: events recorded

ASSUME StoreAssumption ==
  /\ IsFiniteSet(Threads) /\ Threads # {}
  /\ MAX_EVENTS \in Nat \ {0}
  /\ MaxRecorded \in Nat

VARIABLES
  lo,       \* the oldest event in the deque
  hi,       \* the newest event recorded
  pc,       \* pc[t]: where t is in recordEvent
  cursor,   \* cursor[t]: the node the walk of size() comes to next
  seen,     \* seen[t]: the nodes it has counted
  bottom    \* bottom[t]: the oldest event when the walk began

vars == <<lo, hi, pc, cursor, seen, bottom>>

Retained == hi - lo + 1

\* The threads that have added an event and not yet decided whether, or not
\* yet done, what their size() asked for.
Trimming == {t \in Threads : pc[t] \in {"size", "walk", "remove"}}

\* Operators named ..._Mut... are plausible bugs, used by no action.

\* The buffer is trimmed as soon as it is full.
TooMany_MutFull(n) == n >= MAX_EVENTS

TooMany(n) == n > MAX_EVENTS

-----------------------------------------------------------------------------
Init == /\ lo = 1
        /\ hi = 0
        /\ pc = [t \in Threads |-> "idle"]
        /\ cursor = [t \in Threads |-> 0]
        /\ seen = [t \in Threads |-> 0]
        /\ bottom = [t \in Threads |-> 1]

\* events.addFirst(event)
AddFirst(t) ==
  /\ pc[t] = "idle"
  /\ hi < MaxRecorded
  /\ hi' = hi + 1
  /\ pc' = [pc EXCEPT ![t] = "size"]
  /\ UNCHANGED <<lo, cursor, seen, bottom>>

\* size() starts at the node that is first now.
StartWalk(t) ==
  /\ pc[t] = "size"
  /\ cursor' = [cursor EXCEPT ![t] = hi]
  /\ seen' = [seen EXCEPT ![t] = 0]
  /\ bottom' = [bottom EXCEPT ![t] = lo]
  /\ pc' = [pc EXCEPT ![t] = "walk"]
  /\ UNCHANGED <<lo, hi>>

\* The node still holds its item: count it and go on to the next older one.
Walk(t) ==
  /\ pc[t] = "walk"
  /\ cursor[t] >= lo
  /\ seen' = [seen EXCEPT ![t] = @ + 1]
  /\ cursor' = [cursor EXCEPT ![t] = @ - 1]
  /\ UNCHANGED <<lo, hi, pc, bottom>>

\* The walk starts over whenever it comes to its end.
RestartWalk_MutAlways(t) ==
  /\ pc[t] = "walk"
  /\ cursor[t] < lo
  /\ pc' = [pc EXCEPT ![t] = "size"]
  /\ UNCHANGED <<lo, hi, cursor, seen, bottom>>

\* The node was in the deque when the walk began and has been unlinked since:
\* the walk may find it linked to itself, and start over at the head.
RestartWalk(t) ==
  /\ pc[t] = "walk"
  /\ bottom[t] <= cursor[t]
  /\ cursor[t] < lo
  /\ pc' = [pc EXCEPT ![t] = "size"]
  /\ UNCHANGED <<lo, hi, cursor, seen, bottom>>

\* The walk is past the last item: size() returns seen.
EndWalk(t) ==
  /\ pc[t] = "walk"
  /\ cursor[t] < lo
  /\ pc' = [pc EXCEPT ![t] = IF TooMany(seen[t]) THEN "remove" ELSE "evaluate"]
  /\ UNCHANGED <<lo, hi, cursor, seen, bottom>>

\* The whole buffer is dropped.
RemoveLast_MutClears(t) ==
  /\ pc[t] = "remove"
  /\ Retained > 0
  /\ lo' = hi + 1
  /\ pc' = [pc EXCEPT ![t] = "evaluate"]
  /\ UNCHANGED <<hi, cursor, seen, bottom>>

\* events.removeLast().  On an empty deque it would throw: RemoveNeverThrows
\* says that the guard is never in the way.
RemoveLast(t) ==
  /\ pc[t] = "remove"
  /\ Retained > 0
  /\ lo' = lo + 1
  /\ pc' = [pc EXCEPT ![t] = "evaluate"]
  /\ UNCHANGED <<hi, cursor, seen, bottom>>

\* evaluateAlerts reads the deque and leaves it alone.
Evaluate(t) ==
  /\ pc[t] = "evaluate"
  /\ pc' = [pc EXCEPT ![t] = "idle"]
  /\ UNCHANGED <<lo, hi, cursor, seen, bottom>>

Record(t) == \/ StartWalk(t)
             \/ Walk(t)
             \/ RestartWalk(t)
             \/ EndWalk(t)
             \/ RemoveLast(t)
             \/ Evaluate(t)

Next == \E t \in Threads : AddFirst(t) \/ Record(t)

Spec == Init /\ [][Next]_vars

-----------------------------------------------------------------------------
TypeOK ==
  /\ lo \in Nat \ {0}
  /\ hi \in Nat
  /\ pc \in [Threads -> {"idle", "size", "walk", "remove", "evaluate"}]
  /\ cursor \in [Threads -> Nat]
  /\ seen \in [Threads -> Nat]
  /\ bottom \in [Threads -> Nat]

MinOf(a, b) == IF a <= b THEN a ELSE b

\* removeLast() never finds the deque empty (NoSuchElementException), whatever
\* the other threads have removed since size() was called: no event is recorded
\* without its alert rules being evaluated.
RemoveNeverThrows == \A t \in Threads : pc[t] = "remove" => Retained > 0

\* The threads that trim at once can cost at most one event each: the buffer
\* holds everything recorded, or at least MAX_EVENTS + 1 - |Threads| events.
EnoughRetained ==
  Retained >= MinOf(hi, MAX_EVENTS + 1 - Cardinality(Threads) + Cardinality(Trimming))

\* The number of events that will remain when the threads at work are done
\* never falls: every removal is paid for by an addition of the same thread.
Settled == Retained - Cardinality(Trimming)
SettledNeverFalls == [][Settled' >= Settled]_vars
=============================================================================
