------------------------- MODULE DemoAlerts_proofs -------------------------
(***************************************************************************)
(* The demo's store, for any number of pool threads, any capacity and any  *)
(* cooldown: first its buffer (MetricsStore), then the alert rules behind  *)
(* it (DemoAlerts).                                                        *)
(*                                                                         *)
(* The argument about the buffer counts debts.  A thread in Trimming has   *)
(* added an event and may still remove one; Settled is what remains when   *)
(* all of them do.  No step lowers Settled.  A walk of size() never counts *)
(* more than was in the deque when it began, which is at most              *)
(* Settled + |Threads|, so a thread that removes an event knows that       *)
(* Settled is large.                                                       *)
(*                                                                         *)
(* A step of DemoAlerts is a step of MetricsStore or leaves its variables  *)
(* alone, so what is shown of the buffer holds behind the rules too.  That *)
(* no breach is suppressed into silence rests on the map: every time in it *)
(* is that of an alert in the deque or about to be.                        *)
(***************************************************************************)
EXTENDS DemoAlerts, FiniteSetTheorems, TLAPS

k == Cardinality(Threads)

\* What a walk can still count on top of what it has counted.
Ahead(t) == IF cursor[t] >= lo THEN cursor[t] - lo + 1 ELSE 0

IntervalOK == lo <= hi + 1

DebtsCovered == Settled >= 0

WalksBounded == \A t \in Threads : pc[t] = "walk" => seen[t] + Ahead(t) <= Settled + k

RemovalsJustified == \A t \in Threads : pc[t] = "remove" => Settled + k > MAX_EVENTS

SettledEnough == Settled >= MinOf(hi - Cardinality(Trimming), MAX_EVENTS + 1 - k)

IInv == /\ TypeOK
        /\ IntervalOK
        /\ DebtsCovered
        /\ WalksBounded
        /\ RemovalsJustified
        /\ SettledEnough

-----------------------------------------------------------------------------
\* The number of threads, and of those at work, is a natural number.
LEMMA Counts ==
  /\ k \in Nat
  /\ IsFiniteSet(Trimming)
  /\ Cardinality(Trimming) \in Nat
  /\ Cardinality(Trimming) <= k
<1>1. IsFiniteSet(Threads)
  BY StoreAssumption
<1>2. Trimming \subseteq Threads
  BY DEF Trimming
<1> QED BY <1>1, <1>2, FS_Subset, FS_CardinalityType DEF k

\* The three ways a step changes who is trimming.
LEMMA TrimmingSame ==
  ASSUME NEW t \in Threads, NEW v, TypeOK, pc' = [pc EXCEPT ![t] = v],
         pc[t] \in {"size", "walk", "remove"} <=> v \in {"size", "walk", "remove"}
  PROVE  Trimming' = Trimming
BY DEF Trimming, TypeOK

LEMMA TrimmingGrows ==
  ASSUME NEW t \in Threads, NEW v \in {"size", "walk", "remove"}, TypeOK,
         pc' = [pc EXCEPT ![t] = v], pc[t] \notin {"size", "walk", "remove"}
  PROVE  Cardinality(Trimming') = Cardinality(Trimming) + 1
<1>1. Trimming' = Trimming \cup {t} /\ t \notin Trimming
  BY DEF Trimming, TypeOK
<1> QED BY <1>1, Counts, FS_AddElement

LEMMA TrimmingShrinks ==
  ASSUME NEW t \in Threads, NEW v, v \notin {"size", "walk", "remove"}, TypeOK,
         pc' = [pc EXCEPT ![t] = v], pc[t] \in {"size", "walk", "remove"}
  PROVE  Cardinality(Trimming') = Cardinality(Trimming) - 1
<1>1. Trimming' = Trimming \ {t} /\ t \in Trimming
  BY DEF Trimming, TypeOK
<1> QED BY <1>1, Counts, FS_RemoveElement

-----------------------------------------------------------------------------
\* What each step does to the interval and to Settled.
LEMMA SettledSteps ==
  ASSUME IInv, [Next]_vars
  PROVE  /\ Settled \in Int /\ Settled' \in Int
         /\ TypeOK'
         /\ IntervalOK'
         /\ Settled' >= Settled
<1>t. TypeOK /\ Cardinality(Trimming) \in Nat /\ Settled >= 0 /\ lo <= hi + 1
  BY Counts DEF IInv, DebtsCovered, IntervalOK
<1>0. Settled \in Int
  BY <1>t DEF Settled, Retained, TypeOK
<1>1. CASE UNCHANGED vars
  BY <1>t, <1>0, <1>1 DEF vars, TypeOK, IntervalOK, Settled, Retained, Trimming
<1>2. ASSUME NEW t \in Threads, AddFirst(t)
      PROVE  TypeOK' /\ IntervalOK' /\ Settled' = Settled
  <2>1. Cardinality(Trimming') = Cardinality(Trimming) + 1
    BY <1>2, <1>t, TrimmingGrows DEF AddFirst
  <2>2. TypeOK' /\ IntervalOK'
    BY <1>2, <1>t DEF AddFirst, TypeOK, IntervalOK
  <2> QED BY <1>2, <1>t, <2>1, <2>2 DEF AddFirst, Settled, Retained, TypeOK
<1>3. ASSUME NEW t \in Threads, StartWalk(t)
      PROVE  TypeOK' /\ IntervalOK' /\ Settled' = Settled
  <2>1. Trimming' = Trimming
    BY <1>3, <1>t, TrimmingSame DEF StartWalk
  <2>2. TypeOK' /\ IntervalOK'
    BY <1>3, <1>t DEF StartWalk, TypeOK, IntervalOK
  <2> QED BY <1>3, <2>1, <2>2 DEF StartWalk, Settled, Retained
<1>4. ASSUME NEW t \in Threads, Walk(t)
      PROVE  TypeOK' /\ IntervalOK' /\ Settled' = Settled
  <2>1. Trimming' = Trimming
    BY <1>4 DEF Walk, Trimming
  <2>2. cursor[t] - 1 \in Nat /\ seen[t] + 1 \in Nat
    BY <1>4, <1>t DEF Walk, TypeOK
  <2>3. TypeOK' /\ IntervalOK'
    BY <1>4, <1>t, <2>2 DEF Walk, TypeOK, IntervalOK
  <2> QED BY <1>4, <2>1, <2>3 DEF Walk, Settled, Retained
<1>5. ASSUME NEW t \in Threads, RestartWalk(t)
      PROVE  TypeOK' /\ IntervalOK' /\ Settled' = Settled
  <2>1. Trimming' = Trimming
    BY <1>5, <1>t, TrimmingSame DEF RestartWalk
  <2>2. TypeOK' /\ IntervalOK'
    BY <1>5, <1>t DEF RestartWalk, TypeOK, IntervalOK
  <2> QED BY <1>5, <2>1, <2>2 DEF RestartWalk, Settled, Retained
<1>6. ASSUME NEW t \in Threads, EndWalk(t), TooMany(seen[t])
      PROVE  TypeOK' /\ IntervalOK' /\ Settled' = Settled
  <2>1. Trimming' = Trimming
    BY <1>6, <1>t, TrimmingSame DEF EndWalk
  <2>2. TypeOK' /\ IntervalOK'
    BY <1>6, <1>t DEF EndWalk, TypeOK, IntervalOK
  <2> QED BY <1>6, <2>1, <2>2 DEF EndWalk, Settled, Retained
<1>7. ASSUME NEW t \in Threads, EndWalk(t), ~TooMany(seen[t])
      PROVE  TypeOK' /\ IntervalOK' /\ Settled' = Settled + 1
  <2>1. Cardinality(Trimming') = Cardinality(Trimming) - 1
    BY <1>7, <1>t, TrimmingShrinks DEF EndWalk
  <2>2. TypeOK' /\ IntervalOK'
    BY <1>7, <1>t DEF EndWalk, TypeOK, IntervalOK
  <2> QED BY <1>7, <1>t, <2>1, <2>2 DEF EndWalk, Settled, Retained, TypeOK
<1>8. ASSUME NEW t \in Threads, RemoveLast(t)
      PROVE  TypeOK' /\ IntervalOK' /\ Settled' = Settled
  <2>1. Cardinality(Trimming') = Cardinality(Trimming) - 1
    BY <1>8, <1>t, TrimmingShrinks DEF RemoveLast
  <2>2. TypeOK' /\ IntervalOK'
    BY <1>8, <1>t DEF RemoveLast, TypeOK, IntervalOK, Retained
  <2> QED BY <1>8, <1>t, <2>1, <2>2 DEF RemoveLast, Settled, Retained, TypeOK
<1>9. ASSUME NEW t \in Threads, Evaluate(t)
      PROVE  TypeOK' /\ IntervalOK' /\ Settled' = Settled
  <2>1. Trimming' = Trimming
    BY <1>9, <1>t, TrimmingSame DEF Evaluate
  <2>2. TypeOK' /\ IntervalOK'
    BY <1>9, <1>t DEF Evaluate, TypeOK, IntervalOK
  <2> QED BY <1>9, <2>1, <2>2 DEF Evaluate, Settled, Retained
<1> QED BY <1>0, <1>1, <1>2, <1>3, <1>4, <1>5, <1>6, <1>7, <1>8, <1>9 DEF Next, Record

-----------------------------------------------------------------------------
\* A walk that is not taken further by a step can still count no more than
\* before it.
LEMMA AheadOfOthers ==
  ASSUME TypeOK, NEW u \in Threads, cursor'[u] = cursor[u], lo' \in {lo, lo + 1}
  PROVE  Ahead(u)' <= Ahead(u) /\ Ahead(u) \in Nat /\ Ahead(u)' \in Nat
BY DEF Ahead, TypeOK

\* A sum that exceeds a bound still does when a term has grown.
LEMMA StillOver ==
  ASSUME NEW a \in Int, NEW b \in Int, b >= a, NEW c \in Nat, NEW m \in Nat, a + c > m
  PROVE  b + c > m
OBVIOUS

\* No step lets a walk count more than Settled + k, and a thread that decides
\* to remove an event has counted more than MAX_EVENTS.
LEMMA WalkSteps ==
  ASSUME IInv, [Next]_vars
  PROVE  WalksBounded' /\ RemovalsJustified'
<1>t. TypeOK /\ WalksBounded /\ RemovalsJustified /\ lo <= hi + 1
  BY DEF IInv, IntervalOK
<1>s. Settled \in Int /\ Settled' \in Int /\ Settled' >= Settled /\ TypeOK'
  BY SettledSteps
<1>k. k \in Nat /\ k' = k /\ MAX_EVENTS \in Nat
  BY Counts, StoreAssumption DEF k
<1>u. UNCHANGED vars \/ \E t \in Threads : AddFirst(t) \/ Record(t)
  BY DEF Next
\* The threads a step does not touch.
<1>o. ASSUME NEW u \in Threads, pc'[u] = pc[u], cursor'[u] = cursor[u], seen'[u] = seen[u],
             lo' \in {lo, lo + 1}
      PROVE  /\ pc'[u] = "walk" => seen'[u] + Ahead(u)' <= Settled' + k
             /\ pc'[u] = "remove" => Settled' + k > MAX_EVENTS
  <2>1. Ahead(u)' <= Ahead(u) /\ Ahead(u) \in Nat /\ Ahead(u)' \in Nat
    BY <1>t, <1>o, AheadOfOthers
  <2>2. seen[u] \in Nat
    BY <1>t DEF TypeOK
  <2>3. pc[u] = "walk" => seen[u] + Ahead(u) <= Settled + k
    BY <1>t DEF WalksBounded
  <2>4. pc[u] = "remove" => Settled + k > MAX_EVENTS
    BY <1>t DEF RemovalsJustified
  <2>5. pc[u] = "walk" => seen[u] + Ahead(u)' <= Settled' + k
    BY <1>s, <1>k, <2>1, <2>2, <2>3
  <2>6. pc[u] = "remove" => Settled' + k > MAX_EVENTS
    <3>1. Settled + k > MAX_EVENTS => Settled' + k > MAX_EVENTS
      BY <1>s, <1>k, StillOver
    <3> QED BY <2>4, <3>1
  <2> QED BY <1>o, <2>5, <2>6
\* The thread that takes the step.
<1>m. ASSUME NEW t \in Threads, AddFirst(t) \/ Record(t)
      PROVE  /\ pc'[t] = "walk" => seen'[t] + Ahead(t)' <= Settled' + k
             /\ pc'[t] = "remove" => Settled' + k > MAX_EVENTS
  <2>0. seen[t] \in Nat /\ cursor[t] \in Nat /\ lo \in Nat /\ hi \in Nat
    BY <1>t DEF TypeOK
  <2>1. CASE AddFirst(t)
    BY <1>t, <2>1 DEF AddFirst, TypeOK
  <2>2. CASE StartWalk(t)
    <3>1. pc'[t] = "walk" /\ seen'[t] = 0 /\ cursor'[t] = hi /\ lo' = lo /\ hi' = hi
      BY <1>t, <2>2 DEF StartWalk, TypeOK
    <3>2. Trimming' = Trimming
      BY <1>t, <2>2, TrimmingSame DEF StartWalk
    <3>3. Ahead(t)' = hi - lo + 1
      BY <1>t, <2>0, <3>1 DEF Ahead
    <3> QED BY <1>k, <2>0, <3>1, <3>2, <3>3, Counts DEF Settled, Retained
  <2>3. CASE Walk(t)
    <3>1. /\ pc[t] = "walk" /\ pc'[t] = "walk" /\ lo' = lo /\ cursor[t] >= lo
          /\ seen'[t] = seen[t] + 1 /\ cursor'[t] = cursor[t] - 1
      BY <1>t, <2>3 DEF Walk, TypeOK
    <3>2. Ahead(t)' = Ahead(t) - 1 /\ Ahead(t) \in Nat
      BY <2>0, <3>1 DEF Ahead
    <3> QED BY <1>t, <1>s, <1>k, <2>0, <3>1, <3>2 DEF WalksBounded
  <2>4. CASE RestartWalk(t)
    BY <1>t, <2>4 DEF RestartWalk, TypeOK
  <2>5. CASE EndWalk(t)
    <3>1. pc[t] = "walk" /\ cursor[t] < lo /\ pc'[t] \in {"remove", "evaluate"}
      BY <1>t, <2>5 DEF EndWalk, TypeOK
    <3>2. pc'[t] = "remove" => seen[t] > MAX_EVENTS
      BY <1>t, <2>5 DEF EndWalk, TooMany, TypeOK
    <3>3. Ahead(t) = 0
      BY <2>0, <3>1 DEF Ahead
    <3>4. seen[t] <= Settled + k
      BY <1>t, <2>0, <3>1, <3>3 DEF WalksBounded
    <3>5. seen[t] > MAX_EVENTS => Settled' + k > MAX_EVENTS
      BY <1>s, <1>k, <2>0, <3>4
    <3>6. pc'[t] = "remove" => Settled' + k > MAX_EVENTS
      BY <3>2, <3>5
    <3>7. pc'[t] # "walk"
      BY <3>1
    <3> QED BY <3>6, <3>7
  <2>6. CASE RemoveLast(t)
    BY <1>t, <2>6 DEF RemoveLast, TypeOK
  <2>7. CASE Evaluate(t)
    BY <1>t, <2>7 DEF Evaluate, TypeOK
  <2> QED BY <1>m, <2>1, <2>2, <2>3, <2>4, <2>5, <2>6, <2>7 DEF Record
<1>1. CASE UNCHANGED vars
  <2>1. \A u \in Threads : /\ pc'[u] = pc[u] /\ cursor'[u] = cursor[u]
                           /\ seen'[u] = seen[u] /\ lo' = lo
    BY <1>1 DEF vars
  <2> QED BY <1>o, <1>k, <2>1 DEF WalksBounded, RemovalsJustified
<1>2. ASSUME NEW t \in Threads, AddFirst(t) \/ Record(t)
      PROVE  WalksBounded' /\ RemovalsJustified'
  <2>1. lo' \in {lo, lo + 1}
    BY <1>2 DEF AddFirst, Record, StartWalk, Walk, RestartWalk, EndWalk, RemoveLast, Evaluate
  <2>2. \A u \in Threads \ {t} :
           pc'[u] = pc[u] /\ cursor'[u] = cursor[u] /\ seen'[u] = seen[u]
    BY <1>2, <1>t DEF AddFirst, Record, StartWalk, Walk, RestartWalk, EndWalk, RemoveLast,
                      Evaluate, TypeOK
  <2>3. \A u \in Threads \ {t} : /\ pc'[u] = "walk" => seen'[u] + Ahead(u)' <= Settled' + k
                                 /\ pc'[u] = "remove" => Settled' + k > MAX_EVENTS
    BY <1>o, <2>1, <2>2
  <2>4. /\ pc'[t] = "walk" => seen'[t] + Ahead(t)' <= Settled' + k
        /\ pc'[t] = "remove" => Settled' + k > MAX_EVENTS
    BY <1>2, <1>m
  <2> QED BY <1>k, <2>3, <2>4 DEF WalksBounded, RemovalsJustified
<1> QED BY <1>u, <1>1, <1>2

\* The arithmetic of the next lemma: s settled of h recorded, n the capacity.
LEMMA EnoughArithmetic ==
  ASSUME NEW s \in Int, NEW sn \in Int, NEW h \in Int, NEW hn \in Int,
         NEW m \in Nat, NEW n \in Nat,
         s >= MinOf(h, m + 1 - n), sn >= s,
         hn <= h \/ sn + n > m \/ (hn <= h + 1 /\ sn >= s + 1)
  PROVE  sn >= MinOf(hn, m + 1 - n)
BY DEF MinOf

\* Nothing is trimmed below the bound: a step that removes an event has
\* counted more than MAX_EVENTS.
LEMMA SettledStaysEnough ==
  ASSUME IInv, [Next]_vars
  PROVE  SettledEnough'
<1>t. TypeOK /\ SettledEnough /\ RemovalsJustified
  BY DEF IInv
<1>s. Settled \in Int /\ Settled' \in Int /\ Settled' >= Settled /\ TypeOK'
  BY SettledSteps
<1>k. /\ k \in Nat /\ k' = k /\ MAX_EVENTS \in Nat
      /\ Cardinality(Trimming) \in Nat /\ hi \in Int /\ hi' \in Int
  BY <1>t, <1>s, Counts, StoreAssumption DEF k, TypeOK
\* It is enough that Settled grows with what was recorded or is large.
<1>e. ASSUME Cardinality(Trimming') \in Nat,
             \/ hi' - Cardinality(Trimming') <= hi - Cardinality(Trimming)
             \/ Settled' + k > MAX_EVENTS
             \/ /\ hi' - Cardinality(Trimming') <= hi - Cardinality(Trimming) + 1
                /\ Settled' >= Settled + 1
      PROVE  SettledEnough'
  <2>1. hi - Cardinality(Trimming) \in Int /\ hi' - Cardinality(Trimming') \in Int
    BY <1>k, <1>e
  <2>2. Settled' >= MinOf(hi' - Cardinality(Trimming'), MAX_EVENTS + 1 - k)
    BY <1>t, <1>s, <1>k, <1>e, <2>1, EnoughArithmetic DEF SettledEnough
  <2> QED BY <1>k, <2>2 DEF SettledEnough, MinOf
<1>1. CASE UNCHANGED vars
  BY <1>1, <1>e, <1>k DEF vars, Trimming
<1>2. ASSUME NEW t \in Threads, AddFirst(t)
      PROVE  SettledEnough'
  <2>1. Cardinality(Trimming') = Cardinality(Trimming) + 1
    BY <1>2, <1>t, TrimmingGrows DEF AddFirst
  <2> QED BY <1>2, <1>k, <1>e, <2>1 DEF AddFirst
<1>3. ASSUME NEW t \in Threads,
             StartWalk(t) \/ Walk(t) \/ RestartWalk(t) \/ Evaluate(t)
      PROVE  SettledEnough'
  <2>1. Trimming' = Trimming
    <3>1. CASE StartWalk(t)
      BY <3>1, <1>t, TrimmingSame DEF StartWalk
    <3>2. CASE Walk(t)
      BY <3>2 DEF Walk, Trimming
    <3>3. CASE RestartWalk(t)
      BY <3>3, <1>t, TrimmingSame DEF RestartWalk
    <3>4. CASE Evaluate(t)
      BY <3>4, <1>t, TrimmingSame DEF Evaluate
    <3> QED BY <1>3, <3>1, <3>2, <3>3, <3>4
  <2>2. hi' = hi
    BY <1>3 DEF StartWalk, Walk, RestartWalk, Evaluate
  <2> QED BY <1>k, <1>e, <2>1, <2>2
<1>4. ASSUME NEW t \in Threads, EndWalk(t)
      PROVE  SettledEnough'
  <2>1. CASE TooMany(seen[t])
    <3>1. Trimming' = Trimming
      BY <1>4, <1>t, <2>1, TrimmingSame DEF EndWalk
    <3> QED BY <1>4, <1>k, <1>e, <3>1 DEF EndWalk
  <2>2. CASE ~TooMany(seen[t])
    <3>1. Cardinality(Trimming') = Cardinality(Trimming) - 1 /\ Cardinality(Trimming') \in Nat
      <4>1. t \in Trimming /\ Trimming' = Trimming \ {t}
        BY <1>4, <1>t, <2>2 DEF EndWalk, Trimming, TypeOK
      <4> QED BY <4>1, Counts, FS_RemoveElement, FS_CardinalityType
    <3>2. Settled' = Settled + 1
      BY <1>4, <1>t, <1>k, <3>1 DEF EndWalk, Settled, Retained, TypeOK
    <3>3. hi' - Cardinality(Trimming') <= hi - Cardinality(Trimming) + 1
      BY <1>4, <1>k, <3>1 DEF EndWalk
    <3>4. Settled' >= Settled + 1
      BY <1>s, <3>2
    <3> QED BY <1>e, <3>1, <3>3, <3>4
  <2> QED BY <2>1, <2>2
<1>5. ASSUME NEW t \in Threads, RemoveLast(t)
      PROVE  SettledEnough'
  <2>1. t \in Trimming /\ Trimming' = Trimming \ {t}
    BY <1>5, <1>t DEF RemoveLast, Trimming, TypeOK
  <2>2. Cardinality(Trimming') \in Nat
    BY <2>1, Counts, FS_RemoveElement, FS_CardinalityType
  <2>3. Settled + k > MAX_EVENTS
    BY <1>5, <1>t DEF RemoveLast, RemovalsJustified
  <2>4. Settled' + k > MAX_EVENTS
    BY <1>s, <1>k, <2>3, StillOver
  <2> QED BY <1>e, <2>2, <2>4
<1> QED BY <1>1, <1>2, <1>3, <1>4, <1>5 DEF Next, Record

-----------------------------------------------------------------------------
\* The invariant is inductive.
THEOREM Inductive == Spec => []IInv
<1>1. Init => IInv
  <2> SUFFICES ASSUME Init PROVE IInv
    OBVIOUS
  <2>1. TypeOK
    BY DEF Init, TypeOK
  <2>2. Trimming = {}
    BY DEF Init, Trimming
  <2>3. Cardinality(Trimming) = 0
    BY <2>2, FS_EmptySet
  <2>4. Retained = 0 /\ hi = 0 /\ lo = 1
    BY DEF Init, Retained
  <2>5. Settled = 0
    BY <2>3, <2>4 DEF Settled
  <2>6. WalksBounded /\ RemovalsJustified
    BY DEF Init, WalksBounded, RemovalsJustified
  <2>7. k \in Nat /\ MAX_EVENTS \in Nat
    BY Counts, StoreAssumption
  <2>8. SettledEnough
    BY <2>3, <2>4, <2>5, <2>7 DEF SettledEnough, MinOf
  <2> QED BY <2>1, <2>4, <2>5, <2>6, <2>8 DEF IInv, IntervalOK, DebtsCovered
<1>2. IInv /\ [Next]_vars => IInv'
  <2> SUFFICES ASSUME IInv, [Next]_vars PROVE IInv'
    OBVIOUS
  <2>1. TypeOK' /\ IntervalOK' /\ Settled \in Int /\ Settled' \in Int /\ Settled' >= Settled
    BY SettledSteps
  <2>2. DebtsCovered'
    BY <2>1 DEF IInv, DebtsCovered
  <2> QED BY <2>1, <2>2, WalkSteps, SettledStaysEnough DEF IInv
<1> QED BY <1>1, <1>2, PTL DEF Spec

\* The state of the buffer and of the threads in recordEvent is well typed.
THEOREM TypeCorrect == Spec => []TypeOK
<1>1. IInv => TypeOK
  BY DEF IInv
<1> QED BY <1>1, Inductive, PTL

\* removeLast() never throws, for any number of threads.
THEOREM RemovalsFindAnEvent == Spec => []RemoveNeverThrows
<1>1. IInv => RemoveNeverThrows
  <2> SUFFICES ASSUME IInv, NEW t \in Threads, pc[t] = "remove"
               PROVE  Retained > 0
    BY DEF RemoveNeverThrows
  <2>1. t \in Trimming
    BY DEF Trimming
  <2>2. Cardinality(Trimming) \in Nat /\ Cardinality(Trimming) # 0
    BY <2>1, Counts, FS_EmptySet
  <2>3. Retained \in Int /\ Settled >= 0
    BY DEF IInv, DebtsCovered, TypeOK, Retained
  <2> QED BY <2>2, <2>3 DEF Settled
<1> QED BY <1>1, Inductive, PTL

\* The buffer keeps everything recorded, or all of its capacity but one event
\* for each thread other than the one that trims.
THEOREM BufferKeepsEnough == Spec => []EnoughRetained
<1>1. IInv => EnoughRetained
  <2> SUFFICES ASSUME IInv PROVE EnoughRetained
    OBVIOUS
  <2>1. /\ Cardinality(Trimming) \in Nat /\ k \in Nat /\ MAX_EVENTS \in Nat
        /\ hi \in Nat /\ Retained \in Int
    BY Counts, StoreAssumption DEF IInv, TypeOK, Retained
  <2>2. Settled >= MinOf(hi - Cardinality(Trimming), MAX_EVENTS + 1 - k)
    BY DEF IInv, SettledEnough
  <2> QED BY <2>1, <2>2 DEF EnoughRetained, Settled, MinOf, k
<1> QED BY <1>1, Inductive, PTL

\* No step lowers the number of events that remain when the threads are done.
THEOREM SettledMonotone == Spec => SettledNeverFalls
<1>1. IInv /\ [Next]_vars => [Settled' >= Settled]_vars
  BY SettledSteps
<1> QED BY <1>1, Inductive, PTL DEF Spec, SettledNeverFalls

-----------------------------------------------------------------------------
(* The alert rules.                                                        *)

\* Every time put into cooldown has its alert.
PutsHaveAlert ==
  \A r \in Rules : \A p \in puts[r] :
     p <= now /\ \E a \in Raised : a.rule = r /\ a.put = p

AlertsInv == /\ AlertsTypeOK
             /\ PutsHaveAlert
             /\ SuppressedHasAlert

-----------------------------------------------------------------------------
\* A step of the whole of recordEvent is one of the buffer, or none.
LEMMA StoreSteps ==
  ASSUME [AlertsNext]_allVars
  PROVE  [Next]_vars
<1>1. CASE UNCHANGED allVars
  BY <1>1 DEF allVars, storeVars, vars
<1>2. ASSUME NEW t \in Threads, AddFirst(t)
      PROVE  [Next]_vars
  BY <1>2 DEF Next
<1>3. ASSUME NEW t \in Threads, Buffer(t)
      PROVE  [Next]_vars
  BY <1>3 DEF Buffer, Next, Record
<1>4. ASSUME NEW t \in Threads, NextRule(t)
      PROVE  [Next]_vars
  BY <1>4 DEF NextRule, Next, Record, storeVars, vars
<1>5. ASSUME NEW t \in Threads, EvaluateAlerts(t)
      PROVE  [Next]_vars
  BY <1>4, <1>5 DEF EvaluateAlerts, RuleHolds, CanAlert, CannotAlert, Put, AddAlert, storeVars, vars
<1>6. CASE Tick
  BY <1>6 DEF Tick, storeVars, vars
<1> QED BY <1>1, <1>2, <1>3, <1>5, <1>6 DEF AlertsNext, RecordEvent

\* With its alert rules, the store does to its buffer what MetricsStore says.
THEOREM AlertsImplementStore == AlertsSpec => Spec
<1>1. AlertsInit => Init
  BY DEF AlertsInit
<1> QED BY <1>1, StoreSteps, PTL DEF AlertsSpec, Spec

\* removeLast() never throws, so no event is recorded without its rules being
\* evaluated.
THEOREM AlertsRemovalsFindAnEvent == AlertsSpec => []RemoveNeverThrows
BY AlertsImplementStore, RemovalsFindAnEvent, PTL

\* The buffer keeps everything recorded, or all of its capacity but one event
\* for each thread other than the one that trims.
THEOREM AlertsKeepEnough == AlertsSpec => []EnoughRetained
BY AlertsImplementStore, BufferKeepsEnough, PTL

-----------------------------------------------------------------------------
\* What NextRule leaves of the threads' state.
LEMMA NextRuleTypes ==
  ASSUME AlertsTypeOK, NEW t \in Threads, NextRule(t)
  PROVE  /\ rule' \in [Threads -> Rules]
         /\ step' \in [Threads -> {"check", "put", "add"}]
         /\ step' = [step EXCEPT ![t] = "check"]
         /\ \A u \in Threads \ {t} : rule'[u] = rule[u]
BY DEF NextRule, AlertsTypeOK, Rules

\* The types, but for those of the buffer's variables.
LEMMA AlertTypes ==
  ASSUME AlertsTypeOK, TypeOK', [AlertsNext]_allVars
  PROVE  AlertsTypeOK'
<1>1. CASE UNCHANGED allVars
  BY <1>1 DEF allVars, alertVars, AlertsTypeOK
<1>2. ASSUME UNCHANGED <<now, alertVars>>
      PROVE  AlertsTypeOK'
  BY <1>2 DEF alertVars, AlertsTypeOK
<1>3. ASSUME NEW t \in Threads, RuleHolds(t)
      PROVE  AlertsTypeOK'
  BY <1>3, NextRuleTypes DEF RuleHolds, AlertsTypeOK
<1>4. ASSUME NEW t \in Threads, CanAlert(t)
      PROVE  AlertsTypeOK'
  BY <1>4 DEF CanAlert, AlertsTypeOK
<1>5. ASSUME NEW t \in Threads, CannotAlert(t)
      PROVE  AlertsTypeOK'
  <2>1. [rule |-> rule[t], at |-> now] \in [rule : Rules, at : Nat]
    BY DEF AlertsTypeOK
  <2> QED BY <1>5, <2>1, NextRuleTypes DEF CannotAlert, PutWhenSuppressed, AlertsTypeOK
<1>6. ASSUME NEW t \in Threads, Put(t)
      PROVE  AlertsTypeOK'
  BY <1>6 DEF Put, AlertsTypeOK
<1>7. ASSUME NEW t \in Threads, AddAlert(t)
      PROVE  AlertsTypeOK'
  <2>1. [rule |-> rule[t], put |-> putAt[t]] \in [rule : Rules, put : Nat]
    BY DEF AlertsTypeOK
  <2> QED BY <1>7, <2>1, NextRuleTypes DEF AddAlert, AlertsTypeOK
<1>8. CASE Tick
  BY <1>8 DEF Tick, alertVars, AlertsTypeOK
<1> QED BY <1>1, <1>2, <1>3, <1>4, <1>5, <1>6, <1>7, <1>8
        DEF AlertsNext, RecordEvent, EvaluateAlerts

\* No step takes an alert away that is raised.
LEMMA RaisedStays ==
  ASSUME AlertsTypeOK, [AlertsNext]_allVars
  PROVE  Raised \subseteq Raised'
<1>1. ASSUME UNCHANGED alertVars
      PROVE  Raised' = Raised
  BY <1>1 DEF alertVars, Raised
<1>2. ASSUME NEW t \in Threads, step[t] # "add", alerts' = alerts, putAt' = putAt,
             \A u \in Threads \ {t} : step'[u] = step[u] /\ rule'[u] = rule[u]
      PROVE  Raised \subseteq Raised'
  BY <1>2 DEF Raised
<1>3. ASSUME NEW t \in Threads, NextRule(t), step[t] = "check", alerts' = alerts, putAt' = putAt
      PROVE  Raised \subseteq Raised'
  <2>1. \A u \in Threads \ {t} : step'[u] = step[u] /\ rule'[u] = rule[u]
    BY <1>3, NextRuleTypes DEF AlertsTypeOK
  <2> QED BY <1>2, <1>3, <2>1
<1>4. ASSUME NEW t \in Threads, CanAlert(t)
      PROVE  Raised \subseteq Raised'
  BY <1>2, <1>4 DEF CanAlert, Evaluating, AlertsTypeOK
<1>5. ASSUME NEW t \in Threads, Put(t)
      PROVE  Raised \subseteq Raised'
  BY <1>5 DEF Put, Raised, AlertsTypeOK
<1>6. ASSUME NEW t \in Threads, AddAlert(t)
      PROVE  Raised \subseteq Raised'
  <2>1. \A u \in Threads \ {t} : step'[u] = step[u] /\ rule'[u] = rule[u]
    BY <1>6, NextRuleTypes DEF AddAlert, AlertsTypeOK
  <2>2. alerts' = alerts \cup {[rule |-> rule[t], put |-> putAt[t]]} /\ putAt' = putAt
    BY <1>6 DEF AddAlert
  <2> QED BY <2>1, <2>2 DEF Raised
<1> QED BY <1>1, <1>3, <1>4, <1>5, <1>6
        DEF AlertsNext, RecordEvent, EvaluateAlerts, RuleHolds, CannotAlert, Tick,
            Evaluating, allVars

-----------------------------------------------------------------------------
\* puts only grows by the time now of a thread that goes on to add its alert.
LEMMA PutSteps ==
  ASSUME AlertsTypeOK, PutsHaveAlert, [AlertsNext]_allVars
  PROVE  PutsHaveAlert'
<1>r. Raised \subseteq Raised'
  BY RaisedStays
<1>1. ASSUME puts' = puts, now' \in Nat, now <= now'
      PROVE  PutsHaveAlert'
  <2> SUFFICES ASSUME NEW r \in Rules, NEW p \in puts[r]
               PROVE  p <= now' /\ \E a \in Raised' : a.rule = r /\ a.put = p
    BY <1>1 DEF PutsHaveAlert
  <2>1. p \in Nat /\ now \in Nat /\ p <= now /\ \E a \in Raised : a.rule = r /\ a.put = p
    BY DEF PutsHaveAlert, AlertsTypeOK
  <2> QED BY <1>r, <1>1, <2>1
<1>2. ASSUME NEW t \in Threads, Put(t)
      PROVE  PutsHaveAlert'
  <2> SUFFICES ASSUME NEW r \in Rules, NEW p \in puts'[r]
               PROVE  p <= now' /\ \E a \in Raised' : a.rule = r /\ a.put = p
    BY DEF PutsHaveAlert
  <2>0. now' = now /\ now \in Nat
    BY <1>2 DEF Put, AlertsTypeOK
  <2>1. CASE p \in puts[r]
    BY <1>r, <2>0, <2>1 DEF PutsHaveAlert
  <2>2. CASE p \notin puts[r]
    <3>1. r = rule[t] /\ p = now
      BY <1>2, <2>2 DEF Put, AlertsTypeOK
    <3>2. step'[t] = "add" /\ rule'[t] = r /\ putAt'[t] = p
      BY <1>2, <3>1 DEF Put, AlertsTypeOK
    <3>3. [rule |-> r, put |-> p] \in Raised'
      BY <3>2 DEF Raised
    <3> QED BY <2>0, <3>1, <3>3
  <2> QED BY <2>1, <2>2
<1>n. now \in Nat /\ MaxTime \in Nat
  BY DemoAlertsAssumption DEF AlertsTypeOK
<1>3. puts' = puts /\ now' = now => PutsHaveAlert'
  BY <1>1, <1>n
<1>4. CASE Tick
  BY <1>1, <1>4, <1>n DEF Tick, alertVars
<1> QED BY <1>2, <1>3, <1>4
        DEF AlertsNext, RecordEvent, EvaluateAlerts, RuleHolds, CanAlert, CannotAlert,
            PutWhenSuppressed, AddAlert, allVars, alertVars

\* A breach that is suppressed has read a time less than a cooldown old.
LEMMA SuppressedSteps ==
  ASSUME AlertsTypeOK, PutsHaveAlert, SuppressedHasAlert, [AlertsNext]_allVars
  PROVE  SuppressedHasAlert'
<1>r. Raised \subseteq Raised'
  BY RaisedStays
<1>1. ASSUME suppressed' = suppressed
      PROVE  SuppressedHasAlert'
  BY <1>r, <1>1 DEF SuppressedHasAlert
<1>2. ASSUME NEW t \in Threads, CannotAlert(t)
      PROVE  SuppressedHasAlert'
  <2> SUFFICES ASSUME NEW s \in suppressed'
               PROVE  \E a \in Raised' : a.rule = s.rule /\ a.put <= s.at /\ s.at <= a.put + Cooldown
    BY DEF SuppressedHasAlert
  <2>1. CASE s \in suppressed
    BY <1>r, <2>1 DEF SuppressedHasAlert
  <2>2. CASE s = [rule |-> rule[t], at |-> now]
    <3>1. PICK last \in puts[rule[t]] \cup {Never} : ~CooledDown(last)
      BY <1>2 DEF CannotAlert, LastAlert
    <3>2. last \in puts[rule[t]] /\ ~(now > last + Cooldown)
      BY <3>1 DEF CooledDown
    <3>3. rule[t] \in Rules /\ now \in Nat /\ last \in Nat /\ Cooldown \in Nat
      BY <3>2, DemoAlertsAssumption DEF AlertsTypeOK
    <3>4. last <= now /\ \E a \in Raised : a.rule = rule[t] /\ a.put = last
      BY <3>2, <3>3 DEF PutsHaveAlert
    <3>5. now <= last + Cooldown
      BY <3>2, <3>3
    <3> QED BY <1>r, <2>2, <3>4, <3>5
  <2> QED BY <1>2, <2>1, <2>2 DEF CannotAlert
<1> QED BY <1>1, <1>2
        DEF AlertsNext, RecordEvent, EvaluateAlerts, RuleHolds, CanAlert, Put,
            AddAlert, Tick, allVars, alertVars

\* The invariant of the alerts is inductive, given that of the buffer.
THEOREM AlertsInductive == AlertsSpec => []AlertsInv
<1>1. AlertsInit /\ TypeOK => AlertsInv
  BY DEF AlertsInit, AlertsInv, AlertsTypeOK, PutsHaveAlert, SuppressedHasAlert, Rules
<1>2. AlertsInv /\ TypeOK' /\ [AlertsNext]_allVars => AlertsInv'
  BY AlertTypes, PutSteps, SuppressedSteps DEF AlertsInv
<1> QED BY <1>1, <1>2, AlertsImplementStore, TypeCorrect, PTL DEF AlertsSpec

\* The buffer, the cooldown map and the alerts are well typed.
THEOREM AlertsTypeCorrect == AlertsSpec => []AlertsTypeOK
<1>1. AlertsInv => AlertsTypeOK
  BY DEF AlertsInv
<1> QED BY <1>1, AlertsInductive, PTL

\* Whatever a racing HashMap returns, a breach that raises no alert follows an
\* alert of its rule by no more than the cooldown.
THEOREM NoSilence == AlertsSpec => []SuppressedHasAlert
<1>1. AlertsInv => SuppressedHasAlert
  BY DEF AlertsInv
<1> QED BY <1>1, AlertsInductive, PTL
=============================================================================
