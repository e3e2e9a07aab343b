---------------------------- MODULE AtLeastOnce ----------------------------
(***************************************************************************)
(* What a consumer group promises about its topic, with threads, batches,  *)
(* retries, dead letters, alerts, crashes and rebalances hidden: the group *)
(* may only move its committed offset past records that are settled, never *)
(* moves it back, and never unsettles a record.                            *)
(*                                                                         *)
(* EventIngest is shown to implement this module for api-events, where a   *)
(* record is settled when it is indexed or dead-lettered, and AlertService *)
(* for analytics-events, where each breach of a readable record has to be  *)
(* alerted or suppressed and an unreadable record is only skipped.         *)
(***************************************************************************)
EXTENDS Naturals

CONSTANTS Partitions

VARIABLES
  length,     \* length[p]: records appended to partition p so far
  offset,     \* offset[p]: records of p the group has committed
  settled     \* <<p, i>> for every record whose fate is decided

aloVars == <<length, offset, settled>>

AloInit == /\ length = [p \in Partitions |-> 0]
           /\ offset = [p \in Partitions |-> 0]
           /\ settled = {}

\* A producer appends a record.  A copy of an event that was settled before
\* (the producer retried a send), or a record that asks for nothing, is settled
\* as it arrives.
Arrive(p) == /\ length' = [length EXCEPT ![p] = @ + 1]
             /\ settled' \in {settled, settled \cup {<<p, length[p] + 1>>}}
             /\ UNCHANGED offset

\* Any records of the topic become settled, in any order and several at once.
Settle == /\ settled \subseteq settled'
          /\ \A r \in settled' : r[1] \in Partitions /\ r[2] \in 1..length[r[1]]
          /\ UNCHANGED <<length, offset>>

\* The committed offset of p jumps forward over settled records only.
CommitTo(p, n) == /\ offset[p] <= n
                  /\ n <= length[p]
                  /\ \A i \in 1..n : <<p, i>> \in settled
                  /\ offset' = [offset EXCEPT ![p] = n]
                  /\ UNCHANGED <<length, settled>>

AloNext == \/ \E p \in Partitions : Arrive(p)
           \/ Settle
           \/ \E p \in Partitions : \E n \in 0..length[p] : CommitTo(p, n)

AloSpec == AloInit /\ [][AloNext]_aloVars
=============================================================================
