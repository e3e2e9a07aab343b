--------------------------- MODULE MCAlertService ---------------------------
(* Small instances of AlertService for TLC. *)
EXTENDS AlertService, TLC

CONSTANTS t1, t2, k1, p1, garbage

MCPartitionOf == k1 :> p1

\* One tenant and endpoint, too slow: one rule is breached, one holds.
MCAggregations == {[key |-> k1, enough |-> TRUE, breaches |-> {"LATENCY_HIGH"}]}
=============================================================================
