--------------------------- MODULE MCEventIngest ---------------------------
(* Small instances of EventIngest for TLC. *)
EXTENDS EventIngest, TLC

CONSTANTS t1, t2, r1, r2, e1, bad, p1

\* Two replicas with one listener thread each, a valid event and an invalid
\* payload, either of which may be sent twice, one partition (the broker's
\* default for a topic created on first use).
MCThreads == {t1, t2}
MCReplicas == {r1, r2}
MCReplicaOf == t1 :> r1 @@ t2 :> r2
MCEvents == {e1, bad}
MCPoison == {bad}
MCPartitions == {p1}
MCPartitionOf == [e \in MCEvents |-> p1]
=============================================================================
