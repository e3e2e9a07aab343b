----------------------------- MODULE MCPipeline -----------------------------
(* Small instances of Pipeline for TLC. *)
EXTENDS Pipeline, TLC

CONSTANTS r1, bad, t1, t2, s1, s2, p1, l1

\* A request, an invalid payload of another program, one
\* partition, two replicas of the analytics-service with one thread each.
MCEvents == {r1, bad}
MCLoopOf == r1 :> l1
MCReplicaOf == t1 :> s1 @@ t2 :> s2
MCPartitionOf == [e \in MCEvents |-> p1]
=============================================================================
