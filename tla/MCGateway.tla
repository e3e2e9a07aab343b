----------------------------- MODULE MCGateway -----------------------------
(* Small instances of Gateway for TLC. *)
EXTENDS Gateway, TLC

CONSTANTS r1, r2, r3, l1, l2

MCLoopOf == r1 :> l1 @@ r2 :> l1 @@ r3 :> l2
=============================================================================
