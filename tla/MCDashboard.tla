---------------------------- MODULE MCDashboard ----------------------------
(* Small instances of Dashboard for TLC. *)
EXTENDS Dashboard, TLC

CONSTANTS c1, c2

MCLevelOf == [n \in Lines |-> IF n = 2 THEN "WARN" ELSE "INFO"]
=============================================================================
