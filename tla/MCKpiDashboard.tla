--------------------------- MODULE MCKpiDashboard ---------------------------
(* Small instances of KpiDashboard for TLC. *)
EXTENDS KpiDashboard, TLC

CONSTANTS q1, q2

MCPolls == {q1, q2}
=============================================================================
