---------------------------- MODULE MCDemoAlerts ----------------------------
(* Small instances of DemoAlerts for TLC. *)
EXTENDS DemoAlerts, TLC

CONSTANTS t1, t2

MCThreads == {t1, t2}
=============================================================================
