--------------------------- MODULE MCAlertsPoller ---------------------------
(* Small instances of AlertsPoller for TLC.  A tick stands for 15 seconds.  *)
EXTENDS AlertsPoller, TLC

AlertSymmetry == Permutations(Alerts)
=============================================================================
