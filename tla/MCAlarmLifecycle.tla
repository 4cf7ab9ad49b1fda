--------------------------- MODULE MCAlarmLifecycle ---------------------------
(* AlarmLifecycle with one named actor and two time points.                 *)
EXTENDS AlarmLifecycle
=============================================================================
