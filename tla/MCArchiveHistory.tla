--------------------------- MODULE MCArchiveHistory ---------------------------
(* ArchiveHistory for every policy, with and without a minimum interval, a   *)
(* deadband that some steps reach and some do not, and a clock that may be   *)
(* missing, advance by less or more than the intervals, or be set back.      *)
EXTENDS ArchiveHistory

With(policy, periodic, minimum, deadband, first) ==
  [policy |-> policy, periodic_interval_ms |-> periodic, min_interval_ms |-> minimum,
   deadband |-> deadband, archive_first_sample |-> first]

MCSetups ==
  {With("OnChange", 3, 0, 0, TRUE), With("OnChange", 3, 2, 0, TRUE),
   With("OnChangeWithDeadband", 3, 0, 2, TRUE), With("OnChangeWithDeadband", 3, 0, 0, TRUE),
   With("Periodic", 3, 0, 0, TRUE), With("Periodic", 1, 2, 0, TRUE),
   With("AlwaysButThrottled", 3, 2, 0, TRUE), With("OnQualityChange", 3, 0, 0, TRUE),
   With("OnAlarm", 3, 2, 0, TRUE), With("OnAlarm", 3, 0, 0, FALSE),
   With("Disabled", 3, 0, 0, TRUE)}

MCNumerals == {0, 1, 3, NaN}
=============================================================================
