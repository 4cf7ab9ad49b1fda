-------------------------- MODULE MCHistorianBuffer --------------------------
(* HistorianBuffer on a small instance: capacities 0 (normalised to 1) to   *)
(* 3, every threshold around them, both loss policies.                      *)
EXTENDS HistorianBuffer

MCOptionChoices ==
  [max_samples : {0, 2, 3}, flush_threshold : {0, 2, 5},
   drop_oldest_when_full : BOOLEAN]
=============================================================================
