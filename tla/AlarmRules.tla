------------------------------- MODULE AlarmRules -------------------------------
(***************************************************************************)
(* Alarm rules on the current values of tags: evaluate_alarm_rule of       *)
(* scada_alarms, a function of a rule and of a TagCurrentValue that        *)
(* RuntimeValues stores.  A match makes the record with which an           *)
(* AlarmLifecycle begins.                                                  *)
(*                                                                         *)
(* Comparisons take values within a billionth for equal; numbers counted   *)
(* in halves are equal or further apart.  What a rule only copies into the *)
(* alarm and the wording of results are left out.                          *)
(***************************************************************************)
EXTENDS RuntimeValues

CONSTANTS
  Rules          \* the alarm rules that are evaluated

Comparisons == {"GreaterThan", "GreaterOrEqual", "LessThan", "LessOrEqual", "Equal", "NotEqual"}
NoQuality == "none"

Rule ==
  [type : {"NumericThreshold", "QualityEquals", "QualityNotGood", "QualityBad"},
   state : {"Draft", "Enabled", "Disabled"}, has_valid_identity : BOOLEAN,
   require_good_quality : BOOLEAN, comparison : Comparisons, threshold : Int,
   expected_quality : Qualities \cup {NoQuality}]

ASSUME RuleAssumption == Rules \subseteq Rule

-----------------------------------------------------------------------------
(* Evaluation *)

IsGoodQuality_AnyNotBad(quality) ==
  quality \notin {"Bad", "CommunicationError", "Timeout", "DeviceError", "ProtocolError"}

IsGoodQuality(quality) == quality \in {"Good", "Manual", "Simulation"}

IsBadQuality(quality) ==
  quality \in {"Bad", "CommunicationError", "Timeout", "DeviceError", "ProtocolError",
               "OutOfRange", "Stale", "Disabled", "NotInitialized"}

(* to_double of the alarms: a numeral in a text is no number here.         *)
HasDouble(payload) == payload.kind \in {"bool", "int", "double"}

(* compare_numeric: every comparison with a NaN is false.                  *)
Compare(actual, comparison, threshold) ==
  /\ actual # NaN
  /\ CASE comparison = "GreaterThan" -> actual > threshold
       [] comparison = "GreaterOrEqual" -> actual >= threshold
       [] comparison = "LessThan" -> actual < threshold
       [] comparison = "LessOrEqual" -> actual <= threshold
       [] comparison = "Equal" -> actual = threshold
       [] comparison = "NotEqual" -> actual # threshold

(* What the switch over the type of the rule decides.                      *)
Decide(rule, value) ==
  LET Matched(matches) == IF matches THEN "Matched" ELSE "NotMatched"
  IN CASE rule.type = "NumericThreshold" ->
            IF ~HasDouble(value.engineering) THEN "InvalidValue"
            ELSE Matched(Compare(value.engineering.num, rule.comparison, rule.threshold))
       [] rule.type = "QualityEquals" ->
            IF rule.expected_quality = NoQuality THEN "InvalidRule"
            ELSE Matched(value.quality = rule.expected_quality)
       [] rule.type = "QualityNotGood" -> Matched(~IsGoodQuality(value.quality))
       [] rule.type = "QualityBad" -> Matched(IsBadQuality(value.quality))

(* The status of evaluate_alarm_rule.                                      *)
Status(rule, value) ==
  CASE rule.state # "Enabled" -> "DisabledRule"
    [] rule.state = "Enabled" /\ ~rule.has_valid_identity -> "InvalidRule"
    [] rule.state = "Enabled" /\ rule.has_valid_identity ->
         IF rule.require_good_quality /\ ~IsGoodQuality(value.quality) THEN "NotMatched"
         ELSE Decide(rule, value)

Matches(rule, value) == Status(rule, value) = "Matched"

-----------------------------------------------------------------------------
(* Properties *)

(* The alarms and the runtime agree on what a good value is, though each   *)
(* has its own list of good qualities: an alarm of a rule that requires    *)
(* good quality is about the last good value of the tag, and a quality     *)
(* alarm is never raised on a value that has just become the last good     *)
(* one.                                                                    *)
AlarmsAgreeOnGood ==
  \A t \in DOMAIN store : \A rule \in {r \in Rules : Matches(r, store[t])} :
    /\ rule.require_good_quality /\ store[t].engineering.kind # "empty" =>
         /\ store[t].last_good = store[t].engineering
         /\ store[t].last_good_timestamp = store[t].timestamp
    /\ rule.type \in {"QualityNotGood", "QualityBad"} => store[t].quality \notin GoodQualities
=============================================================================
