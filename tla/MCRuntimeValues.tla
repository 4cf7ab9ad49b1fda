--------------------------- MODULE MCRuntimeValues ---------------------------
(* RuntimeValues and AlarmRules on one tag: raw values of every kind, read    *)
(* without a configuration, as an integer that is scaled and shifted, as a   *)
(* text, or with the configuration of another tag; rules of every type and   *)
(* comparison.                                                               *)
EXTENDS AlarmRules

MCPayloads == {Empty, DoubleOf(3), DoubleOf(NaN), Numeral(2), Word("true")}

MCConfigs ==
  {[tag_id |-> "t1", value_type |-> "Int", scale |-> 2, offset |-> 1],
   [tag_id |-> "t1", value_type |-> "String", scale |-> 1, offset |-> 0],
   [tag_id |-> "t2", value_type |-> "Double", scale |-> 1, offset |-> 0]}

MCRules ==
  LET Rule0 == [type |-> "NumericThreshold", state |-> "Enabled", has_valid_identity |-> TRUE,
                require_good_quality |-> FALSE, comparison |-> "Equal", threshold |-> 2,
                expected_quality |-> NoQuality]
  IN {[Rule0 EXCEPT !.comparison = c, !.require_good_quality = good] :
        c \in Comparisons, good \in BOOLEAN}
     \cup {[Rule0 EXCEPT !.type = type, !.expected_quality = quality] :
             type \in {"QualityEquals", "QualityNotGood", "QualityBad"},
             quality \in {NoQuality, "Stale"}}
     \cup {[Rule0 EXCEPT !.state = "Draft"], [Rule0 EXCEPT !.has_valid_identity = FALSE]}
=============================================================================
