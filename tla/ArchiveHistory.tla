---------------------------- MODULE ArchiveHistory ----------------------------
(***************************************************************************)
(* Which values of one tag reach its history: decide_archive of            *)
(* scada_historian (archive_decision.cpp) applied to a stream of current   *)
(* values, each decided against the sample archived before it.             *)
(*                                                                         *)
(* decide_archive is a function of its arguments; what the history looks   *)
(* like after many decisions is a property of the loop around it.  That    *)
(* loop is not in the repository (nothing calls decide_archive yet), so    *)
(* `previous_sample', `tag_history' and `skipped' are the caller's: it     *)
(* passes the last sample it archived, as the parameter's name asks.       *)
(*                                                                         *)
(* A value is a number, a text or empty; NaN is a number of its own.  All  *)
(* integer and floating types are "number", Boolean included, since        *)
(* to_double treats them alike.  Times are milliseconds and nothing orders *)
(* them: a device clock may be set back.  NoTime is the default timestamp. *)
(***************************************************************************)
EXTENDS Integers, Sequences

CONSTANTS
  Setups,        \* archive policies with the options they are used with
  Numerals, Texts, \* engineering values a tag can take
  Qualities,     \* the values of TagQuality that occur
  Times,         \* timestamps that occur
  MaxOffers      \* bound: values decided in one behaviour

NaN == -100      \* stands for the IEEE not-a-number
NoTime == 0

Policies == {"Disabled", "OnChange", "OnQualityChange", "OnChangeWithDeadband",
             "Periodic", "OnAlarm", "AlwaysButThrottled"}
Setup == [policy : Policies, periodic_interval_ms : Nat, min_interval_ms : Nat,
          deadband : Nat, archive_first_sample : BOOLEAN]

Empty == [kind |-> "empty", number |-> 0, text |-> ""]
Number(n) == [kind |-> "number", number |-> n, text |-> ""]
Text(s) == [kind |-> "text", number |-> 0, text |-> s]
Values == {Number(n) : n \in Numerals} \cup {Text(s) : s \in Texts}

ASSUME SetupAssumption == Setups \subseteq Setup
ASSUME TimeAssumption == Times \subseteq Nat
ASSUME ArchiveBoundAssumption == Numerals \subseteq Int /\ MaxOffers \in Nat

ArchivedSample == [value : Values, quality : Qualities, timestamp : Times]

VARIABLES
  setup,            \* policy and options, fixed for the tag
  previous_sample,  \* optional<HistorySample>: <<>> or <<the last one archived>>
  tag_history,      \* history: the samples archived
  skipped           \* history: non-empty values offered since the last of them

archive_vars == <<setup, previous_sample, tag_history, skipped>>

ArchiveInit ==
  /\ setup \in Setups
  /\ previous_sample = <<>> /\ tag_history = <<>> /\ skipped = <<>>

-----------------------------------------------------------------------------
(* The decision *)

Absolute(n) == IF n < 0 THEN -n ELSE n

ElapsedAtLeast_IgnoresClockReset(previous, current, interval_ms) ==
  \/ interval_ms = 0
  \/ NoTime \in {previous, current}
  \/ current - previous >= interval_ms

ElapsedAtLeast(previous, current, interval_ms) ==
  \/ interval_ms = 0
  \/ NoTime \in {previous, current}
  \/ current < previous
  \/ current - previous >= interval_ms

(* The C++ inequality of two payloads: a NaN differs from itself.          *)
Differ(v, w) == v # w \/ v = Number(NaN)

DeadbandReached_Signed(previous, current) ==
  /\ NaN \notin {previous.number, current.number}
  /\ current.number - previous.number >= setup.deadband

DeadbandReached_Negated(previous, current) ==
  \/ NaN \in {previous.number, current.number}
  \/ ~(Absolute(current.number - previous.number) < setup.deadband)

(* fabs(current - previous) >= deadband is false when either is a NaN.     *)
DeadbandReached(previous, current) ==
  /\ NaN \notin {previous.number, current.number}
  /\ Absolute(current.number - previous.number) >= setup.deadband

Matches_ValueAndQuality(previous, current, alarm_triggered) ==
  CASE setup.policy = "AlwaysButThrottled" -> TRUE
    [] setup.policy = "OnChange" -> /\ Differ(previous.value, current.value)
                                    /\ previous.quality # current.quality
    [] OTHER -> FALSE

(* The switch over the policy, for a tag that has a previous sample.       *)
Matches(previous, current, alarm_triggered) ==
  CASE setup.policy = "AlwaysButThrottled" -> TRUE
    [] setup.policy = "OnChange" -> Differ(previous.value, current.value)
    [] setup.policy = "OnQualityChange" -> previous.quality # current.quality
    [] setup.policy = "OnChangeWithDeadband" ->
         IF previous.value.kind = "number" /\ current.value.kind = "number"
         THEN DeadbandReached(previous.value, current.value)
         ELSE Differ(previous.value, current.value)
    [] setup.policy = "Periodic" ->
         ElapsedAtLeast(previous.timestamp, current.timestamp, setup.periodic_interval_ms)
    [] setup.policy = "OnAlarm" -> alarm_triggered
    [] setup.policy = "Disabled" -> FALSE

Eligible_EvenEmpty(current) == setup.policy # "Disabled"

(* Values that get past the first checks. *)
Eligible(current) == setup.policy # "Disabled" /\ current.value # Empty

(* decide_archive(policy, current, previous_sample, options), the verdict. *)
ShouldArchive(current, alarm_triggered) ==
  /\ Eligible(current)
  /\ IF previous_sample = <<>> THEN setup.archive_first_sample
     ELSE /\ ElapsedAtLeast(previous_sample[1].timestamp, current.timestamp,
                            setup.min_interval_ms)
          /\ Matches(previous_sample[1], current, alarm_triggered)

-----------------------------------------------------------------------------
(* The caller *)

Archive(current) ==
  /\ previous_sample' = <<current>>
  /\ tag_history' = Append(tag_history, current)
  /\ skipped' = <<>>
  /\ UNCHANGED setup

Skip(current) ==
  /\ skipped' = IF current.value = Empty THEN skipped ELSE Append(skipped, current)
  /\ UNCHANGED <<setup, previous_sample, tag_history>>

Offer(current, alarm_triggered) ==
  /\ current.value = Empty \/ Len(tag_history) + Len(skipped) < MaxOffers
  /\ \/ ShouldArchive(current, alarm_triggered) /\ Archive(current)
     \/ ~ShouldArchive(current, alarm_triggered) /\ Skip(current)

ArchiveNext ==
  \E value \in Values \cup {Empty}, quality \in Qualities, timestamp \in Times,
     alarm_triggered \in BOOLEAN :
    Offer([value |-> value, quality |-> quality, timestamp |-> timestamp], alarm_triggered)

ArchiveSpec == ArchiveInit /\ [][ArchiveNext]_archive_vars

-----------------------------------------------------------------------------
(* Properties *)

ArchiveTypeOK ==
  /\ setup \in Setups
  /\ tag_history \in Seq(ArchivedSample)
  /\ skipped \in Seq(ArchivedSample)
  /\ previous_sample \in {<<>>} \cup {<<s>> : s \in ArchivedSample}

Latest == tag_history[Len(tag_history)]
Archived == tag_history # <<>>
Unthrottled == setup.min_interval_ms = 0

(* What the history leaves out is bounded, as long as the archived value   *)
(* is not a NaN: without a minimum interval, every number skipped since    *)
(* the last archived sample lies strictly within the deadband of that      *)
(* sample, not of its own predecessor, so a slow drift does not escape;    *)
(* and a skipped text is the archived text.  A skipped NaN has no distance *)
(* to the sample.  Nothing is claimed here about what an archived NaN lets *)
(* through: that is the next property, and it is the opposite.             *)
SkippedWithinDeadband ==
  /\ setup.policy = "OnChangeWithDeadband" /\ Unthrottled
  /\ Archived /\ Latest.value # Number(NaN)
  => \A i \in 1..Len(skipped) :
       \/ skipped[i].value = Latest.value
       \/ /\ skipped[i].value.kind = "number" /\ Latest.value.kind = "number"
          /\ \/ skipped[i].value = Number(NaN)
             \/ Absolute(skipped[i].value.number - Latest.value.number) < setup.deadband

(* A NaN closes a deadband history to numbers.  Nothing is a deadband or   *)
(* more away from it, so once it is archived every number that follows is  *)
(* skipped, however far, until a text comes; and a NaN is never archived   *)
(* after a number, even with a deadband of zero.  In the history a NaN     *)
(* therefore never has a number for a neighbour.                           *)
NaNHoldsDeadband ==
  setup.policy = "OnChangeWithDeadband" =>
    \A i \in 2..Len(tag_history) :
      Number(NaN) \in {tag_history[i - 1].value, tag_history[i].value} =>
        "text" \in {tag_history[i - 1].value.kind, tag_history[i].value.kind}

(* Without a minimum interval an OnChange history loses no value and keeps *)
(* no repetition: a skipped value is the one archived last, and            *)
(* neighbours in the history differ.                                       *)
ChangesExactlyArchived ==
  setup.policy = "OnChange" /\ Unthrottled /\ Archived =>
    /\ \A i \in 1..Len(skipped) : skipped[i].value = Latest.value
    /\ \A i \in 2..Len(tag_history) : Differ(tag_history[i - 1].value, tag_history[i].value)

(* A periodic history has no hole: a value is left out only while less     *)
(* than a period, or less than the minimum interval, has passed since the  *)
(* last archived sample; a clock set back closes the period at once.       *)
PeriodKept ==
  setup.policy = "Periodic" /\ Archived =>
    \A i \in 1..Len(skipped) :
      LET elapsed == skipped[i].timestamp - Latest.timestamp
      IN  /\ elapsed >= 0
          /\ elapsed < setup.periodic_interval_ms \/ elapsed < setup.min_interval_ms
=============================================================================
