---------------------------- MODULE RuntimeValues ----------------------------
(***************************************************************************)
(* The current values of tags: RuntimeValueApplier over TagValueStore of   *)
(* scada_runtime, with the value conversion, engineering transform, change *)
(* detection and runtime event they are made of.                           *)
(*                                                                         *)
(* Numbers are counted in halves (2 stands for 1.0), so that a fraction    *)
(* exists and truncation to an integer loses it.  Int32 and Int64 are the  *)
(* type "Int", Float and Double are "Double", String, Enum and Json are    *)
(* "String".  A text is a numeral, which has a `num', or a `word'.  The    *)
(* value source is left out: the applier always writes Device.  The time   *)
(* of a read is its server timestamp, or now() when it has none; nothing   *)
(* orders either, so it is any of Times.                                   *)
(*                                                                         *)
(* `reads', `returned' and `events' are histories, kept per tag: what each *)
(* apply stored and the payload the driver had returned to it, both since  *)
(* the tag entered the store; and all events the applies returned, across  *)
(* removals, as a consumer receives them.                                  *)
(***************************************************************************)
EXTENDS Integers, Sequences, FiniteSets

CONSTANTS
  TagIds, NoTag,      \* ids of the tags read, and the empty id
  OtherTag,           \* the id of a tag that is configured but not read
  Payloads,           \* raw values a driver can return
  Configs, NoConfig,  \* tag configurations, and calls without one
  Qualities,          \* the values of TagQuality that occur
  Times, NoTime,      \* server timestamps, and no timestamp
  IntResults,         \* what converting a NaN to an integer may give
  MaxReads,           \* bound: reads applied to a tag since it was inserted
  MaxEvents           \* bound: events of a tag in one behaviour

NaN == -100           \* stands for the IEEE not-a-number
Numbers == Int
Words == {"", "true", "false", "other"}
ValueTypes == {"Boolean", "Int", "Double", "String"}

Payload == [kind : {"empty", "bool", "int", "double", "text"}, num : Numbers, word : Words]
Config == [tag_id : TagIds \cup {OtherTag}, value_type : ValueTypes, scale : Int, offset : Int]

ASSUME TagAssumption == NoTag \notin TagIds
ASSUME DataAssumption == Payloads \subseteq Payload /\ Configs \subseteq Config
ASSUME TimeAssumption == Times \subseteq Nat /\ NoTime \notin Times
ASSUME BoundAssumption == MaxReads \in Nat /\ MaxEvents \in Nat /\ IntResults \subseteq Int

VARIABLES
  store,    \* TagValueStore::values_, by tag id
  reads,    \* history: per tag, the values stored since it was inserted
  returned, \* history: per tag, the payloads the driver returned for these reads
  events    \* history: per tag, the events returned, before and after removals

vars == <<store, reads, returned, events>>

Empty == [kind |-> "empty", num |-> 0, word |-> ""]
BoolOf(b) == [kind |-> "bool", num |-> IF b THEN 2 ELSE 0, word |-> ""]
IntOf(n) == [kind |-> "int", num |-> n, word |-> ""]
DoubleOf(n) == [kind |-> "double", num |-> n, word |-> ""]
Numeral(n) == [kind |-> "text", num |-> n, word |-> ""]
Word(w) == [kind |-> "text", num |-> 0, word |-> w]

Value ==
  [value_type : ValueTypes, quality : Qualities, raw : Payload, engineering : Payload,
   timestamp : Times, last_good : Payload, last_good_timestamp : Times \cup {NoTime},
   change_counter : Nat]

Init ==
  /\ store = [t \in {} |-> <<>>]
  /\ reads = [t \in TagIds |-> <<>>]
  /\ returned = [t \in TagIds |-> <<>>]
  /\ events = [t \in TagIds |-> <<>>]

-----------------------------------------------------------------------------
(* Value conversion *)

(* runtime_value_to_double succeeds on numbers, booleans and numerals.     *)
IsNumber(p) == p.kind \in {"bool", "int", "double"} \/ (p.kind = "text" /\ p.word = "")

InferType(p, fallback) ==
  CASE p.kind = "bool" -> "Boolean"
    [] p.kind = "int" -> "Int"
    [] p.kind = "double" -> "Double"
    [] p.kind = "text" -> "String"
    [] p.kind = "empty" -> fallback

(* static_cast<std::int32_t>(double): truncation; undefined for a NaN.     *)
Truncated(n) ==
  CASE n = NaN -> IntResults
    [] n # NaN /\ n >= 0 -> {(n \div 2) * 2}
    [] n # NaN /\ n < 0 -> {-((-n \div 2) * 2)}

AsText(p) ==
  IF p.kind = "bool" THEN Word(IF p.num = 0 THEN "false" ELSE "true") ELSE Numeral(p.num)

FromNumber(n, type) ==
  CASE type = "Boolean" -> {BoolOf(n # 0)}
    [] type = "Int" -> {IntOf(k) : k \in Truncated(n)}
    [] type = "Double" -> {DoubleOf(n)}

Converted_EmptyWhenImpossible(p, type) ==
  CASE p.kind = "empty" \/ InferType(p, type) = type -> {p}
    [] p.kind # "empty" /\ InferType(p, type) # type ->
         CASE type = "String" -> {AsText(p)}
           [] type # "String" /\ IsNumber(p) -> FromNumber(p.num, type)
           [] type = "Boolean" /\ ~IsNumber(p) /\ p.word \in {"true", "false"} ->
                {BoolOf(p.word = "true")}
           [] OTHER -> {Empty}

(* convert_runtime_value: the payloads a conversion may leave; when it     *)
(* fails the caller keeps the payload it had.                              *)
Converted(p, type) ==
  CASE p.kind = "empty" \/ InferType(p, type) = type -> {p}
    [] p.kind # "empty" /\ InferType(p, type) # type ->
         CASE type = "String" -> {AsText(p)}
           [] type # "String" /\ IsNumber(p) -> FromNumber(p.num, type)
           [] type = "Boolean" /\ ~IsNumber(p) /\ p.word \in {"true", "false"} ->
                {BoolOf(p.word = "true")}
           [] OTHER -> {p}

(* apply_engineering_transform, enabled: invalid options and values that   *)
(* are no number leave the payload as it is.                               *)
Transformed(p, config) ==
  IF config.scale = 0 \/ ~IsNumber(p) THEN p
  ELSE DoubleOf(IF p.num = NaN THEN NaN ELSE p.num * config.scale + config.offset)

-----------------------------------------------------------------------------
(* Quality, change detection, events *)

GoodQualities == {"Good", "Manual", "Simulation"}

CanUpdateLastGood_AnyQuality(quality, payload) == payload.kind # "empty"
CanUpdateLastGood(quality, payload) == quality \in GoodQualities /\ payload.kind # "empty"

(* The C++ inequality of two payloads: a NaN differs from itself.          *)
Differ(p, q) == p # q \/ (p.kind = "double" /\ p.num = NaN)

Changed_ComparesRaw(previous, current) ==
  Differ(previous.raw, current.raw) \/ previous.quality # current.quality

(* detect_runtime_value_change for a tag that has a previous value.        *)
Changed(previous, current) ==
  Differ(previous.engineering, current.engineering) \/ previous.quality # current.quality

Event_BeforeMark(previous_quality, current) ==
  [previous_quality |-> previous_quality, current_quality |-> current.quality,
   change_counter |-> current.change_counter - 1]

(* make_runtime_value_event, from the value after mark_changed. *)
Event(previous_quality, current) ==
  [previous_quality |-> previous_quality, current_quality |-> current.quality,
   change_counter |-> current.change_counter]

-----------------------------------------------------------------------------
(* The applier *)

Read == [tag_id : TagIds \cup {NoTag}, raw : Payloads, quality : Qualities]

TargetType_NoFallback(read, config, fallback) ==
  IF config = NoConfig THEN InferType(read.raw, "Unknown") ELSE config.value_type

(* The type and raw value an apply stores; `fallback' is the type of the   *)
(* previous value, or Double.                                              *)
TargetType(read, config, fallback) ==
  IF config = NoConfig THEN InferType(read.raw, fallback) ELSE config.value_type

RawValues(read, config) ==
  IF config = NoConfig THEN {read.raw} ELSE Converted(read.raw, config.value_type)

Engineering(raw, config) == IF config = NoConfig THEN raw ELSE Transformed(raw, config)

(* make_current_value: the previous last good value and counter stay       *)
(* unless this read is good.                                               *)
CurrentValue(read, type, raw, engineering, timestamp, previous) ==
  LET good == CanUpdateLastGood(read.quality, engineering)
  IN  [value_type |-> type, quality |-> read.quality, raw |-> raw,
       engineering |-> engineering, timestamp |-> timestamp,
       last_good |-> IF good THEN engineering ELSE previous.last_good,
       last_good_timestamp |-> IF good THEN timestamp ELSE previous.last_good_timestamp,
       change_counter |-> previous.change_counter]

(* A default-constructed TagCurrentValue, as far as the first read uses it. *)
Fresh == [value_type |-> "Double", last_good |-> Empty, last_good_timestamp |-> NoTime,
          change_counter |-> 0]

Upsert(t, value, newEvents) ==
  /\ store' = [x \in DOMAIN store \cup {t} |-> IF x = t THEN value ELSE store[x]]
  /\ reads' = [reads EXCEPT ![t] = Append(@, value)]
  /\ events' = [events EXCEPT ![t] = @ \o newEvents]

MarkChanged(value) == [value EXCEPT !.change_counter = @ + 1]

Insert(t, current) ==
  Upsert(t, MarkChanged(current), <<Event("NotInitialized", MarkChanged(current))>>)

Update(t, current) ==
  \/ /\ Changed(store[t], current)
     /\ Upsert(t, MarkChanged(current), <<Event(store[t].quality, MarkChanged(current))>>)
  \/ /\ ~Changed(store[t], current)
     /\ Upsert(t, current, <<>>)

(* An empty tag id, or one that is not the configuration's, is refused.    *)
Refused(read, config) ==
  \/ read.tag_id = NoTag
  \/ config # NoConfig /\ config.tag_id # read.tag_id

ApplyProtocolReadResult(read, config) ==
  \/ Refused(read, config) /\ UNCHANGED vars
  \/ LET t == read.tag_id
         stored == t \in DOMAIN store
         previous == IF stored THEN store[t] ELSE Fresh
         type == TargetType(read, config, previous.value_type)
     IN  /\ ~Refused(read, config)
         /\ Len(reads[t]) < MaxReads /\ Len(events[t]) < MaxEvents
         /\ returned' = [returned EXCEPT ![t] = Append(@, read.raw)]
         /\ \E raw \in RawValues(read, config), timestamp \in Times :
              LET current == CurrentValue(read, type, raw, Engineering(raw, config),
                                          timestamp, previous)
              IN  \/ ~stored /\ Insert(t, current)
                  \/ stored /\ Update(t, current)

(* TagValueStore::remove_by_tag_id and clear; a later read inserts afresh. *)
Remove(gone) ==
  /\ store' = [t \in DOMAIN store \ gone |-> store[t]]
  /\ reads' = [t \in TagIds |-> IF t \in gone THEN <<>> ELSE reads[t]]
  /\ returned' = [t \in TagIds |-> IF t \in gone THEN <<>> ELSE returned[t]]
  /\ UNCHANGED events

RemoveByTagId(t) == Remove({t})
Clear == Remove(DOMAIN store)

Next ==
  \/ \E read \in Read, config \in Configs \cup {NoConfig} :
       ApplyProtocolReadResult(read, config)
  \/ \E t \in TagIds : RemoveByTagId(t)
  \/ Clear

Spec == Init /\ [][Next]_vars

-----------------------------------------------------------------------------
(* Properties *)

EventRecord == [previous_quality : Qualities \cup {"NotInitialized"},
                current_quality : Qualities, change_counter : Nat]

TypeOK ==
  /\ DOMAIN store \subseteq TagIds
  /\ \A t \in DOMAIN store : store[t] \in Value
  /\ reads \in [TagIds -> Seq(Value)]
  /\ returned \in [TagIds -> Seq(Payload)]
  /\ events \in [TagIds -> Seq(EventRecord)]

Latest(s) == s[Len(s)]

(* A text that is no numeral has no value of the type asked for.           *)
Unconvertible(p, type) ==
  /\ p.kind = "text" /\ p.word # ""
  /\ type # "String" /\ (type = "Boolean" => p.word \notin {"true", "false"})

(* The last good value is the engineering value of the latest read whose   *)
(* quality was good and for which the driver returned a value at all, with *)
(* that read's time: reads of bad quality and empty ones, and changes of   *)
(* configuration, leave it alone.  A good read that cannot be converted to *)
(* the type of the tag does not: it becomes the last good value, as the    *)
(* driver returned it, so the last good value of a number may be a text.   *)
LastGoodIsLatestGood ==
  \A t \in DOMAIN store :
    LET good == {i \in 1..Len(reads[t]) :
                   reads[t][i].quality \in GoodQualities /\ returned[t][i].kind # "empty"}
    IN  \/ good = {} /\ store[t].last_good = Empty /\ store[t].last_good_timestamp = NoTime
        \/ \E i \in good : /\ \A j \in good : j <= i
                           /\ store[t].last_good = reads[t][i].engineering
                           /\ store[t].last_good_timestamp = reads[t][i].timestamp
                           /\ Unconvertible(returned[t][i], reads[t][i].value_type)
                                => store[t].last_good = returned[t][i]

(* Each event of a tag carries on where the one before it ended, with the  *)
(* next number and the quality that one told; or it says that the tag was  *)
(* inserted, with number 1 and no previous quality.  A consumer thus sees  *)
(* a gap between removals, and one that receives every event takes numbers *)
(* that begin again after a removal for what they are.  The stored counter *)
(* and quality are those of the last event.                                *)
CounterNumbersEvents ==
  \A t \in TagIds :
    /\ \A i \in 1..Len(events[t]) :
         \/ /\ events[t][i].change_counter = 1
            /\ events[t][i].previous_quality = "NotInitialized"
         \/ /\ i > 1
            /\ events[t][i].change_counter = events[t][i - 1].change_counter + 1
            /\ events[t][i].previous_quality = events[t][i - 1].current_quality
    /\ t \in DOMAIN store =>
         /\ events[t] # <<>>
         /\ store[t].change_counter = Latest(events[t]).change_counter
         /\ store[t].quality = Latest(events[t]).current_quality

(* A consumer that fetches the value on each event is never out of date:   *)
(* the stored engineering value and quality are those stored with the      *)
(* latest event, whatever was read silently since, under whatever          *)
(* configuration.                                                          *)
QuietMeansUnchanged ==
  \A t \in DOMAIN store :
    \E i \in 1..Len(reads[t]) :
      /\ reads[t][i].change_counter = store[t].change_counter
      /\ \A j \in 1..(i - 1) : reads[t][j].change_counter < store[t].change_counter
      /\ reads[t][i].engineering = store[t].engineering
      /\ reads[t][i].quality = store[t].quality

(* SERVICE.md of scada_runtime says that String, Enum and Json values skip *)
(* the engineering transform.                                              *)
TextNotTransformed ==
  \A t \in DOMAIN store :
    store[t].value_type = "String" => store[t].engineering = store[t].raw

(* SERVICE.md of scada_runtime says that the counter does not grow when    *)
(* value, quality and source stay as they were.                            *)
NoChangeNoCount ==
  \A t \in DOMAIN store : \A i \in 2..Len(reads[t]) :
    LET before == reads[t][i - 1]
        after == reads[t][i]
    IN  before.engineering = after.engineering /\ before.quality = after.quality
          => before.change_counter = after.change_counter
=============================================================================
