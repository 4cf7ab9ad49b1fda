------------------------- MODULE RuntimeValuesProofs -------------------------
(***************************************************************************)
(* Proofs about RuntimeValues and AlarmRules, for every set of tags,       *)
(* payloads, configurations, qualities, times, rules and every number of   *)
(* reads.                                                                  *)
(***************************************************************************)
EXTENDS AlarmRules, TLAPS

(* Appending keeps the type, the prefix and grows the length by one. *)
LEMMA AppendFacts ==
  ASSUME NEW S, NEW s \in Seq(S), NEW e \in S
  PROVE  /\ Append(s, e) \in Seq(S)
         /\ Len(Append(s, e)) = Len(s) + 1
         /\ Append(s, e)[Len(s) + 1] = e
         /\ \A i \in 1..Len(s) : Append(s, e)[i] = s[i]
  OBVIOUS

(* Concatenation. *)
LEMMA ConcatFacts ==
  ASSUME NEW S, NEW s \in Seq(S), NEW t \in Seq(S)
  PROVE  /\ s \o t \in Seq(S)
         /\ Len(s \o t) = Len(s) + Len(t)
         /\ \A i \in 1..Len(s) : (s \o t)[i] = s[i]
         /\ \A i \in 1..Len(t) : (s \o t)[Len(s) + i] = t[i]
         /\ s \o <<>> = s
  OBVIOUS

-----------------------------------------------------------------------------
(* Payloads stay payloads through conversion and transform. *)

LEMMA PayloadMakers ==
  /\ Empty \in Payload
  /\ \A b \in BOOLEAN : BoolOf(b) \in Payload
  /\ \A n \in Int : IntOf(n) \in Payload /\ DoubleOf(n) \in Payload /\ Numeral(n) \in Payload
  /\ \A w \in Words : Word(w) \in Payload
<1> USE DEF Payload, Numbers, Words
<1>0. 0 \in Int /\ 2 \in Int
  OBVIOUS
<1>1. Empty \in Payload
  BY <1>0 DEF Empty
<1>2. ASSUME NEW b \in BOOLEAN PROVE BoolOf(b) \in Payload
  <2>1. CASE b
    BY <1>0, <2>1, Zenon DEF BoolOf
  <2>2. CASE ~b
    BY <1>0, <2>2, Zenon DEF BoolOf
  <2>3. QED
    BY <2>1, <2>2
<1>3. ASSUME NEW n \in Int
      PROVE  IntOf(n) \in Payload /\ DoubleOf(n) \in Payload /\ Numeral(n) \in Payload
  BY DEF IntOf, DoubleOf, Numeral
<1>4. ASSUME NEW w \in Words PROVE Word(w) \in Payload
  BY <1>0, Zenon DEF Word
<1>5. QED
  BY <1>1, <1>2, <1>3, <1>4

LEMMA TruncatedIsInt == \A n \in Int : Truncated(n) \subseteq Int
<1> SUFFICES ASSUME NEW n \in Int PROVE Truncated(n) \subseteq Int
  OBVIOUS
<1>1. (n \div 2) * 2 \in Int /\ -((-n \div 2) * 2) \in Int
  OBVIOUS
<1>2. CASE n = NaN
  BY <1>2, BoundAssumption DEF Truncated
<1>3. CASE n # NaN /\ n >= 0
  BY <1>1, <1>3 DEF Truncated
<1>4. CASE n # NaN /\ n < 0
  BY <1>1, <1>4 DEF Truncated
<1>5. QED
  BY <1>2, <1>3, <1>4

LEMMA FromNumberIsPayload ==
  ASSUME NEW n \in Int, NEW type \in ValueTypes \ {"String"}
  PROVE  FromNumber(n, type) \subseteq Payload
<1>1. CASE type = "Boolean"
  BY <1>1, PayloadMakers DEF FromNumber
<1>2. CASE type = "Int"
  BY <1>2, PayloadMakers, TruncatedIsInt DEF FromNumber
<1>3. CASE type = "Double"
  BY <1>3, PayloadMakers DEF FromNumber
<1>4. QED
  BY <1>1, <1>2, <1>3 DEF ValueTypes

LEMMA AsTextIsPayload == \A p \in Payload : AsText(p) \in Payload
<1> SUFFICES ASSUME NEW p \in Payload PROVE AsText(p) \in Payload
  OBVIOUS
<1>1. p.num \in Int
  BY DEF Payload, Numbers
<1>2. "true" \in Words /\ "false" \in Words
  BY DEF Words
<1>3. QED
  BY <1>1, <1>2, PayloadMakers DEF AsText

(* convert_runtime_value leaves a payload, whatever it is asked for. *)
LEMMA ConvertedIsPayload ==
  ASSUME NEW p \in Payload, NEW type \in ValueTypes
  PROVE  Converted(p, type) \subseteq Payload
<1>0. p.num \in Int
  BY DEF Payload, Numbers
<1>1. CASE p.kind = "empty" \/ InferType(p, type) = type
  <2>1. Converted(p, type) = {p}
    BY <1>1 DEF Converted
  <2>2. QED
    BY <2>1
<1>2. CASE ~(p.kind = "empty" \/ InferType(p, type) = type)
  <2>1. CASE type = "String"
    <3>1. Converted(p, type) = {AsText(p)}
      BY <1>2, <2>1 DEF Converted
    <3>2. QED
      BY <3>1, AsTextIsPayload
  <2>2. CASE type # "String" /\ IsNumber(p)
    <3>1. Converted(p, type) = FromNumber(p.num, type)
      BY <1>2, <2>2 DEF Converted
    <3>2. QED
      BY <3>1, <2>2, <1>0, FromNumberIsPayload
  <2>3. CASE type = "Boolean" /\ ~IsNumber(p) /\ p.word \in {"true", "false"}
    <3>1. Converted(p, type) = {BoolOf(p.word = "true")}
      BY <1>2, <2>3 DEF Converted, IsNumber
    <3>2. BoolOf(p.word = "true") \in Payload
      BY PayloadMakers
    <3>3. QED
      BY <3>1, <3>2
  <2>4. CASE type # "String" /\ ~IsNumber(p) /\ ~(type = "Boolean" /\ p.word \in {"true", "false"})
    <3>1. Converted(p, type) = {p}
      BY <1>2, <2>4 DEF Converted
    <3>2. QED
      BY <3>1
  <2>5. QED
    BY <2>1, <2>2, <2>3, <2>4
<1>3. QED
  BY <1>1, <1>2

LEMMA TransformedIsPayload ==
  ASSUME NEW p \in Payload, NEW config \in Config
  PROVE  Transformed(p, config) \in Payload
<1>1. p.num \in Int /\ config.scale \in Int /\ config.offset \in Int
  BY DEF Payload, Numbers, Config
<1>2. NaN \in Int /\ p.num * config.scale + config.offset \in Int
  BY <1>1 DEF NaN
<1>3. QED
  BY <1>2, PayloadMakers DEF Transformed

LEMMA PayloadKinds ==
  /\ \A b : BoolOf(b).kind = "bool"
  /\ \A n : IntOf(n).kind = "int" /\ DoubleOf(n).kind = "double" /\ Numeral(n).kind = "text"
  /\ \A w : Word(w).kind = "text"
BY DEF BoolOf, IntOf, DoubleOf, Numeral, Word

(* A conversion neither loses a payload nor makes one up, and leaves one    *)
(* that has no value of the type as it is; the transform does so too.      *)
LEMMA ConvertedKeeps ==
  ASSUME NEW p \in Payload, NEW type \in ValueTypes, NEW r \in Converted(p, type)
  PROVE  /\ r.kind = "empty" <=> p.kind = "empty"
         /\ Unconvertible(p, type) => r = p
<1>1. CASE p.kind = "empty" \/ InferType(p, type) = type
  BY <1>1 DEF Converted
<1>2. CASE ~(p.kind = "empty" \/ InferType(p, type) = type)
  <2>0. p.kind # "empty"
    BY <1>2
  <2>1. CASE type = "String"
    <3>1. r = AsText(p)
      BY <1>2, <2>1 DEF Converted
    <3>2. r.kind = "text"
      BY <3>1, PayloadKinds DEF AsText
    <3>3. ~Unconvertible(p, type)
      BY <2>1 DEF Unconvertible
    <3>4. QED
      BY <2>0, <3>2, <3>3
  <2>2. CASE type # "String" /\ IsNumber(p)
    <3>1. r \in FromNumber(p.num, type)
      BY <1>2, <2>2 DEF Converted
    <3>2. r.kind # "empty"
      <4>1. CASE type = "Boolean"
        BY <3>1, <4>1, PayloadKinds DEF FromNumber
      <4>2. CASE type = "Int"
        BY <3>1, <4>2, PayloadKinds DEF FromNumber
      <4>3. CASE type = "Double"
        BY <3>1, <4>3, PayloadKinds DEF FromNumber
      <4>4. QED
        BY <2>2, <4>1, <4>2, <4>3 DEF ValueTypes
    <3>3. ~Unconvertible(p, type)
      BY <2>2 DEF Unconvertible, IsNumber
    <3>4. QED
      BY <2>0, <3>2, <3>3
  <2>3. CASE type = "Boolean" /\ ~IsNumber(p) /\ p.word \in {"true", "false"}
    <3>1. r = BoolOf(p.word = "true")
      BY <1>2, <2>3 DEF Converted, IsNumber
    <3>2. r.kind = "bool"
      BY <3>1, PayloadKinds
    <3>3. ~Unconvertible(p, type)
      BY <2>3 DEF Unconvertible
    <3>4. QED
      BY <2>0, <3>2, <3>3
  <2>4. CASE type # "String" /\ ~IsNumber(p) /\ ~(type = "Boolean" /\ p.word \in {"true", "false"})
    BY <1>2, <2>4 DEF Converted
  <2>5. QED
    BY <2>1, <2>2, <2>3, <2>4
<1>3. QED
  BY <1>1, <1>2

LEMMA TransformedKeeps ==
  ASSUME NEW p \in Payload, NEW config \in Config
  PROVE  /\ Transformed(p, config).kind = "empty" <=> p.kind = "empty"
         /\ ~IsNumber(p) => Transformed(p, config) = p
<1>1. CASE config.scale = 0 \/ ~IsNumber(p)
  BY <1>1 DEF Transformed
<1>2. CASE ~(config.scale = 0 \/ ~IsNumber(p))
  <2>1. Transformed(p, config).kind = "double"
    BY <1>2, PayloadKinds DEF Transformed
  <2>2. p.kind # "empty"
    BY <1>2 DEF IsNumber
  <2>3. QED
    BY <1>2, <2>1, <2>2
<1>3. QED
  BY <1>1, <1>2

LEMMA TypeInferred ==
  ASSUME NEW p \in Payload, NEW fallback \in ValueTypes
  PROVE  InferType(p, fallback) \in ValueTypes
BY DEF Payload, InferType, ValueTypes

-----------------------------------------------------------------------------
USE TagAssumption, DataAssumption, TimeAssumption

(* What one apply does.  `Previous' is the stored value or, for a first    *)
(* read, Fresh; `payload' is what the driver returned, `value' what is     *)
(* stored and `added' the events returned.                                 *)

Previous(t) == IF t \in DOMAIN store THEN store[t] ELSE Fresh

(* The event of an insertion or of a change. *)
Tells(t, e, value) ==
  /\ e.change_counter = value.change_counter
  /\ e.current_quality = value.quality
  /\ e.previous_quality = IF t \in DOMAIN store THEN store[t].quality ELSE "NotInitialized"

(* The read counts: the counter grows by one and one event tells it. *)
Counted(t, value, added) ==
  /\ value.change_counter = Previous(t).change_counter + 1
  /\ \E e \in EventRecord : added = <<e>> /\ Tells(t, e, value)

(* The read is silent: nothing an event would tell differs. *)
Silent(t, value, added) ==
  /\ t \in DOMAIN store
  /\ value.change_counter = store[t].change_counter
  /\ value.engineering = store[t].engineering
  /\ value.quality = store[t].quality
  /\ added = <<>>

(* The last good value follows the read or stays. *)
KeepsLastGood(t, value) ==
  \/ /\ CanUpdateLastGood(value.quality, value.engineering)
     /\ value.last_good = value.engineering
     /\ value.last_good_timestamp = value.timestamp
  \/ /\ ~CanUpdateLastGood(value.quality, value.engineering)
     /\ value.last_good = Previous(t).last_good
     /\ value.last_good_timestamp = Previous(t).last_good_timestamp

(* What is stored of a payload is empty when it is, and the payload itself *)
(* when it has no value of the type.                                       *)
KeepsPayload(payload, value) ==
  /\ value.engineering.kind = "empty" <=> payload.kind = "empty"
  /\ Unconvertible(payload, value.value_type) => value.engineering = payload

Stored(t, payload, value, added) ==
  /\ Upsert(t, value, added)
  /\ returned' = [returned EXCEPT ![t] = Append(@, payload)]
  /\ KeepsPayload(payload, value)
  /\ KeepsLastGood(t, value)
  /\ Counted(t, value, added) \/ Silent(t, value, added)

(* Of the previous value an apply uses these fields, and they have their   *)
(* types also when the tag is read for the first time.                     *)
LEMMA PreviousFacts ==
  ASSUME TypeOK, NEW t \in TagIds
  PROVE  /\ Previous(t).value_type \in ValueTypes
         /\ Previous(t).last_good \in Payload
         /\ Previous(t).last_good_timestamp \in Times \cup {NoTime}
         /\ Previous(t).change_counter \in Nat
<1>1. CASE t \in DOMAIN store
  BY <1>1 DEF TypeOK, Value, Previous
<1>2. CASE t \notin DOMAIN store
  BY <1>2, PayloadMakers DEF Previous, Fresh, ValueTypes
<1>3. QED
  BY <1>1, <1>2

(* The value make_current_value makes is a value. *)
LEMMA CurrentValueFacts ==
  ASSUME TypeOK, NEW t \in TagIds, NEW read \in Read, NEW type \in ValueTypes,
         NEW raw \in Payload, NEW engineering \in Payload, NEW timestamp \in Times
  PROVE  LET v == CurrentValue(read, type, raw, engineering, timestamp, Previous(t))
         IN  /\ v \in Value
             /\ MarkChanged(v) \in Value
             /\ MarkChanged(v).change_counter = v.change_counter + 1
             /\ v.change_counter = Previous(t).change_counter
             /\ KeepsLastGood(t, v)
             /\ KeepsLastGood(t, MarkChanged(v))
             /\ MarkChanged(v).quality = v.quality
             /\ v.engineering = engineering /\ MarkChanged(v).engineering = engineering
             /\ v.value_type = type /\ MarkChanged(v).value_type = type
<1> DEFINE v == CurrentValue(read, type, raw, engineering, timestamp, Previous(t))
<1>1. read.quality \in Qualities
  BY DEF Read
<1>2. v \in Value
  BY <1>1, PreviousFacts DEF CurrentValue, Value
<1>3. v.change_counter = Previous(t).change_counter
  BY DEF CurrentValue
<1>4. KeepsLastGood(t, v)
  BY DEF CurrentValue, KeepsLastGood
<1> HIDE DEF v
<1>5. /\ MarkChanged(v) \in Value
      /\ MarkChanged(v).change_counter = v.change_counter + 1
      /\ MarkChanged(v).quality = v.quality
      /\ MarkChanged(v).engineering = v.engineering
      /\ MarkChanged(v).value_type = v.value_type
      /\ MarkChanged(v).timestamp = v.timestamp
      /\ MarkChanged(v).last_good = v.last_good
      /\ MarkChanged(v).last_good_timestamp = v.last_good_timestamp
  BY <1>2 DEF Value, MarkChanged
<1>6. KeepsLastGood(t, MarkChanged(v))
  BY <1>4, <1>5 DEF KeepsLastGood
<1>7. v.engineering = engineering /\ v.value_type = type
  BY DEF CurrentValue, v
<1>8. QED
  BY <1>2, <1>3, <1>4, <1>5, <1>6, <1>7 DEF v

LEMMA EventFacts ==
  ASSUME NEW q \in Qualities \cup {"NotInitialized"}, NEW value \in Value
  PROVE  /\ Event(q, value) \in EventRecord
         /\ Event(q, value).change_counter = value.change_counter
         /\ Event(q, value).previous_quality = q
         /\ Event(q, value).current_quality = value.quality
BY DEF Event, EventRecord, Value

(* An apply that is not refused stores a value so. *)
LEMMA ApplyStores ==
  ASSUME TypeOK, NEW read \in Read, NEW config \in Configs \cup {NoConfig},
         ApplyProtocolReadResult(read, config), ~Refused(read, config)
  PROVE  /\ read.tag_id \in TagIds
         /\ \E payload \in Payload, value \in Value, added \in Seq(EventRecord) :
              Stored(read.tag_id, payload, value, added)
<1> DEFINE t == read.tag_id
           type == TargetType(read, config, Previous(t).value_type)
<1>1. t \in TagIds
  BY DEF Refused, Read
<1>2. read.raw \in Payload
  BY DEF Read
<1>3. type \in ValueTypes
  <2>1. CASE config = NoConfig
    BY <2>1, <1>1, <1>2, TypeInferred, PreviousFacts DEF TargetType
  <2>2. CASE config # NoConfig
    BY <2>2 DEF TargetType, Config
  <2>3. QED
    BY <2>1, <2>2
<1>4. PICK raw \in RawValues(read, config), timestamp \in Times :
        LET v == CurrentValue(read, type, raw, Engineering(raw, config), timestamp, Previous(t))
        IN  \/ t \notin DOMAIN store /\ Insert(t, v)
            \/ t \in DOMAIN store /\ Update(t, v)
  BY DEF ApplyProtocolReadResult, Previous
<1>5. returned' = [returned EXCEPT ![t] = Append(@, read.raw)]
  BY DEF ApplyProtocolReadResult
<1>6. raw \in Payload /\ Engineering(raw, config) \in Payload
  <2>1. CASE config = NoConfig
    BY <2>1, <1>2 DEF RawValues, Engineering
  <2>2. CASE config # NoConfig
    <3>1. config \in Config /\ config.value_type \in ValueTypes
      BY <2>2 DEF Config
    <3>2. raw \in Payload
      BY <2>2, <3>1, <1>2, ConvertedIsPayload DEF RawValues
    <3>3. QED
      BY <2>2, <3>1, <3>2, TransformedIsPayload DEF Engineering
  <2>3. QED
    BY <2>1, <2>2
<1>7. /\ Engineering(raw, config).kind = "empty" <=> read.raw.kind = "empty"
      /\ Unconvertible(read.raw, type) => Engineering(raw, config) = read.raw
  <2>1. CASE config = NoConfig
    BY <2>1, <1>4 DEF RawValues, Engineering
  <2>2. CASE config # NoConfig
    <3>1. config \in Config /\ config.value_type \in ValueTypes /\ type = config.value_type
      BY <2>2 DEF Config, TargetType
    <3>2. raw \in Converted(read.raw, config.value_type)
      BY <2>2, <1>4 DEF RawValues
    <3>3. /\ raw.kind = "empty" <=> read.raw.kind = "empty"
          /\ Unconvertible(read.raw, type) => raw = read.raw
      <4> HIDE DEF type
      <4>1. QED
        BY <1>2, <3>1, <3>2, ConvertedKeeps
    <3>4. Unconvertible(read.raw, type) => ~IsNumber(read.raw)
      BY DEF Unconvertible, IsNumber
    <3>5. Engineering(raw, config) = Transformed(raw, config)
      BY <2>2 DEF Engineering
    <3> HIDE DEF type
    <3>6. QED
      BY <1>6, <3>1, <3>3, <3>4, <3>5, TransformedKeeps
  <2>3. QED
    BY <2>1, <2>2
<1> DEFINE v == CurrentValue(read, type, raw, Engineering(raw, config), timestamp, Previous(t))
<1>8. /\ v \in Value
      /\ MarkChanged(v) \in Value
      /\ MarkChanged(v).change_counter = v.change_counter + 1
      /\ v.change_counter = Previous(t).change_counter
      /\ KeepsLastGood(t, v)
      /\ KeepsLastGood(t, MarkChanged(v))
      /\ MarkChanged(v).quality = v.quality
      /\ KeepsPayload(read.raw, v) /\ KeepsPayload(read.raw, MarkChanged(v))
  <2> HIDE DEF t, type
  <2>1. /\ v \in Value
        /\ MarkChanged(v) \in Value
        /\ MarkChanged(v).change_counter = v.change_counter + 1
        /\ v.change_counter = Previous(t).change_counter
        /\ KeepsLastGood(t, v)
        /\ KeepsLastGood(t, MarkChanged(v))
        /\ MarkChanged(v).quality = v.quality
        /\ v.engineering = Engineering(raw, config)
        /\ MarkChanged(v).engineering = Engineering(raw, config)
        /\ v.value_type = type /\ MarkChanged(v).value_type = type
    BY <1>1, <1>3, <1>6, CurrentValueFacts
  <2> HIDE DEF v
  <2>2. KeepsPayload(read.raw, v) /\ KeepsPayload(read.raw, MarkChanged(v))
    BY <2>1, <1>7 DEF KeepsPayload
  <2>3. QED
    BY <2>1, <2>2
<1>9. \/ t \notin DOMAIN store /\ Insert(t, v)
      \/ t \in DOMAIN store /\ Update(t, v)
  BY <1>4
<1> HIDE DEF t, type, v
<1>10. CASE t \notin DOMAIN store /\ Insert(t, v)
  <2> DEFINE e == Event("NotInitialized", MarkChanged(v))
  <2>1. e \in EventRecord /\ Tells(t, e, MarkChanged(v))
    BY <1>8, <1>10, EventFacts DEF Tells
  <2>2. Upsert(t, MarkChanged(v), <<e>>)
    BY <1>10 DEF Insert
  <2> HIDE DEF e
  <2>3. Counted(t, MarkChanged(v), <<e>>)
    BY <1>8, <2>1 DEF Counted
  <2>4. <<e>> \in Seq(EventRecord)
    BY <2>1
  <2>5. QED
    BY <1>1, <1>2, <1>5, <1>8, <2>2, <2>3, <2>4 DEF Stored, t
<1>11. CASE t \in DOMAIN store /\ Changed(store[t], v) /\ Update(t, v)
  <2> DEFINE e == Event(store[t].quality, MarkChanged(v))
  <2>0. store[t].quality \in Qualities
    BY <1>11 DEF TypeOK, Value
  <2>1. e \in EventRecord /\ Tells(t, e, MarkChanged(v))
    BY <1>8, <1>11, <2>0, EventFacts DEF Tells
  <2>2. Upsert(t, MarkChanged(v), <<e>>)
    BY <1>11 DEF Update
  <2> HIDE DEF e
  <2>3. Counted(t, MarkChanged(v), <<e>>)
    BY <1>8, <2>1 DEF Counted
  <2>4. <<e>> \in Seq(EventRecord)
    BY <2>1
  <2>5. QED
    BY <1>1, <1>2, <1>5, <1>8, <2>2, <2>3, <2>4 DEF Stored, t
<1>12. CASE t \in DOMAIN store /\ ~Changed(store[t], v) /\ Update(t, v)
  <2>1. Upsert(t, v, <<>>)
    BY <1>12 DEF Update
  <2>2. store[t].engineering = v.engineering /\ store[t].quality = v.quality
    BY <1>12 DEF Changed, Differ
  <2>3. Silent(t, v, <<>>)
    BY <1>8, <1>12, <2>2 DEF Silent, Previous
  <2>4. <<>> \in Seq(EventRecord)
    OBVIOUS
  <2>5. QED
    BY <1>1, <1>2, <1>5, <1>8, <2>1, <2>3, <2>4 DEF Stored, t
<1>13. QED
  BY <1>9, <1>10, <1>11, <1>12
-----------------------------------------------------------------------------
(* The inductive invariant.  To the properties it adds that a tag outside  *)
(* the store has no reads (an insert begins them), that no read was stored *)
(* with a greater number than the store has now (the read that makes the   *)
(* next event is the first with its number), and that a good value is its  *)
(* own last good value.  The last good value is first said of the stored   *)
(* reads alone; together with what is stored of a returned payload this is *)
(* LastGoodIsLatestGood.                                                   *)

AbsentWithoutReads ==
  \A t \in TagIds \ DOMAIN store : reads[t] = <<>>

ReadsCountedSoFar ==
  \A t \in DOMAIN store :
    \A i \in 1..Len(reads[t]) : reads[t][i].change_counter <= store[t].change_counter

ReturnedAndStored ==
  \A t \in TagIds :
    /\ Len(returned[t]) = Len(reads[t])
    /\ \A i \in 1..Len(reads[t]) : KeepsPayload(returned[t][i], reads[t][i])

GoodIsLastGood ==
  \A t \in DOMAIN store :
    CanUpdateLastGood(store[t].quality, store[t].engineering) =>
      /\ store[t].last_good = store[t].engineering
      /\ store[t].last_good_timestamp = store[t].timestamp

GoodRead(read) == read.quality \in GoodQualities /\ read.engineering.kind # "empty"

LastGoodOf(history, value) ==
  \/ /\ \A i \in 1..Len(history) : ~GoodRead(history[i])
     /\ value.last_good = Empty /\ value.last_good_timestamp = NoTime
  \/ \E i \in 1..Len(history) :
       /\ GoodRead(history[i])
       /\ \A j \in 1..Len(history) : GoodRead(history[j]) => j <= i
       /\ value.last_good = history[i].engineering
       /\ value.last_good_timestamp = history[i].timestamp

LastGoodOfReads == \A t \in DOMAIN store : LastGoodOf(reads[t], store[t])

IInv ==
  /\ TypeOK
  /\ AbsentWithoutReads
  /\ ReadsCountedSoFar
  /\ ReturnedAndStored
  /\ GoodIsLastGood
  /\ LastGoodOfReads
  /\ CounterNumbersEvents
  /\ QuietMeansUnchanged

(* What CounterNumbersEvents says of one event, and of the last one.       *)

Inserts(e) == e.change_counter = 1 /\ e.previous_quality = "NotInitialized"

Continues(e, before) ==
  /\ e.change_counter = before.change_counter + 1
  /\ e.previous_quality = before.current_quality

Chained(s) == \A i \in 1..Len(s) : Inserts(s[i]) \/ (i > 1 /\ Continues(s[i], s[i - 1]))

EndsWith(s, value) ==
  /\ s # <<>>
  /\ value.change_counter = Latest(s).change_counter
  /\ value.quality = Latest(s).current_quality

LEMMA CounterByTag ==
  CounterNumbersEvents <=>
    \A t \in TagIds :
      Chained(events[t]) /\ (t \in DOMAIN store => EndsWith(events[t], store[t]))
BY Zenon DEF CounterNumbersEvents, Chained, Inserts, Continues, EndsWith

LEMMA CounterByTagNext ==
  CounterNumbersEvents' <=>
    \A t \in TagIds :
      Chained(events'[t]) /\ (t \in DOMAIN store' => EndsWith(events'[t], store'[t]))
BY Zenon DEF CounterNumbersEvents, Chained, Inserts, Continues, EndsWith

(* Of the reads and the payloads returned for them. *)
LEMMA LastGoodReturned ==
  ASSUME TypeOK, ReturnedAndStored, LastGoodOfReads
  PROVE  LastGoodIsLatestGood
<1> SUFFICES ASSUME NEW t \in DOMAIN store
             PROVE  LET good == {i \in 1..Len(reads[t]) :
                                   /\ reads[t][i].quality \in GoodQualities
                                   /\ returned[t][i].kind # "empty"}
                    IN  \/ /\ good = {} /\ store[t].last_good = Empty
                           /\ store[t].last_good_timestamp = NoTime
                        \/ \E i \in good :
                             /\ \A j \in good : j <= i
                             /\ store[t].last_good = reads[t][i].engineering
                             /\ store[t].last_good_timestamp = reads[t][i].timestamp
                             /\ Unconvertible(returned[t][i], reads[t][i].value_type)
                                  => store[t].last_good = returned[t][i]
  BY Zenon DEF LastGoodIsLatestGood
<1> DEFINE good == {i \in 1..Len(reads[t]) :
                      reads[t][i].quality \in GoodQualities /\ returned[t][i].kind # "empty"}
<1>1. t \in TagIds
  BY DEF TypeOK
<1>2. \A i \in 1..Len(reads[t]) : KeepsPayload(returned[t][i], reads[t][i])
  BY <1>1 DEF ReturnedAndStored
<1>3. \A i \in 1..Len(reads[t]) : i \in good <=> GoodRead(reads[t][i])
  BY <1>2 DEF KeepsPayload, GoodRead
<1>4. good \subseteq 1..Len(reads[t])
  OBVIOUS
<1> HIDE DEF good
<1>5. LastGoodOf(reads[t], store[t])
  BY DEF LastGoodOfReads
<1>6. CASE \A i \in 1..Len(reads[t]) : ~GoodRead(reads[t][i])
  <2>1. good = {}
    BY <1>3, <1>4, <1>6
  <2>2. store[t].last_good = Empty /\ store[t].last_good_timestamp = NoTime
    BY <1>5, <1>6 DEF LastGoodOf
  <2>3. QED
    BY <2>1, <2>2 DEF good
<1>7. CASE ~\A i \in 1..Len(reads[t]) : ~GoodRead(reads[t][i])
  <2>1. PICK i \in 1..Len(reads[t]) :
          /\ GoodRead(reads[t][i])
          /\ \A j \in 1..Len(reads[t]) : GoodRead(reads[t][j]) => j <= i
          /\ store[t].last_good = reads[t][i].engineering
          /\ store[t].last_good_timestamp = reads[t][i].timestamp
    BY <1>5, <1>7 DEF LastGoodOf
  <2>2. i \in good /\ \A j \in good : j <= i
    BY <1>3, <1>4, <2>1
  <2>3. Unconvertible(returned[t][i], reads[t][i].value_type)
          => store[t].last_good = returned[t][i]
    BY <1>2, <2>1 DEF KeepsPayload
  <2>4. QED
    BY <2>1, <2>2, <2>3 DEF good
<1>8. QED
  BY <1>6, <1>7

(* What Upsert writes, tag by tag. *)
LEMMA UpsertFacts ==
  ASSUME TypeOK, NEW t \in TagIds, NEW payload \in Payload, NEW value \in Value,
         NEW added \in Seq(EventRecord), Upsert(t, value, added),
         returned' = [returned EXCEPT ![t] = Append(@, payload)]
  PROVE  /\ DOMAIN store' = DOMAIN store \cup {t}
         /\ store'[t] = value
         /\ \A x \in DOMAIN store \ {t} : store'[x] = store[x]
         /\ reads'[t] = Append(reads[t], value)
         /\ returned'[t] = Append(returned[t], payload)
         /\ events'[t] = events[t] \o added
         /\ \A x \in TagIds \ {t} : /\ reads'[x] = reads[x] /\ returned'[x] = returned[x]
                                   /\ events'[x] = events[x]
         /\ TypeOK'
<1>1. /\ reads \in [TagIds -> Seq(Value)] /\ events \in [TagIds -> Seq(EventRecord)]
      /\ returned \in [TagIds -> Seq(Payload)]
  BY DEF TypeOK
<1>2. DOMAIN store' = DOMAIN store \cup {t} /\ store'[t] = value
  BY DEF Upsert
<1>3. \A x \in DOMAIN store \ {t} : store'[x] = store[x]
  BY DEF Upsert
<1>4. /\ reads'[t] = Append(reads[t], value) /\ events'[t] = events[t] \o added
      /\ returned'[t] = Append(returned[t], payload)
      /\ \A x \in TagIds \ {t} : /\ reads'[x] = reads[x] /\ returned'[x] = returned[x]
                                /\ events'[x] = events[x]
  BY <1>1 DEF Upsert
<1>5. /\ Append(reads[t], value) \in Seq(Value) /\ events[t] \o added \in Seq(EventRecord)
      /\ Append(returned[t], payload) \in Seq(Payload)
  BY <1>1, AppendFacts, ConcatFacts
<1>6. /\ reads' \in [TagIds -> Seq(Value)] /\ events' \in [TagIds -> Seq(EventRecord)]
      /\ returned' \in [TagIds -> Seq(Payload)]
  BY <1>1, <1>5 DEF Upsert
<1>7. DOMAIN store' \subseteq TagIds /\ \A x \in DOMAIN store' : store'[x] \in Value
  BY <1>2, <1>3 DEF TypeOK
<1>8. QED
  BY <1>2, <1>3, <1>4, <1>6, <1>7 DEF TypeOK

(* The histories of a tag before and after an apply. *)
LEMMA StoredFacts ==
  ASSUME IInv, NEW t \in TagIds, NEW payload \in Payload, NEW value \in Value,
         NEW added \in Seq(EventRecord), Stored(t, payload, value, added)
  PROVE  /\ reads[t] \in Seq(Value) /\ events[t] \in Seq(EventRecord)
         /\ Len(reads[t]) \in Nat /\ Len(events[t]) \in Nat
         /\ Len(reads'[t]) = Len(reads[t]) + 1
         /\ reads'[t][Len(reads[t]) + 1] = value
         /\ \A i \in 1..Len(reads[t]) : reads'[t][i] = reads[t][i]
         /\ Len(returned'[t]) = Len(returned[t]) + 1
         /\ returned'[t][Len(returned[t]) + 1] = payload
         /\ \A i \in 1..Len(returned[t]) : returned'[t][i] = returned[t][i]
         /\ \A i \in 1..Len(events[t]) : events'[t][i] = events[t][i]
         /\ \/ /\ Counted(t, value, added) /\ Len(events'[t]) = Len(events[t]) + 1
               /\ Tells(t, events'[t][Len(events[t]) + 1], value)
            \/ Silent(t, value, added) /\ events'[t] = events[t]
<1>1. /\ reads[t] \in Seq(Value) /\ events[t] \in Seq(EventRecord)
      /\ returned[t] \in Seq(Payload)
  BY DEF IInv, TypeOK
<1>2. /\ reads'[t] = Append(reads[t], value) /\ events'[t] = events[t] \o added
      /\ returned'[t] = Append(returned[t], payload)
  <2>1. /\ reads \in [TagIds -> Seq(Value)] /\ events \in [TagIds -> Seq(EventRecord)]
        /\ returned \in [TagIds -> Seq(Payload)]
    BY DEF IInv, TypeOK
  <2>2. /\ reads' = [reads EXCEPT ![t] = Append(@, value)]
        /\ events' = [events EXCEPT ![t] = @ \o added]
        /\ returned' = [returned EXCEPT ![t] = Append(@, payload)]
    BY DEF Stored, Upsert
  <2>3. QED
    BY <2>1, <2>2
<1>3. /\ Len(reads'[t]) = Len(reads[t]) + 1
      /\ reads'[t][Len(reads[t]) + 1] = value
      /\ \A i \in 1..Len(reads[t]) : reads'[t][i] = reads[t][i]
  BY <1>1, <1>2, AppendFacts
<1>4. /\ Len(returned'[t]) = Len(returned[t]) + 1
      /\ returned'[t][Len(returned[t]) + 1] = payload
      /\ \A i \in 1..Len(returned[t]) : returned'[t][i] = returned[t][i]
  BY <1>1, <1>2, AppendFacts
<1>5. /\ Len(events'[t]) = Len(events[t]) + Len(added)
      /\ \A i \in 1..Len(events[t]) : events'[t][i] = events[t][i]
      /\ \A i \in 1..Len(added) : events'[t][Len(events[t]) + i] = added[i]
  BY <1>1, <1>2, ConcatFacts
<1>6. Len(reads[t]) \in Nat /\ Len(events[t]) \in Nat
  BY <1>1
<1>7. CASE Counted(t, value, added)
  <2>1. PICK e \in EventRecord : added = <<e>> /\ Tells(t, e, value)
    BY <1>7 DEF Counted
  <2>2. Len(added) = 1 /\ added[1] = e
    BY <2>1
  <2>3. Len(events'[t]) = Len(events[t]) + 1 /\ events'[t][Len(events[t]) + 1] = e
    BY <1>5, <2>2
  <2>4. QED
    BY <1>1, <1>3, <1>4, <1>5, <1>6, <1>7, <2>1, <2>3
<1>8. CASE Silent(t, value, added)
  <2>1. added = <<>>
    BY <1>8 DEF Silent
  <2>2. events'[t] = events[t]
    BY <1>1, <1>2, <2>1, ConcatFacts
  <2>3. QED
    BY <1>1, <1>3, <1>4, <1>5, <1>6, <1>8, <2>2
<1>9. QED
  BY <1>7, <1>8 DEF Stored

-----------------------------------------------------------------------------
(* A step stores a value for one tag, removes tags or changes nothing. *)

LEMMA StepIs ==
  ASSUME TypeOK, Next
  PROVE  \/ UNCHANGED vars
         \/ \E t \in TagIds :
              \E payload \in Payload, value \in Value, added \in Seq(EventRecord) :
                Stored(t, payload, value, added)
         \/ \E gone \in SUBSET TagIds : Remove(gone)
<1>1. ASSUME NEW read \in Read, NEW config \in Configs \cup {NoConfig},
             ApplyProtocolReadResult(read, config)
      PROVE  \/ UNCHANGED vars
             \/ \E t \in TagIds :
                  \E payload \in Payload, value \in Value, added \in Seq(EventRecord) :
                    Stored(t, payload, value, added)
  <2>1. CASE Refused(read, config)
    BY <1>1, <2>1 DEF ApplyProtocolReadResult
  <2>2. CASE ~Refused(read, config)
    BY <1>1, <2>2, ApplyStores
  <2>3. QED
    BY <2>1, <2>2
<1>2. ASSUME NEW t \in TagIds, RemoveByTagId(t)
      PROVE  \E gone \in SUBSET TagIds : Remove(gone)
  BY <1>2 DEF RemoveByTagId
<1>3. ASSUME Clear
      PROVE  \E gone \in SUBSET TagIds : Remove(gone)
  BY <1>3 DEF Clear, TypeOK
<1>4. QED
  BY <1>1, <1>2, <1>3 DEF Next

(* Storing a value keeps every part of the invariant; only the histories   *)
(* of its tag are concerned.                                               *)
LEMMA StoredKeepsIInv ==
  ASSUME IInv, NEW t \in TagIds, NEW payload \in Payload, NEW value \in Value,
         NEW added \in Seq(EventRecord), Stored(t, payload, value, added)
  PROVE  IInv'
<1> DEFINE n == Len(reads[t])
           m == Len(events[t])
<1>0. /\ DOMAIN store' = DOMAIN store \cup {t}
      /\ store'[t] = value
      /\ \A x \in DOMAIN store \ {t} : store'[x] = store[x]
      /\ \A x \in TagIds \ {t} : /\ reads'[x] = reads[x] /\ returned'[x] = returned[x]
                                /\ events'[x] = events[x]
      /\ TypeOK'
  BY UpsertFacts DEF IInv, Stored
<1>1. /\ n \in Nat /\ m \in Nat
      /\ Len(reads'[t]) = n + 1
      /\ reads'[t][n + 1] = value
      /\ \A i \in 1..n : reads'[t][i] = reads[t][i]
      /\ \A i \in 1..m : events'[t][i] = events[t][i]
      /\ \/ /\ Counted(t, value, added) /\ Len(events'[t]) = m + 1
            /\ Tells(t, events'[t][m + 1], value)
         \/ Silent(t, value, added) /\ events'[t] = events[t]
  BY StoredFacts
<1>2. /\ value.change_counter \in Nat
      /\ Previous(t).change_counter \in Nat
      /\ t \in DOMAIN store => Previous(t) = store[t]
      /\ \/ value.change_counter = Previous(t).change_counter + 1
         \/ value.change_counter = Previous(t).change_counter /\ t \in DOMAIN store
  <2>1. value.change_counter \in Nat
    BY DEF Value
  <2>2. Previous(t).change_counter \in Nat
    BY PreviousFacts DEF IInv
  <2>3. t \in DOMAIN store => Previous(t) = store[t]
    BY DEF Previous
  <2>4. QED
    BY <1>1, <2>1, <2>2, <2>3 DEF Counted, Silent
<1>3. DOMAIN store \subseteq TagIds /\ DOMAIN store' \subseteq TagIds
  BY <1>0 DEF IInv, TypeOK
<1>4. \A i \in 1..n : /\ reads[t][i].change_counter \in Nat
                      /\ reads[t][i].change_counter <= Previous(t).change_counter
  <2>1. CASE t \in DOMAIN store
    <3>1. \A i \in 1..n : reads[t][i] \in Value
      BY StoredFacts
    <3>2. \A i \in 1..n : reads[t][i].change_counter \in Nat
      BY <3>1 DEF Value
    <3>3. QED
      BY <1>2, <2>1, <3>2 DEF IInv, ReadsCountedSoFar
  <2>2. CASE t \notin DOMAIN store
    <3>1. n = 0
      BY <2>2 DEF IInv, AbsentWithoutReads
    <3>2. QED
      BY <3>1
  <2>3. QED
    BY <2>1, <2>2
<1> HIDE DEF n, m
<1>5. ReadsCountedSoFar'
  <2>1. \A i \in 1..(n + 1) : reads'[t][i].change_counter <= value.change_counter
    <3> TAKE i \in 1..(n + 1)
    <3>1. CASE i = n + 1
      BY <1>1, <1>2, <3>1
    <3>2. CASE i # n + 1
      <4>1. i \in 1..n
        BY <1>1, <3>2
      <4>2. /\ reads'[t][i] = reads[t][i]
            /\ reads[t][i].change_counter <= Previous(t).change_counter
            /\ reads[t][i].change_counter \in Nat
        BY <1>1, <1>4, <4>1
      <4>3. QED
        BY <4>2, <1>2
    <3>3. QED
      BY <3>1, <3>2
  <2>2. QED
    BY <1>0, <1>1, <1>3, <2>1 DEF IInv, ReadsCountedSoFar
<1>6. GoodIsLastGood'
  <2>1. CanUpdateLastGood(value.quality, value.engineering) =>
          value.last_good = value.engineering /\ value.last_good_timestamp = value.timestamp
    BY DEF Stored, KeepsLastGood
  <2>2. QED
    BY <1>0, <2>1 DEF IInv, GoodIsLastGood
<1>7. LastGoodOfReads'
  <2>1. LastGoodOf(reads[t], Previous(t))
    <3>1. CASE t \in DOMAIN store
      BY <1>2, <3>1 DEF IInv, LastGoodOfReads
    <3>2. CASE t \notin DOMAIN store
      <4>1. Len(reads[t]) = 0
        BY <3>2 DEF IInv, AbsentWithoutReads
      <4>2. QED
        BY <3>2, <4>1 DEF LastGoodOf, Previous, Fresh
    <3>3. QED
      BY <3>1, <3>2
  <2>2. GoodRead(value) <=> CanUpdateLastGood(value.quality, value.engineering)
    BY DEF GoodRead, CanUpdateLastGood
  <2>3. LastGoodOf(reads'[t], value)
    <3>1. CASE GoodRead(value)
      <4>1. value.last_good = value.engineering /\ value.last_good_timestamp = value.timestamp
        BY <3>1, <2>2 DEF Stored, KeepsLastGood
      <4>2. /\ n + 1 \in 1..Len(reads'[t])
            /\ \A j \in 1..Len(reads'[t]) : j <= n + 1
        BY <1>1
      <4>3. QED
        BY <1>1, <3>1, <4>1, <4>2 DEF LastGoodOf
    <3>2. CASE ~GoodRead(value)
      <4>1. value.last_good = Previous(t).last_good
            /\ value.last_good_timestamp = Previous(t).last_good_timestamp
        BY <3>2, <2>2 DEF Stored, KeepsLastGood
      <4>2. \A i \in 1..(n + 1) : GoodRead(reads'[t][i]) => i \in 1..n /\ GoodRead(reads[t][i])
        <5> TAKE i \in 1..(n + 1)
        <5>1. CASE i = n + 1
          BY <1>1, <3>2, <5>1
        <5>2. CASE i # n + 1
          <6>1. i \in 1..n
            BY <1>1, <5>2
          <6>2. QED
            BY <1>1, <6>1
        <5>3. QED
          BY <5>1, <5>2
      <4>3. CASE \A i \in 1..n : ~GoodRead(reads[t][i])
                 /\ Previous(t).last_good = Empty /\ Previous(t).last_good_timestamp = NoTime
        BY <1>1, <4>1, <4>2, <4>3, <2>1 DEF LastGoodOf, n
      <4>4. CASE \E i \in 1..n : /\ GoodRead(reads[t][i])
                                 /\ \A j \in 1..n : GoodRead(reads[t][j]) => j <= i
                                 /\ Previous(t).last_good = reads[t][i].engineering
                                 /\ Previous(t).last_good_timestamp = reads[t][i].timestamp
        <5>1. PICK i \in 1..n : /\ GoodRead(reads[t][i])
                                /\ \A j \in 1..n : GoodRead(reads[t][j]) => j <= i
                                /\ Previous(t).last_good = reads[t][i].engineering
                                /\ Previous(t).last_good_timestamp = reads[t][i].timestamp
          BY <4>4
        <5>2. i \in 1..(n + 1) /\ reads'[t][i] = reads[t][i]
          BY <1>1
        <5>3. \A j \in 1..(n + 1) : GoodRead(reads'[t][j]) => j <= i
          BY <4>2, <5>1
        <5>4. QED
          BY <1>1, <4>1, <5>1, <5>2, <5>3 DEF LastGoodOf
      <4>5. QED
        BY <2>1, <4>3, <4>4 DEF LastGoodOf, n
    <3>3. QED
      BY <3>1, <3>2
  <2>4. \A x \in DOMAIN store \ {t} : LastGoodOf(reads[x], store[x])
    BY DEF IInv, LastGoodOfReads
  <2>5. QED
    BY <1>0, <1>3, <2>3, <2>4 DEF LastGoodOfReads
<1>8. CounterNumbersEvents'
  <2>1. /\ events[t] \in Seq(EventRecord) /\ Chained(events[t])
        /\ t \in DOMAIN store => EndsWith(events[t], store[t])
    BY StoredFacts, CounterByTag DEF IInv
  <2>2. Chained(events'[t]) /\ EndsWith(events'[t], value)
    <3>1. CASE Silent(t, value, added) /\ events'[t] = events[t]
      BY <2>1, <3>1 DEF Silent, EndsWith
    <3>2. CASE /\ Counted(t, value, added) /\ Len(events'[t]) = m + 1
               /\ Tells(t, events'[t][m + 1], value)
      <4> DEFINE e == events'[t][m + 1]
      <4>1. EndsWith(events'[t], value)
        <5>1. events'[t] # <<>>
          <6>1. m + 1 # 0
            BY <1>1
          <6>2. QED
            BY <3>2, <6>1
        <5>2. Latest(events'[t]) = e
          BY <3>2 DEF Latest
        <5>3. QED
          BY <3>2, <5>1, <5>2 DEF EndsWith, Tells
      <4>2. Inserts(e) \/ (m + 1 > 1 /\ Continues(e, events'[t][m]))
        <5>1. CASE t \in DOMAIN store
          <6>1. m \in 1..m /\ Latest(events[t]) = events[t][m]
            BY <1>1, <2>1, <5>1 DEF EndsWith, Latest, m
          <6>2. events'[t][m] = events[t][m]
            BY <1>1, <6>1
          <6>3. /\ e.change_counter = events[t][m].change_counter + 1
                /\ e.previous_quality = events[t][m].current_quality
            BY <1>2, <2>1, <3>2, <5>1, <6>1 DEF EndsWith, Tells, Counted
          <6>4. QED
            BY <1>1, <6>1, <6>2, <6>3 DEF Continues
        <5>2. CASE t \notin DOMAIN store
          <6>1. value.change_counter = 1
            BY <3>2, <5>2 DEF Counted, Previous, Fresh
          <6>2. QED
            BY <3>2, <5>2, <6>1 DEF Inserts, Tells
        <5>3. QED
          BY <5>1, <5>2
      <4> HIDE DEF e
      <4>3. Chained(events'[t])
        <5> SUFFICES ASSUME NEW i \in 1..(m + 1)
                     PROVE  \/ Inserts(events'[t][i])
                            \/ i > 1 /\ Continues(events'[t][i], events'[t][i - 1])
          BY <3>2 DEF Chained
        <5>1. CASE i = m + 1
          <6>1. i - 1 = m
            BY <1>1, <5>1
          <6>2. QED
            BY <4>2, <5>1, <6>1 DEF e
        <5>2. CASE i # m + 1
          <6>1. i \in 1..m /\ (i > 1 => i - 1 \in 1..m)
            BY <1>1, <5>2
          <6>2. Inserts(events[t][i]) \/ (i > 1 /\ Continues(events[t][i], events[t][i - 1]))
            BY <2>1, <6>1 DEF Chained, m
          <6>3. events'[t][i] = events[t][i] /\ (i > 1 => events'[t][i - 1] = events[t][i - 1])
            BY <1>1, <6>1
          <6>4. QED
            BY <6>2, <6>3
        <5>3. QED
          BY <5>1, <5>2
      <4>4. QED
        BY <4>1, <4>3
    <3>3. QED
      BY <1>1, <3>1, <3>2
  <2>3. \A x \in TagIds \ {t} :
          Chained(events[x]) /\ (x \in DOMAIN store => EndsWith(events[x], store[x]))
    BY CounterByTag DEF IInv
  <2>4. \A x \in TagIds :
          Chained(events'[x]) /\ (x \in DOMAIN store' => EndsWith(events'[x], store'[x]))
    BY <1>0, <2>2, <2>3
  <2>5. QED
    BY <2>4, CounterByTagNext
<1>9. QuietMeansUnchanged'
  <2>1. \E i \in 1..(n + 1) :
          /\ reads'[t][i].change_counter = value.change_counter
          /\ \A j \in 1..(i - 1) : reads'[t][j].change_counter < value.change_counter
          /\ reads'[t][i].engineering = value.engineering
          /\ reads'[t][i].quality = value.quality
    <3>1. CASE Counted(t, value, added)
      <4>1. \A j \in 1..n : reads'[t][j].change_counter < value.change_counter
        <5> TAKE j \in 1..n
        <5>1. /\ reads'[t][j] = reads[t][j] /\ reads[t][j].change_counter \in Nat
              /\ reads[t][j].change_counter <= Previous(t).change_counter
          BY <1>1, <1>4
        <5>2. QED
          BY <5>1, <1>2, <3>1 DEF Counted
      <4>2. n + 1 \in 1..(n + 1) /\ (n + 1) - 1 = n
        BY <1>1
      <4>3. QED
        BY <1>1, <4>1, <4>2
    <3>2. CASE Silent(t, value, added)
      <4>1. /\ t \in DOMAIN store /\ value.change_counter = store[t].change_counter
            /\ value.engineering = store[t].engineering /\ value.quality = store[t].quality
        BY <3>2 DEF Silent
      <4>2. PICK i \in 1..n :
              /\ reads[t][i].change_counter = store[t].change_counter
              /\ \A j \in 1..(i - 1) : reads[t][j].change_counter < store[t].change_counter
              /\ reads[t][i].engineering = store[t].engineering
              /\ reads[t][i].quality = store[t].quality
        BY <4>1 DEF IInv, QuietMeansUnchanged, n
      <4>3. \A j \in 1..(i - 1) : reads'[t][j] = reads[t][j]
        BY <1>1
      <4>4. i \in 1..(n + 1) /\ reads'[t][i] = reads[t][i]
        BY <1>1
      <4>5. QED
        BY <4>1, <4>2, <4>3, <4>4
    <3>3. QED
      BY <1>1, <3>1, <3>2
  <2>2. SUFFICES ASSUME NEW x \in DOMAIN store'
                 PROVE  \E i \in 1..Len(reads'[x]) :
                          /\ reads'[x][i].change_counter = store'[x].change_counter
                          /\ \A j \in 1..(i - 1) :
                               reads'[x][j].change_counter < store'[x].change_counter
                          /\ reads'[x][i].engineering = store'[x].engineering
                          /\ reads'[x][i].quality = store'[x].quality
    BY Zenon DEF QuietMeansUnchanged
  <2>3. CASE x = t
    BY <1>0, <1>1, <2>1, <2>3
  <2>4. CASE x # t
    <3>1. x \in DOMAIN store /\ reads'[x] = reads[x] /\ store'[x] = store[x]
      BY <1>0, <1>3, <2>4
    <3>2. QED
      BY <3>1, Zenon DEF IInv, QuietMeansUnchanged
  <2>5. QED
    BY <2>3, <2>4
<1>10. AbsentWithoutReads'
  BY <1>0 DEF IInv, AbsentWithoutReads
<1>11. ReturnedAndStored'
  <2>1. Len(returned[t]) = n /\ \A i \in 1..n : KeepsPayload(returned[t][i], reads[t][i])
    BY DEF IInv, ReturnedAndStored, n
  <2>2. /\ Len(returned'[t]) = n + 1 /\ returned'[t][n + 1] = payload
        /\ \A i \in 1..n : returned'[t][i] = returned[t][i]
    BY <2>1, StoredFacts
  <2>3. KeepsPayload(payload, value)
    BY DEF Stored
  <2>4. \A i \in 1..(n + 1) : KeepsPayload(returned'[t][i], reads'[t][i])
    <3> TAKE i \in 1..(n + 1)
    <3>1. CASE i = n + 1
      BY <1>1, <2>2, <2>3, <3>1
    <3>2. CASE i # n + 1
      <4>1. i \in 1..n
        BY <1>1, <3>2
      <4>2. QED
        BY <1>1, <2>1, <2>2, <4>1
    <3>3. QED
      BY <3>1, <3>2
  <2>5. QED
    BY <1>0, <1>1, <2>2, <2>4 DEF IInv, ReturnedAndStored
<1>12. QED
  BY <1>0, <1>5, <1>6, <1>7, <1>8, <1>9, <1>10, <1>11 DEF IInv

(* Removing tags takes their reads along and leaves the events told. *)
LEMMA RemoveKeepsIInv ==
  ASSUME IInv, NEW gone \in SUBSET TagIds, Remove(gone)
  PROVE  IInv'
<1>1. /\ DOMAIN store' = DOMAIN store \ gone
      /\ \A t \in DOMAIN store' : store'[t] = store[t]
      /\ events' = events
  BY DEF Remove
<1>2. DOMAIN store \subseteq TagIds
  BY DEF IInv, TypeOK
<1>3. /\ \A t \in gone : reads'[t] = <<>> /\ returned'[t] = <<>>
      /\ \A t \in TagIds \ gone : reads'[t] = reads[t] /\ returned'[t] = returned[t]
  BY DEF Remove
<1>4. TypeOK'
  <2>1. reads \in [TagIds -> Seq(Value)] /\ returned \in [TagIds -> Seq(Payload)]
    BY DEF IInv, TypeOK
  <2>2. reads' \in [TagIds -> Seq(Value)]
    <3>1. \A t \in TagIds : (IF t \in gone THEN <<>> ELSE reads[t]) \in Seq(Value)
      BY <2>1
    <3>2. QED
      BY <3>1 DEF Remove
  <2>3. returned' \in [TagIds -> Seq(Payload)]
    <3>1. \A t \in TagIds : (IF t \in gone THEN <<>> ELSE returned[t]) \in Seq(Payload)
      BY <2>1
    <3>2. QED
      BY <3>1 DEF Remove
  <2>4. QED
    BY <1>1, <1>2, <2>2, <2>3 DEF IInv, TypeOK
<1>5. AbsentWithoutReads'
  BY <1>1, <1>3 DEF IInv, AbsentWithoutReads
<1>6. ReturnedAndStored'
  <2>1. \A t \in gone : Len(reads'[t]) = 0 /\ Len(returned'[t]) = 0
    BY <1>3
  <2>2. QED
    BY <1>3, <2>1 DEF IInv, ReturnedAndStored
<1>7. \A t \in DOMAIN store' :
        t \in DOMAIN store /\ store'[t] = store[t] /\ reads'[t] = reads[t]
  BY <1>1, <1>2, <1>3
<1>8. ReadsCountedSoFar' /\ GoodIsLastGood' /\ LastGoodOfReads'
  BY <1>7 DEF IInv, ReadsCountedSoFar, GoodIsLastGood, LastGoodOfReads
<1>9. CounterNumbersEvents'
  <2>1. \A t \in TagIds :
          Chained(events'[t]) /\ (t \in DOMAIN store' => EndsWith(events'[t], store'[t]))
    BY <1>1, <1>7, CounterByTag DEF IInv
  <2>2. QED
    BY <2>1, CounterByTagNext
<1>10. QuietMeansUnchanged'
  BY <1>7 DEF IInv, QuietMeansUnchanged
<1>11. QED
  BY <1>4, <1>5, <1>6, <1>8, <1>9, <1>10 DEF IInv

-----------------------------------------------------------------------------
(* The inductive invariant of RuntimeValues: after any reads and removals, *)
(* under whatever configurations, the store, the reads and the events of   *)
(* every tag belong together.                                              *)
THEOREM Safety == Spec => []IInv
<1>1. Init => IInv
  <2> SUFFICES ASSUME Init PROVE IInv
    OBVIOUS
  <2>1. DOMAIN store = {}
    BY DEF Init
  <2>2. /\ reads = [t \in TagIds |-> <<>>] /\ returned = [t \in TagIds |-> <<>>]
        /\ events = [t \in TagIds |-> <<>>]
    BY DEF Init
  <2>3. \A t \in TagIds : /\ reads[t] = <<>> /\ Len(reads[t]) = 0
                          /\ Len(returned[t]) = 0 /\ Len(events[t]) = 0
    BY <2>2
  <2>4. TypeOK
    BY <2>1, <2>2 DEF TypeOK
  <2>5. AbsentWithoutReads /\ ReturnedAndStored
    BY <2>3 DEF AbsentWithoutReads, ReturnedAndStored
  <2>6. ReadsCountedSoFar /\ GoodIsLastGood /\ LastGoodOfReads /\ QuietMeansUnchanged
    BY <2>1 DEF ReadsCountedSoFar, GoodIsLastGood, LastGoodOfReads, QuietMeansUnchanged
  <2>7. CounterNumbersEvents
    <3>1. \A t \in TagIds : Chained(events[t])
      BY <2>3 DEF Chained
    <3>2. QED
      BY <2>1, <3>1, CounterByTag
  <2>8. QED
    BY <2>4, <2>5, <2>6, <2>7 DEF IInv
<1>2. IInv /\ [Next]_vars => IInv'
  <2> SUFFICES ASSUME IInv, [Next]_vars PROVE IInv'
    OBVIOUS
  <2>1. CASE UNCHANGED vars
    <3>1. store' = store /\ reads' = reads /\ returned' = returned /\ events' = events
      BY <2>1 DEF vars
    <3>2. TypeOK' /\ AbsentWithoutReads' /\ ReadsCountedSoFar' /\ ReturnedAndStored'
      BY <3>1 DEF IInv, TypeOK, AbsentWithoutReads, ReadsCountedSoFar, ReturnedAndStored
    <3>3. GoodIsLastGood' /\ LastGoodOfReads' /\ CounterNumbersEvents'
      BY <3>1 DEF IInv, GoodIsLastGood, LastGoodOfReads, CounterNumbersEvents
    <3>4. QuietMeansUnchanged'
      BY <3>1 DEF IInv, QuietMeansUnchanged
    <3>5. QED
      BY <3>2, <3>3, <3>4 DEF IInv
  <2>2. CASE Next
    BY <2>1, <2>2, StepIs, StoredKeepsIInv, RemoveKeepsIInv DEF IInv
  <2>3. QED
    BY <2>1, <2>2
<1>3. QED
  BY <1>1, <1>2, PTL DEF Spec

(* Type correctness of the store and of the histories. *)
THEOREM TypeCorrect == Spec => []TypeOK
BY Safety, PTL DEF IInv

(* The last good value is that of the latest good read for which the       *)
(* driver returned a value, whatever bad or empty reads, removals and      *)
(* configuration changes came in between, and the returned payload itself  *)
(* when that had no value of the type of the tag.                          *)
THEOREM LastGoodTheorem == Spec => []LastGoodIsLatestGood
BY Safety, LastGoodReturned, PTL DEF IInv

(* Each event of a tag continues the one before it or tells an insertion,  *)
(* over any number of removals, up to the stored counter and quality.      *)
THEOREM CounterTheorem == Spec => []CounterNumbersEvents
BY Safety, PTL DEF IInv

(* Between two events nothing changes that an event would tell. *)
THEOREM QuietTheorem == Spec => []QuietMeansUnchanged
BY Safety, PTL DEF IInv

(* The good qualities of the alarm rules are those of the runtime, for     *)
(* every set of rules.                                                     *)
THEOREM AlarmsTheorem == Spec => []AlarmsAgreeOnGood
<1>1. IInv => AlarmsAgreeOnGood
  <2> SUFFICES ASSUME IInv, NEW t \in DOMAIN store, NEW rule \in Rules, Matches(rule, store[t])
               PROVE  /\ rule.require_good_quality /\ store[t].engineering.kind # "empty" =>
                           /\ store[t].last_good = store[t].engineering
                           /\ store[t].last_good_timestamp = store[t].timestamp
                      /\ rule.type \in {"QualityNotGood", "QualityBad"} =>
                           store[t].quality \notin GoodQualities
    BY Zenon DEF AlarmsAgreeOnGood
  <2> DEFINE quality == store[t].quality
  <2>1. rule \in Rule
    BY RuleAssumption
  <2>2. IsGoodQuality(quality) <=> quality \in GoodQualities
    BY DEF IsGoodQuality, GoodQualities
  <2>3. rule.state = "Enabled" /\ rule.has_valid_identity
    BY <2>1, Zenon DEF Matches, Status, Rule
  <2>4. ~(rule.require_good_quality /\ ~IsGoodQuality(quality))
    BY <2>3, Zenon DEF Matches, Status
  <2>5. Decide(rule, store[t]) = "Matched"
    BY <2>3, <2>4, Zenon DEF Matches, Status
  <2>6. ASSUME rule.require_good_quality, store[t].engineering.kind # "empty"
        PROVE  /\ store[t].last_good = store[t].engineering
               /\ store[t].last_good_timestamp = store[t].timestamp
    BY <2>2, <2>4, <2>6 DEF IInv, GoodIsLastGood, CanUpdateLastGood
  <2>7. ASSUME rule.type = "QualityNotGood" PROVE quality \notin GoodQualities
    BY <2>2, <2>5, <2>7 DEF Decide
  <2>8. ASSUME rule.type = "QualityBad" PROVE quality \notin GoodQualities
    <3>1. IsBadQuality(quality)
      BY <2>5, <2>8 DEF Decide
    <3>2. QED
      BY <3>1 DEF IsBadQuality, GoodQualities
  <2>9. QED
    BY <2>6, <2>7, <2>8
<1>2. QED
  BY <1>1, Safety, PTL
=============================================================================
