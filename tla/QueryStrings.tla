----------------------------- MODULE QueryStrings -----------------------------
(***************************************************************************)
(* The query strings of the read endpoints: the parser of scada_http with  *)
(* the parameters each endpoint takes, and the builder of the frontend.    *)
(*                                                                         *)
(* A text is a sequence of characters.  A character is "&", "=", "?", "+", *)
(* "%", a space, a digit, or a chunk of others that is never taken apart,  *)
(* such as "id" or "true".  In a raw query "%26" is one character too, and *)
(* a "%" is one that no two hexadecimal digits follow.                     *)
(***************************************************************************)
EXTENDS Integers, Sequences, SequencesExt

CONSTANTS
  MaxLimit,      \* max_limit of ApiReadQueryOptions
  DefaultLimit,  \* limit of ApiReadQueryOptions
  UInt32Max      \* the largest 32-bit number, scaled down

ASSUME LimitAssumption ==
  /\ MaxLimit \in Nat /\ DefaultLimit \in Nat \ {0} /\ UInt32Max \in Nat
  /\ DefaultLimit <= MaxLimit /\ MaxLimit <= UInt32Max

Escapes ==
  [token \in {"%26", "%3D", "%3F", "%2B", "%20", "%25", "%69d"} |->
     CASE token = "%26" -> "&" [] token = "%3D" -> "=" [] token = "%3F" -> "?"
       [] token = "%2B" -> "+" [] token = "%20" -> " " [] token = "%25" -> "%"
       [] token = "%69d" -> "id"]

Digits == <<"0", "1", "2", "3", "4", "5", "6", "7", "8", "9">>
DigitOf(character) == (CHOOSE i \in DOMAIN Digits : Digits[i] = character) - 1

DeviceStates == {"Draft", "Commissioning", "Active", "Maintenance", "Disabled",
                 "OutOfService", "Decommissioned", "Simulation"}

NoError == [field |-> <<>>, reason |-> ""]
Error(field, reason) == [field |-> field, reason |-> reason]

-----------------------------------------------------------------------------
(* parse_http_query: the parameters of a raw query *)

Decodable(raw) == "%" \notin Range(raw)

DecodedCharacter(c) ==
  CASE c = "+" -> " " [] c \in DOMAIN Escapes -> Escapes[c] [] OTHER -> c

Decoded(raw) == [i \in DOMAIN raw |-> DecodedCharacter(raw[i])]

WithoutMark(raw) == IF raw # <<>> /\ Head(raw) = "?" THEN Tail(raw) ELSE raw

(* The stretches between the separators, empty ones included.              *)
SplitAt(text, separator) ==
  LET split[i \in 0..Len(text)] ==
        IF i = 0 THEN <<<<>>>>
        ELSE LET before == split[i - 1]
             IN IF text[i] = separator THEN Append(before, <<>>)
                ELSE [before EXCEPT ![Len(before)] = Append(@, text[i])]
  IN split[Len(text)]

Parts_DecodedFirst(raw) ==
  IF WithoutMark(raw) = <<>> THEN <<>> ELSE SplitAt(Decoded(WithoutMark(raw)), "&")

Parts(raw) == IF WithoutMark(raw) = <<>> THEN <<>> ELSE SplitAt(WithoutMark(raw), "&")

(* The name ends at the first "="; without one, the value is empty.        *)
NameEnd(part) ==
  CHOOSE i \in 1..Len(part) + 1 : /\ i = Len(part) + 1 \/ part[i] = "="
                                  /\ \A j \in 1..(i - 1) : part[j] # "="

RawName(part) == SubSeq(part, 1, NameEnd(part) - 1)
RawValue(part) == SubSeq(part, NameEnd(part) + 1, Len(part))

NameOf(part) == Decoded(RawName(part))

Repeats_Never(earlier, part) == FALSE
Repeats(earlier, part) == \E other \in earlier : NameOf(other) = NameOf(part)

(* Why a parameter is refused, given the ones before it.                   *)
PartError(earlier, part, allowed) ==
  CASE part = <<>> -> Error(<<"query">>, "empty_parameter")
    [] part # <<>> /\ ~Decodable(part) -> Error(<<"query">>, "invalid_encoding")
    [] part # <<>> /\ Decodable(part) ->
         CASE NameOf(part) = <<>> -> Error(<<"query">>, "empty_name")
           [] NameOf(part) \notin allowed \cup {<<>>} ->
                Error(NameOf(part), "unsupported_parameter")
           [] NameOf(part) \in allowed ->
                IF Repeats(earlier, part) THEN Error(NameOf(part), "duplicate_parameter")
                                          ELSE NoError

FirstError(errors) ==
  LET bad == {i \in DOMAIN errors : errors[i] # NoError}
  IN IF bad = {} THEN NoError ELSE errors[CHOOSE i \in bad : \A j \in bad : i <= j]

QueryError(parts, allowed) ==
  FirstError([i \in DOMAIN parts |->
                PartError({parts[j] : j \in 1..(i - 1)}, parts[i], allowed)])

(* HttpQueryParameters: the first parameter of a name counts.              *)
Has(parts, name) == \E part \in Range(parts) : NameOf(part) = <<name>>

ValueOf(parts, name) ==
  LET named == {i \in DOMAIN parts : NameOf(parts[i]) = <<name>>}
  IN Decoded(RawValue(parts[CHOOSE i \in named : \A j \in named : i <= j]))

-----------------------------------------------------------------------------
(* The parameters of an endpoint, in the order in which they are checked *)

ObjectParameters ==
  <<[name |-> "id", kind |-> "text"], [name |-> "parentId", kind |-> "text"],
    [name |-> "includeChildren", kind |-> "bool"],
    [name |-> "limit", kind |-> "limit"], [name |-> "offset", kind |-> "offset"]>>

TreeParameters == SubSeq(ObjectParameters, 1, 2)

DeviceParameters ==
  <<[name |-> "id", kind |-> "text"], [name |-> "objectId", kind |-> "text"],
    [name |-> "state", kind |-> "state"], [name |-> "includeDisabled", kind |-> "bool"],
    [name |-> "limit", kind |-> "limit"], [name |-> "offset", kind |-> "offset"]>>

TagParameters ==
  <<[name |-> "id", kind |-> "text"], [name |-> "objectId", kind |-> "text"],
    [name |-> "deviceId", kind |-> "text"], [name |-> "includeDisabled", kind |-> "bool"],
    [name |-> "limit", kind |-> "limit"], [name |-> "offset", kind |-> "offset"]>>

Parameters ==
  [list \in {"objects", "tree", "devices", "tags"} |->
     CASE list = "objects" -> ObjectParameters [] list = "tree" -> TreeParameters
       [] list = "devices" -> DeviceParameters [] list = "tags" -> TagParameters]

(* parse_http_query_bool *)
TrueTexts == {<<"1">>, <<"true">>, <<"TRUE">>}
FalseTexts == {<<"0">>, <<"false">>, <<"FALSE">>}

(* parse_http_query_uint32 *)
Number(text) ==
  LET number[i \in 0..Len(text)] ==
        IF i = 0 THEN 0 ELSE 10 * number[i - 1] + DigitOf(text[i])
  IN number[Len(text)]

IsUInt32(text) ==
  text # <<>> /\ Range(text) \subseteq Range(Digits) /\ Number(text) <= UInt32Max

NumberError(parameter, text) ==
  CASE ~IsUInt32(text) -> Error(<<parameter.name>>, "invalid_integer")
    [] IsUInt32(text) /\ parameter.kind = "offset" -> NoError
    [] IsUInt32(text) /\ parameter.kind = "limit" ->
         CASE Number(text) = 0 -> Error(<<parameter.name>>, "must_be_positive")
           [] Number(text) > MaxLimit -> Error(<<parameter.name>>, "exceeds_maximum")
           [] Number(text) \in 1..MaxLimit -> NoError

ValueError(parameter, text) ==
  LET Require(condition, reason) ==
        IF condition THEN NoError ELSE Error(<<parameter.name>>, reason)
  IN CASE parameter.kind \in {"text", "state"} /\ text = <<>> ->
            Require(FALSE, "must_not_be_empty")
       [] parameter.kind = "text" /\ text # <<>> -> NoError
       [] parameter.kind = "state" /\ text # <<>> ->
            Require(text \in {<<s>> : s \in DeviceStates}, "unsupported_value")
       [] parameter.kind = "bool" ->
            Require(text \in TrueTexts \cup FalseTexts, "invalid_boolean")
       [] parameter.kind \in {"limit", "offset"} -> NumberError(parameter, text)

Meaning(parameter, text) ==
  CASE parameter.kind = "text" -> text
    [] parameter.kind = "state" -> Head(text)
    [] parameter.kind = "bool" -> text \in TrueTexts
    [] parameter.kind \in {"limit", "offset"} -> Number(text)

(* What a query says when it does not name a parameter.                    *)
Absent == <<>>
Default(parameter) ==
  CASE parameter.kind = "text" -> Absent [] parameter.kind = "state" -> ""
    [] parameter.kind = "bool" -> FALSE
    [] parameter.kind = "limit" -> DefaultLimit [] parameter.kind = "offset" -> 0

(* parse_object_query, parse_device_query and parse_tag_query: an error,   *)
(* or the value of every parameter.                                        *)
ParseQuery(raw, list) ==
  LET parts == Parts(raw)
      parameters == Parameters[list]
      names == {p.name : p \in Range(parameters)}
      error == QueryError(parts, {<<name>> : name \in names})
      errors == [i \in DOMAIN parameters |->
                   IF Has(parts, parameters[i].name)
                     THEN ValueError(parameters[i], ValueOf(parts, parameters[i].name))
                     ELSE NoError]
      Value(p) == IF Has(parts, p.name) THEN Meaning(p, ValueOf(parts, p.name))
                                        ELSE Default(p)
  IN IF error # NoError THEN [error |-> error]
     ELSE IF FirstError(errors) # NoError THEN [error |-> FirstError(errors)]
     ELSE [error |-> NoError,
           values |-> [name \in names |->
                         Value(CHOOSE p \in Range(parameters) : p.name = name)]]

-----------------------------------------------------------------------------
(* The frontend: ConfigurationApiQueryBuilder.BuildPath *)

EscapedCharacter(c) ==
  IF c \in {Escapes[token] : token \in DOMAIN Escapes \ {"%69d"}}
    THEN CHOOSE token \in DOMAIN Escapes : Escapes[token] = c
    ELSE c

EscapeDataString(text) == [i \in DOMAIN text |-> EscapedCharacter(text[i])]

Joined(parts) ==
  LET joined[i \in 0..Len(parts)] ==
        CASE i = 0 -> <<>>
          [] i = 1 -> parts[1]
          [] OTHER -> joined[i - 1] \o <<"&">> \o parts[i]
  IN joined[Len(parts)]

(* Numbers are formatted from an int, truth values in lower case.          *)
Askable(parameter, text) ==
  /\ text \in Seq(STRING) /\ Range(text) \cap DOMAIN Escapes = {}
  /\ parameter.kind = "bool" => text \in {<<"true">>, <<"false">>}
  /\ parameter.kind \in {"limit", "offset"} =>
       /\ text # <<>>
       /\ \/ Head(text) = "-"
          \/ Range(text) \subseteq Range(Digits) /\ Number(text) \in 0..UInt32Max

(* `asked' gives a text to the parameters that are not null.               *)
BuildQuery(list, asked) ==
  LET parameters == Parameters[list]
      Pair(p) == <<p.name, "=">> \o EscapeDataString(asked[p.name])
      pairs[i \in 0..Len(parameters)] ==
        IF i = 0 THEN <<>>
        ELSE IF parameters[i].name \in DOMAIN asked
          THEN Append(pairs[i - 1], Pair(parameters[i]))
          ELSE pairs[i - 1]
  IN Joined(pairs[Len(parameters)])
=============================================================================
