--------------------------- MODULE MCRequestHandling ---------------------------
(* RequestHandling on a small configuration, some of whose ids are made of   *)
(* the characters that mean something in a query string.                     *)
EXTENDS RequestHandling

(* The literals of the development snapshot; no state of the service is used. *)
Literals == INSTANCE ConfigurationReads
  WITH Snapshots <- {}, Queries <- {}, Offsets <- {}, snapshot <- 0, service <- "", walk <- "",
       query <- 0, first <- 0, offset <- 0, pages <- 0, collected <- 0

MCIdText ==
  <<<<"a">>, <<"a", "&", "1">>, <<"+">>, <<"x", "%", "=">>>>

MCConfig ==
  [objects |->
     <<[id |-> 2, parent_id |-> 1, code |-> 1, type |-> "Line", named |-> TRUE],
       [id |-> 1, parent_id |-> 0, code |-> 1, type |-> "Site", named |-> TRUE],
       [id |-> 3, parent_id |-> 2, code |-> 1, type |-> "Rack", named |-> TRUE]>>,
   devices |->
     <<[Literals!DevelopmentDevices[1] EXCEPT !.id = 4, !.object_id = 1],
       [Literals!DevelopmentDevices[4] EXCEPT !.id = 3, !.code = 1]>>,
   tags |->
     <<[Literals!DevelopmentTags[1] EXCEPT !.id = 1, !.object_id = 1, !.device_id = 4, !.code = 2],
       [Literals!DevelopmentTags[6] EXCEPT !.id = 2, !.device_id = 3, !.code = 1]>>]

(* Functions that give some of the names in `choices' one of their values.   *)
Some(choices) ==
  UNION {{f \in [names -> UNION {choices[n] : n \in names}] :
            \A n \in names : f[n] \in choices[n]} : names \in SUBSET DOMAIN choices}

Text(id) == MCIdText[id]

MCAsks ==
  {[list |-> "objects", asked |-> f] :
     f \in Some([id |-> {Text(1), Text(2), <<>>}, parentId |-> {Text(1), Text(2)},
                 includeChildren |-> {<<"true">>}, limit |-> {<<"1">>, <<"0">>, <<"1", "3">>},
                 offset |-> {<<"1">>, <<"-", "1">>}])}
  \cup
  {[list |-> "tree", asked |-> f] :
     f \in Some([id |-> {Text(1), Text(2), Text(3), <<"z">>}, parentId |-> {Text(2), <<>>}])}
  \cup
  {[list |-> "devices", asked |-> f] :
     f \in Some([id |-> {Text(4)}, objectId |-> {Text(1), Text(2)},
                 state |-> {<<"Active">>, <<"Disabled">>, <<"Lost">>},
                 includeDisabled |-> {<<"true">>, <<"false">>}, offset |-> {<<"2">>}])}
  \cup
  {[list |-> "tags", asked |-> f] :
     f \in Some([objectId |-> {Text(1)}, deviceId |-> {Text(3), Text(4)},
                 includeDisabled |-> {<<"true">>}, limit |-> {<<"1">>}])}

Get(path, query) ==
  [method |-> "GET", path |-> path, query |-> query, origin |-> "", requests_method |-> FALSE,
   correlation_id |-> "good"]

GoodParts ==
  {<<"id", "=", "a">>, <<"%69d", "=", "a", "%26", "1">>, <<"id", "=", "x", "=", "y">>,
   <<"limit", "=", "1">>, <<"offset", "=", "0", "1">>, <<"parentId", "=", "%2B">>,
   <<"objectId", "=", "+">>, <<"includeDisabled", "=", "1">>, <<"state", "=", "Active">>}

BadParts ==
  {<<>>, <<"id">>, <<"id", "=">>, <<"id", "=", "%">>, <<"=", "a">>, <<"z", "=", "1">>,
   <<"limit", "=", "0">>, <<"limit", "=", "1", "0", "0">>, <<"limit", "=", "+", "1">>,
   <<"includeChildren", "=", "yes">>, <<"includeChildren", "=", "TRUE">>,
   <<"offset", "=", "-", "1">>, <<"state", "=", "active">>, <<"deviceId", "%3D", "a">>}

AnyParts == GoodParts \cup BadParts

SomeParts == {<<"id", "=", "a">>, <<"limit", "=", "1">>, <<"offset", "=", "0", "1">>,
              <<"objectId", "=", "+">>, <<"%69d", "=", "a", "%26", "1">>}

MCQueryStrings ==
  AnyParts
  \cup {p \o <<"&">> \o q : p \in GoodParts, q \in AnyParts}
  \cup {<<"?">> \o p \o <<"&">> \o q \o <<"&">> \o r : p, q, r \in SomeParts}

MCRawRequests ==
  {Get(Path[list], query) : list \in Lists, query \in MCQueryStrings}
  \cup
  [method : {"GET", "POST", "OPTIONS", "UNKNOWN"},
   path : {"/api/objects", "/API/OBJECTS", "/api/system/health", "/api/none"},
   query : {<<>>, <<"z">>}, origin : {"", "frontend", "other"}, requests_method : BOOLEAN,
   correlation_id : {"", "good", "b a d"}]

(* The default of the source, any origin, credentials, none, and one that    *)
(* start() refuses.                                                          *)
CorsOf(enabled, any, credentials) ==
  [enabled |-> enabled, allow_any_origin |-> any, allow_credentials |-> credentials,
   allowed_origins |-> {"frontend"}]

MCCorsOptions ==
  {CorsOf(TRUE, FALSE, FALSE), CorsOf(TRUE, TRUE, FALSE), CorsOf(TRUE, FALSE, TRUE),
   CorsOf(FALSE, FALSE, FALSE), CorsOf(TRUE, TRUE, TRUE)}
=============================================================================
