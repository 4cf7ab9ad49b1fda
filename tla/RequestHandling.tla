---------------------------- MODULE RequestHandling ----------------------------
(***************************************************************************)
(* How the HTTP server answers one request after the other: the bridge     *)
(* from and to Drogon, HttpRouteDispatcher, the endpoints, the error       *)
(* envelope, correlation ids and CORS.  What the endpoints read comes from *)
(* ConfigurationReads, what their query strings say from QueryStrings.     *)
(*                                                                         *)
(* Requests come from anywhere, or from the frontend, which builds them    *)
(* from what it asks for.  A handler answers before it returns, so that a  *)
(* request is one step from its receipt to its answer.                     *)
(*                                                                         *)
(* Drogon is external.  It calls a handler for a request of a registered   *)
(* path and method, and may do so for a path in other letters or another   *)
(* method; it may refuse any request with a status of its own.  What it    *)
(* answers to OPTIONS without the server's code is left out.               *)
(*                                                                         *)
(* The correlation header of a request is one value, since Drogon keeps    *)
(* one per name.  Generated ids are named after the place that makes them: *)
(* within one request two of them differ.                                  *)
(***************************************************************************)
EXTENDS QueryStrings, FiniteSets

CONSTANTS
  Config,        \* the snapshot of ConfigurationReads that is served
  IdText,        \* the text of each id of the snapshot
  RawRequests,   \* requests from anywhere
  Asks,          \* what the frontend asks for
  CorsOptions,   \* HttpCorsOptions; main() leaves them at their default
  ValidIds,      \* correlation ids a client may send: well-formed
  Statuses       \* statuses with which Drogon refuses a request

NoText == ""

Lists == {"objects", "tree", "devices", "tags"}

Path ==
  [objects |-> "/api/objects", tree |-> "/api/objects/tree", devices |-> "/api/devices",
   tags |-> "/api/tags", health |-> "/api/system/health", modules |-> "/api/system/modules"]

Paths == {Path[endpoint] : endpoint \in DOMAIN Path}
OtherSpellings == {"/API/OBJECTS"}
Methods == {"GET", "POST", "PUT", "PATCH", "DELETE", "OPTIONS", "HEAD", "UNKNOWN"}

Request == [method : Methods, path : STRING, query : Seq(STRING), origin : STRING,
            requests_method : BOOLEAN, correlation_id : STRING]
Cors == [enabled : BOOLEAN, allow_any_origin : BOOLEAN, allow_credentials : BOOLEAN,
         allowed_origins : SUBSET STRING]

ASSUME RequestAssumption == RawRequests \subseteq Request
ASSUME AskAssumption ==
  \A a \in Asks :
    /\ a.list \in Lists
    /\ DOMAIN a.asked \subseteq {p.name : p \in Range(Parameters[a.list])}
    /\ \A p \in Range(Parameters[a.list]) :
         p.name \in DOMAIN a.asked => Askable(p, a.asked[p.name])
ASSUME CorsAssumption == CorsOptions \subseteq Cors
ASSUME StatusAssumption == Statuses \subseteq 400..599
ASSUME CorrelationAssumption == NoText \notin ValidIds

VARIABLES
  cors,          \* HttpServerOptions::cors
  phase,         \* "idle", "received" or "answered"
  request,       \* the request being answered
  ask,           \* what the frontend asked for with it, or NoAsk
  answer         \* the response sent

vars == <<cors, phase, request, ask, answer>>

NoAsk == [list |-> NoText, asked |-> <<>>]
NoRequest == [path |-> NoText]
NoAnswer == [by |-> NoText]
NoQuery == [list |-> "objects", id |-> 0, parent_id |-> 0, object_id |-> 0, device_id |-> 0,
            state |-> NoText, include_children |-> FALSE, include_disabled |-> FALSE, limit |-> 0]

Reads == INSTANCE ConfigurationReads
  WITH Snapshots <- {Config}, Queries <- {NoQuery}, Offsets <- {}, snapshot <- Config,
       service <- "serving", walk <- "idle", query <- NoQuery, first <- 0, offset <- 0,
       pages <- 0, collected <- <<>>

(* The service that answers has checked its snapshot, whose ids are texts.   *)
ASSUME ConfigAssumption == Config \in Reads!Snapshot /\ Reads!SnapshotIsValid(Config)
ASSUME IdTextAssumption ==
  /\ DOMAIN IdText \subseteq Nat \ {0}
  /\ \A list \in {"objects", "devices", "tags"} : Reads!Ids(Config[list]) \subseteq DOMAIN IdText
  /\ \A i, j \in DOMAIN IdText : IdText[i] = IdText[j] => i = j

-----------------------------------------------------------------------------
(* Correlation ids *)

MadeIds == {"made by bridge", "made by dispatcher", "made by error", "made by header"}

IsValidCorrelationId(id) == id \in ValidIds \cup MadeIds

Ensure_Trusting(id, made) == IF id # NoText THEN id ELSE made
Ensure(id, made) == IF IsValidCorrelationId(id) THEN id ELSE made

Resolve(id, header, made) == IF IsValidCorrelationId(id) THEN id ELSE Ensure(header, made)

(* set_correlation_id_header: the first such header is replaced.           *)
SetHeader(ids, id) ==
  IF ids = <<>> THEN <<Ensure(id, "made by header")>>
                ELSE [ids EXCEPT ![1] = Ensure(id, "made by header")]

-----------------------------------------------------------------------------
(* Responses *)

NoEnvelope == [code |-> NoText, details |-> NoError, id |-> NoText]

(* make_json_response, before a correlation id is set.                     *)
Ok(body) == [status |-> 200, error |-> NoEnvelope, ids |-> <<>>, body |-> body]

(* make_api_error_response: the envelope and the header have one id.       *)
ApiErrorWith(status, code, details, correlation_id) ==
  LET id == Ensure(correlation_id, "made by error")
  IN [status |-> status, error |-> [code |-> code, details |-> details, id |-> id],
      ids |-> SetHeader(<<>>, id), body |-> <<>>]

ApiError(status, code, id) == ApiErrorWith(status, code, NoError, id)

(* The details of NotFound and MethodNotAllowed are left out.              *)
BadRequest(id) == ApiError(400, "bad_request", id)
NotFound(id) == ApiError(404, "not_found", id)
MethodNotAllowed(id) == ApiError(405, "method_not_allowed", id)
InternalServerError(id) == ApiError(500, "internal_server_error", id)

(* make_framework_error_response: statuses it does not know become 500.    *)
FrameworkErrorResponse(status, id) ==
  CASE status = 400 -> BadRequest(id)
    [] status = 401 -> ApiError(401, "unauthorized", id)
    [] status = 403 -> ApiError(403, "forbidden", id)
    [] status = 404 -> NotFound(id)
    [] status = 405 -> MethodNotAllowed(id)
    [] status = 409 -> ApiError(409, "conflict", id)
    [] status = 413 -> ApiError(413, "payload_too_large", id)
    [] status = 501 -> ApiError(501, "not_implemented", id)
    [] status = 503 -> ApiError(503, "service_unavailable", id)
    [] OTHER -> InternalServerError(id)

-----------------------------------------------------------------------------
(* The endpoints *)

Unknown == 99

(* A text that is no id of the snapshot reads as an id nothing has.        *)
IdOf(text) ==
  IF text = Absent THEN Reads!Absent
  ELSE IF \E id \in DOMAIN IdText : IdText[id] = text
    THEN CHOOSE id \in DOMAIN IdText : IdText[id] = text
    ELSE Unknown

ReadQuery(list, values) ==
  LET Given(name, default) == IF name \in DOMAIN values THEN values[name] ELSE default
      Id(name) == IdOf(Given(name, Absent))
  IN [list |-> list, id |-> Id("id"), parent_id |-> Id("parentId"),
      object_id |-> Id("objectId"), device_id |-> Id("deviceId"),
      state |-> Given("state", NoText), include_children |-> Given("includeChildren", FALSE),
      include_disabled |-> Given("includeDisabled", FALSE),
      limit |-> Given("limit", DefaultLimit)]

(* The documents say a missing id as null, and every other by its text.    *)
Null == <<>>
IdOrNull(id) == IF id = Reads!Absent THEN Null ELSE IdText[id]

ObjectJson(object) ==
  [id |-> IdText[object.id], parentId |-> IdOrNull(object.parent_id), type |-> object.type,
   code |-> object.code, isRoot |-> object.is_root]

DeviceJson(device) ==
  [id |-> IdText[device.id], objectId |-> IdOrNull(device.object_id), code |-> device.code,
   protocol |-> device.protocol, state |-> device.state,
   runtimeEnabled |-> device.runtime_enabled, connection |-> device.has_endpoint]

TagJson(tag) ==
  [id |-> IdText[tag.id], objectId |-> IdOrNull(tag.object_id),
   deviceId |-> IdOrNull(tag.device_id), type |-> tag.type, valueType |-> tag.value_type,
   code |-> tag.code, enabled |-> tag.enabled]

Json(list, item) ==
  CASE list = "objects" -> ObjectJson(item) [] list = "devices" -> DeviceJson(item)
    [] list = "tags" -> TagJson(item)

(* The document of a list: its items, their count, and the page.           *)
ListDocument(list, values) ==
  LET q == ReadQuery(list, values)
      page == Reads!ReadList(Config, q, values["offset"])
  IN [items |-> [i \in DOMAIN page.items |-> Json(list, page.items[i])],
      count |-> Len(page.items), total |-> page.total,
      offset |-> page.offset, limit |-> Reads!NormalizedLimit(q.limit),
      has_more |-> page.has_more]

(* Nested nodes, each of which is the path of texts that leads to it.      *)
TreeDocument(values) ==
  LET tree == Reads!ReadObjectTree(Config.objects, IdOf(values["id"]), IdOf(values["parentId"]))
  IN [nodes |-> {[i \in DOMAIN path |-> IdText[path[i]]] : path \in tree.nodes},
      count |-> tree.count]

InvalidQuery_Unnamed(error, id) == ApiError(400, "invalid_query", id)
InvalidQuery(error, id) == ApiErrorWith(400, "invalid_query", error, id)

HandleList(list, id) ==
  LET parsed == ParseQuery(request.query, list)
  IN IF parsed.error # NoError THEN InvalidQuery(parsed.error, id)
                               ELSE Ok(ListDocument(list, parsed.values))

HandleObjects(id) == HandleList("objects", id)
HandleDevices(id) == HandleList("devices", id)
HandleTags(id) == HandleList("tags", id)

HandleTree(id) ==
  LET parsed == ParseQuery(request.query, "tree")
  IN IF parsed.error # NoError THEN InvalidQuery(parsed.error, id)
                               ELSE Ok(TreeDocument(parsed.values))

(* These take no parameters and look at none.                              *)
HandleHealth == Ok("health")
HandleModules == Ok("modules")

Handled(endpoint, id) ==
  CASE endpoint = "objects" -> HandleObjects(id) [] endpoint = "tree" -> HandleTree(id)
    [] endpoint = "devices" -> HandleDevices(id) [] endpoint = "tags" -> HandleTags(id)
    [] endpoint = "health" -> HandleHealth [] endpoint = "modules" -> HandleModules

-----------------------------------------------------------------------------
(* HttpRouteDispatcher *)

IsValid(r) == r.method # "UNKNOWN" /\ r.path # NoText

(* Every route is a GET.  A handler that throws makes an internal error,   *)
(* any other answer gets the correlation id of the request.                *)
Dispatch(bridge_id, throws) ==
  LET id == Resolve(bridge_id, request.correlation_id, "made by dispatcher")
      endpoint == CHOOSE e \in DOMAIN Path : Path[e] = request.path
  IN CASE ~IsValid(request) -> BadRequest(id)
       [] IsValid(request) /\ request.path \notin Paths -> NotFound(id)
       [] IsValid(request) /\ request.path \in Paths /\ request.method # "GET" ->
            MethodNotAllowed(id)
       [] request.method = "GET" /\ request.path \in Paths ->
            IF throws THEN InternalServerError(id)
                      ELSE [Handled(endpoint, id) EXCEPT !.ids = SetHeader(@, id)]

-----------------------------------------------------------------------------
(* CORS *)

IsValidCors(c) ==
  \/ ~c.enabled
  \/ ~(c.allow_any_origin /\ c.allow_credentials)
     /\ (c.allow_any_origin \/ c.allowed_origins # {})

IsOriginAllowed(origin) ==
  /\ cors.enabled /\ origin # NoText
  /\ cors.allow_any_origin \/ origin \in cors.allowed_origins

NoCors == [allow_origin |-> NoText, vary |-> FALSE, credentials |-> FALSE]

CorsHeaders ==
  IF ~IsOriginAllowed(request.origin) THEN NoCors
  ELSE IF cors.allow_any_origin /\ ~cors.allow_credentials
    THEN [NoCors EXCEPT !.allow_origin = "*"]
    ELSE [allow_origin |-> request.origin, vary |-> TRUE,
          credentials |-> cors.allow_credentials]

Sent(by, response, headers) ==
  [by |-> by, status |-> response.status, error |-> response.error, ids |-> response.ids,
   body |-> response.body, cors |-> headers]

-----------------------------------------------------------------------------
(* The server *)

Init ==
  /\ cors \in {c \in CorsOptions : IsValidCors(c)}
  /\ phase = "idle" /\ request = NoRequest /\ ask = NoAsk /\ answer = NoAnswer

Receive(r, a) ==
  /\ phase = "idle"
  /\ phase' = "received" /\ request' = r /\ ask' = a
  /\ UNCHANGED <<cors, answer>>

(* The HTTP client of the frontend sends what its query builder makes.     *)
FrontendRequest(a) ==
  [method |-> "GET", path |-> Path[a.list], query |-> BuildQuery(a.list, a.asked),
   origin |-> "frontend", requests_method |-> FALSE, correlation_id |-> NoText]

ReceiveAsk(a) == Receive(FrontendRequest(a), a)

Answer(by, response, headers) ==
  /\ phase' = "answered" /\ answer' = Sent(by, response, headers)
  /\ UNCHANGED <<cors, request, ask>>

(* to_dispatcher_request resolves the correlation id a first time.         *)
BridgeId == Resolve(NoText, request.correlation_id, "made by bridge")

(* The advice is registered when CORS is enabled, and passes on any other  *)
(* request than a preflight of a registered path.                          *)
IsPreflight ==
  /\ cors.enabled /\ request.method = "OPTIONS" /\ request.requests_method
  /\ request.path \in Paths

Preflight ==
  /\ phase = "received" /\ IsPreflight
  /\ Answer("preflight",
            [Ok(<<>>) EXCEPT !.status = 204, !.ids = <<Ensure(BridgeId, "made by header")>>],
            CorsHeaders)

Handle(throws) ==
  /\ phase = "received" /\ ~IsPreflight /\ request.path \in Paths \cup OtherSpellings
  /\ Answer("handler", Dispatch(BridgeId, throws), CorsHeaders)

FrameworkError_NoCors(status) ==
  /\ phase = "received" /\ ~IsPreflight
  /\ Answer("framework",
            FrameworkErrorResponse(status, Resolve(BridgeId, request.correlation_id,
                                                   "made by dispatcher")), NoCors)

FrameworkError(status) ==
  /\ phase = "received" /\ ~IsPreflight
  /\ Answer("framework",
            FrameworkErrorResponse(status, Resolve(BridgeId, request.correlation_id,
                                                   "made by dispatcher")), CorsHeaders)

(* Every response closes its connection.                                   *)
Close ==
  /\ phase = "answered"
  /\ phase' = "idle" /\ request' = NoRequest /\ ask' = NoAsk /\ answer' = NoAnswer
  /\ UNCHANGED cors

Next ==
  \/ \E r \in RawRequests : Receive(r, NoAsk)
  \/ \E a \in Asks : ReceiveAsk(a)
  \/ Preflight
  \/ \E throws \in BOOLEAN : Handle(throws)
  \/ \E status \in Statuses : FrameworkError(status)
  \/ Close

Spec == Init /\ [][Next]_vars

-----------------------------------------------------------------------------
(* Properties *)

Codes == {NoText, "bad_request", "unauthorized", "forbidden", "not_found", "method_not_allowed",
          "conflict", "payload_too_large", "not_implemented", "service_unavailable",
          "internal_server_error", "invalid_query"}

(* An error and only an error has an envelope, with a code the frontend    *)
(* can tell apart, and details only when it names a parameter.             *)
EnvelopeTellsError ==
  phase = "answered" =>
    /\ answer.by \in {"preflight", "handler", "framework"}
    /\ answer.status \in {200, 204} \cup 400..599
    /\ answer.error.code \in Codes
    /\ answer.error.code # NoText <=> answer.status >= 400
    /\ answer.error.details # NoError <=> answer.error.code = "invalid_query"

(* The server is between requests, holds one, or has answered it; what it  *)
(* holds came from anywhere, or is what the frontend made of its ask.      *)
TypeOK ==
  /\ cors \in CorsOptions /\ phase \in {"idle", "received", "answered"}
  /\ phase = "idle" => request = NoRequest /\ ask = NoAsk
  /\ phase # "idle" => \/ request \in Request /\ ask = NoAsk
                       \/ ask.list \in Lists /\ request = FrontendRequest(ask)
  /\ phase = "answered" <=> answer # NoAnswer
  /\ EnvelopeTellsError

(* Every answer, to whomever and from whichever of the three places, has   *)
(* exactly one correlation id.  It is the client's if that is well-formed, *)
(* otherwise one the server made; and the error envelope, from which a     *)
(* user reports a failure, says the same id as the header, by which the    *)
(* log is searched.                                                        *)
OneCorrelationId ==
  phase = "answered" =>
    \E id \in ValidIds \cup MadeIds :
      /\ answer.ids = <<id>>
      /\ request.correlation_id \in ValidIds => id = request.correlation_id
      /\ answer.error.code # NoText => answer.error.id = id

(* A page from an allowed origin can read every answer the server's code   *)
(* gives it, errors and preflights included, and a page from another       *)
(* origin none; a cache is told when the answer depends on the origin, and *)
(* credentials are allowed to listed origins only, one at a time.  No page *)
(* has the origin "*", which the code takes for an origin like any other.  *)
CorsReadable ==
  phase = "answered" /\ request.origin # "*" =>
    LET allowed == /\ cors.enabled /\ request.origin # NoText
                   /\ cors.allow_any_origin \/ request.origin \in cors.allowed_origins
        headers == answer.cors
    IN /\ headers.allow_origin \in (IF allowed THEN {"*", request.origin} ELSE {NoText})
       /\ headers.vary <=> headers.allow_origin \notin {NoText, "*"}
       /\ headers.credentials => /\ cors.allow_credentials /\ headers.allow_origin # "*"
                                 /\ request.origin \in cors.allowed_origins

(* What an ask means, without the detour through a query string.           *)
AskedValues ==
  [name \in {p.name : p \in Range(Parameters[ask.list])} |->
     LET p == CHOOSE x \in Range(Parameters[ask.list]) : x.name = name
     IN IF name \in DOMAIN ask.asked THEN Meaning(p, ask.asked[name]) ELSE Default(p)]

(* The parameters of an ask that no answer can serve.                      *)
Refusable ==
  {name \in DOMAIN ask.asked :
     LET text == ask.asked[name]
     IN \/ text = <<>>
        \/ name = "state" /\ text \notin {<<s>> : s \in DeviceStates}
        \/ name \in {"limit", "offset"} /\ Head(text) = "-"
        \/ name = "limit" /\ Number(text) \notin 1..MaxLimit}

(* What the frontend asks for is what it is served, whatever characters    *)
(* are in the ids: of the items that match, in order, those of the page    *)
(* that was asked for.  It is refused only for a parameter that is empty   *)
(* or out of range, and the answer names one that is.                      *)
ServedAsAsked ==
  phase = "answered" /\ ask # NoAsk /\ answer.by = "handler" /\ answer.status # 500 =>
    \/ /\ Refusable # {} /\ answer.status = 400
       /\ Head(answer.error.details.field) \in Refusable
    \/ /\ Refusable = {} /\ answer.status = 200
       /\ ask.list = "tree" => answer.body = TreeDocument(AskedValues)
       /\ ask.list # "tree" =>
            LET asked == Reads!Asked(ReadQuery(ask.list, AskedValues))
                Rank(x) == Cardinality({y \in asked : Reads!Precedes(y, x)})
                start == AskedValues["offset"]
                page == start..(start + AskedValues["limit"] - 1)
            IN /\ Range(answer.body.items) =
                    {Json(ask.list, Reads!ToReadModel(ask.list, x)) :
                       x \in {y \in asked : Rank(y) \in page}}
               /\ answer.body.count = Cardinality(Range(answer.body.items))
               /\ answer.body.total = Cardinality(asked)

(* A query says the same in every order of its parameters: if one order is *)
(* accepted all are, and they ask for the same.                            *)
OrderDoesNotMatter ==
  phase = "received" /\ request.path \in {Path[list] : list \in Lists} =>
    LET list == CHOOSE l \in Lists : Path[l] = request.path
        parts == Parts(request.query)
        Reordered(p) == Joined([i \in DOMAIN parts |-> parts[p[i]]])
        result == ParseQuery(request.query, list)
    IN result.error = NoError =>
         \A p \in {f \in [DOMAIN parts -> DOMAIN parts] : Range(f) = DOMAIN parts} :
           ParseQuery(Reordered(p), list) = result
=============================================================================
