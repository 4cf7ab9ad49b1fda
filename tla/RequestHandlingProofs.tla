------------------------ MODULE RequestHandlingProofs ------------------------
(***************************************************************************)
(* Proofs about RequestHandling, for any requests, asks, CORS options,     *)
(* served configuration and statuses of the framework.                     *)
(*                                                                         *)
(* First the steps of the server, whose invariant says where each answer   *)
(* comes from.  Then query strings: how they are taken apart and put       *)
(* together, that their order does not matter, and that the server reads   *)
(* in them what the frontend asks for.  Last the page that it serves for   *)
(* it, which the proofs about ConfigurationReads describe.                 *)
(***************************************************************************)
EXTENDS RequestHandling, FiniteSetTheorems, SequenceTheorems, TLAPS

(* The empty text is none of the texts the code writes.                    *)
LEMMA NoTextFacts ==
  /\ NoText \notin MadeIds /\ NoText # "*"
  /\ NoText \notin {"bad_request", "unauthorized", "forbidden", "not_found",
                    "method_not_allowed", "conflict", "payload_too_large", "not_implemented",
                    "service_unavailable", "internal_server_error", "invalid_query"}
  BY Zenon DEF NoText, MadeIds

-----------------------------------------------------------------------------
(* Correlation ids: the bridge makes or takes one, and every later place   *)
(* that would make another keeps it.                                       *)

Ids == ValidIds \cup MadeIds

LEMMA EnsureKeeps ==
  ASSUME NEW id \in Ids, NEW made
  PROVE  Ensure(id, made) = id
  BY DEF Ids, Ensure, IsValidCorrelationId

LEMMA ResolveKeeps ==
  ASSUME NEW id \in Ids, NEW header, NEW made
  PROVE  Resolve(id, header, made) = id
  BY DEF Ids, Resolve, IsValidCorrelationId

LEMMA BridgeIdFacts ==
  /\ BridgeId \in Ids
  /\ request.correlation_id \in ValidIds => BridgeId = request.correlation_id
<1>1. NoText \notin ValidIds \cup MadeIds
  BY CorrelationAssumption, NoTextFacts
<1>2. BridgeId = Ensure(request.correlation_id, "made by bridge")
  BY <1>1 DEF BridgeId, Resolve, IsValidCorrelationId
<1>3. "made by bridge" \in MadeIds
  BY DEF MadeIds
<1>4. QED
  BY <1>2, <1>3 DEF Ids, Ensure, IsValidCorrelationId

-----------------------------------------------------------------------------
(* Responses.  Reply is the shape of all of them; Fits says that its error *)
(* part tells what its status is, and carries the id of the request.       *)

Reply(status, code, details, id, ids, body) ==
  [status |-> status, error |-> [code |-> code, details |-> details, id |-> id],
   ids |-> ids, body |-> body]

Known == {200, 204} \cup 400..599
IsFailure(status) == status >= 400

Tells(status, code, details, named, id) ==
  /\ status \in Known /\ code \in Codes
  /\ code # NoText <=> IsFailure(status)
  /\ details # NoError <=> code = "invalid_query"
  /\ code # NoText => named = id

Fits(response, id, ids) ==
  \E status, code, details, named, body :
    /\ Tells(status, code, details, named, id)
    /\ response = Reply(status, code, details, named, ids, body)

(* The response has its header.                                            *)
Complete(response, id) == Fits(response, id, <<id>>)

LEMMA ReplyFits ==
  ASSUME NEW status, NEW code, NEW details, NEW named, NEW id, NEW ids, NEW body,
         Tells(status, code, details, named, id)
  PROVE  Fits(Reply(status, code, details, named, ids, body), id, ids)
<1>1. \E s, c, d, n, b :
        /\ Tells(s, c, d, n, id)
        /\ Reply(status, code, details, named, ids, body) = Reply(s, c, d, n, ids, b)
  <2> WITNESS status, code, details, named, body
  <2> QED
    OBVIOUS
<1>2. QED
  BY <1>1, Zenon DEF Fits

LEMMA ReplyExcept ==
  ASSUME NEW status, NEW code, NEW details, NEW id, NEW ids, NEW body
  PROVE  /\ Reply(status, code, details, id, ids, body).ids = ids
         /\ \A new : /\ [Reply(status, code, details, id, ids, body) EXCEPT !.ids = new]
                        = Reply(status, code, details, id, new, body)
                     /\ [Reply(status, code, details, id, ids, body) EXCEPT !.status = new]
                        = Reply(new, code, details, id, ids, body)
  BY DEF Reply

LEMMA ErrorFits ==
  ASSUME NEW id \in Ids, NEW status, NEW code, NEW details, Tells(status, code, details, id, id)
  PROVE  Complete(ApiErrorWith(status, code, details, id), id)
<1>1. Ensure(id, "made by error") = id /\ Ensure(id, "made by header") = id
  BY EnsureKeeps
<1>2. ApiErrorWith(status, code, details, id) = Reply(status, code, details, id, <<id>>, <<>>)
  BY <1>1 DEF ApiErrorWith, SetHeader, Reply
<1>3. \E s, c, d, n, b :
        /\ Tells(s, c, d, n, id)
        /\ Reply(status, code, details, id, <<id>>, <<>>) = Reply(s, c, d, n, <<id>>, b)
  <2> WITNESS status, code, details, id, <<>>
  <2> QED
    OBVIOUS
<1>4. QED
  BY <1>2, <1>3, Zenon DEF Complete, Fits

(* The error of a query names a parameter.                                 *)
LEMMA InvalidQueryFits ==
  ASSUME NEW id \in Ids, NEW error, error # NoError
  PROVE  Complete(InvalidQuery(error, id), id)
<1>1. PICK status, code : /\ status = 400 /\ code = "invalid_query"
                          /\ status \in Known /\ IsFailure(status)
  BY DEF Known, IsFailure
<1>2. code \in Codes /\ code # NoText
  BY <1>1, NoTextFacts DEF Codes
<1>3. Tells(status, code, error, id, id)
  BY <1>1, <1>2, Zenon DEF Tells
<1>4. Complete(ApiErrorWith(status, code, error, id), id)
  BY <1>3, ErrorFits, Zenon
<1>5. QED
  BY <1>1, <1>4 DEF InvalidQuery

PlainCodes == {"bad_request", "unauthorized", "forbidden", "not_found", "method_not_allowed",
               "conflict", "payload_too_large", "not_implemented", "service_unavailable",
               "internal_server_error"}

(* The errors that name no parameter.                                      *)
LEMMA PlainErrorFits ==
  ASSUME NEW id \in Ids, NEW status \in 400..599, NEW code \in PlainCodes
  PROVE  Complete(ApiError(status, code, id), id)
<1>1. Tells(status, code, NoError, id, id)
  <2>1. code \in Codes /\ code # "invalid_query"
    BY DEF Codes, PlainCodes
  <2>2. code # NoText
    BY NoTextFacts DEF PlainCodes
  <2>3. status \in Known /\ IsFailure(status)
    BY DEF Known, IsFailure
  <2>4. QED
    BY <2>1, <2>2, <2>3, Zenon DEF Tells
<1>2. QED
  BY <1>1, ErrorFits, Zenon DEF ApiError

LEMMA NamedErrorsFit ==
  ASSUME NEW id \in Ids
  PROVE  /\ Complete(BadRequest(id), id) /\ Complete(NotFound(id), id)
         /\ Complete(MethodNotAllowed(id), id) /\ Complete(InternalServerError(id), id)
<1>1. ASSUME NEW status \in 400..599, NEW code \in PlainCodes, NEW response,
             response = ApiError(status, code, id)
      PROVE  Complete(response, id)
  BY <1>1, PlainErrorFits
<1>2. /\ "bad_request" \in PlainCodes /\ "not_found" \in PlainCodes
      /\ "method_not_allowed" \in PlainCodes /\ "internal_server_error" \in PlainCodes
  BY DEF PlainCodes
<1>3. 400 \in 400..599 /\ 404 \in 400..599 /\ 405 \in 400..599 /\ 500 \in 400..599
  OBVIOUS
<1>4. QED
  BY <1>1, <1>2, <1>3 DEF BadRequest, NotFound, MethodNotAllowed, InternalServerError

LEMMA FrameworkErrorFits ==
  ASSUME NEW id \in Ids, NEW status
  PROVE  Complete(FrameworkErrorResponse(status, id), id)
<1>1. ASSUME NEW s \in {401, 403, 409, 413, 501, 503},
             NEW code \in {"unauthorized", "forbidden", "conflict", "payload_too_large",
                           "not_implemented", "service_unavailable"}
      PROVE  Complete(ApiError(s, code, id), id)
  <2>1. s \in 400..599 /\ code \in PlainCodes
    BY DEF PlainCodes
  <2> HIDE <1>1
  <2>2. QED
    BY <2>1, PlainErrorFits
<1>2. Complete(ApiError(401, "unauthorized", id), id)
  BY <1>1
<1>3. Complete(ApiError(403, "forbidden", id), id)
  BY <1>1
<1>4. Complete(ApiError(409, "conflict", id), id)
  BY <1>1
<1>5. Complete(ApiError(413, "payload_too_large", id), id)
  BY <1>1
<1>6. Complete(ApiError(501, "not_implemented", id), id)
  BY <1>1
<1>7. Complete(ApiError(503, "service_unavailable", id), id)
  BY <1>1
<1>8. QED
  BY <1>2, <1>3, <1>4, <1>5, <1>6, <1>7, NamedErrorsFit DEF FrameworkErrorResponse

LEMMA OkFits ==
  ASSUME NEW id, NEW body
  PROVE  Fits(Ok(body), id, <<>>)
<1>1. PICK status : status = 200 /\ status \in Known /\ ~IsFailure(status)
  BY DEF Known, IsFailure
<1>2. Ok(body) = Reply(status, NoText, NoError, NoText, <<>>, body)
  BY <1>1 DEF Ok, NoEnvelope, Reply
<1>3. NoText \in Codes /\ NoText # "invalid_query"
  BY NoTextFacts DEF Codes
<1>4. Tells(status, NoText, NoError, NoText, id)
  BY <1>1, <1>3, Zenon DEF Tells
<1>5. QED
  BY <1>2, <1>4, ReplyFits, Zenon

-----------------------------------------------------------------------------
(* The endpoints and the dispatcher *)

LEMMA HandledFits ==
  ASSUME NEW id \in Ids, NEW endpoint \in DOMAIN Path
  PROVE  \/ Fits(Handled(endpoint, id), id, <<>>)
         \/ Complete(Handled(endpoint, id), id)
<1> DEFINE Good(response) == Fits(response, id, <<>>) \/ Complete(response, id)
<1>1. ASSUME NEW error, error # NoError
      PROVE  Good(InvalidQuery(error, id))
  BY <1>1, InvalidQueryFits
<1>2. \A body : Good(Ok(body))
  BY OkFits
<1> HIDE DEF Good
<1>3. \A list : Good(HandleList(list, id))
  <2> TAKE list
  <2> DEFINE parsed == ParseQuery(request.query, list)
  <2> HIDE DEF parsed
  <2>1. HandleList(list, id) = IF parsed.error # NoError THEN InvalidQuery(parsed.error, id)
                                                       ELSE Ok(ListDocument(list, parsed.values))
    BY Zenon DEF HandleList, parsed
  <2>2. QED
    BY <1>1, <1>2, <2>1
<1>4. Good(HandleTree(id))
  <2> DEFINE parsed == ParseQuery(request.query, "tree")
  <2> HIDE DEF parsed
  <2>1. HandleTree(id) = IF parsed.error # NoError THEN InvalidQuery(parsed.error, id)
                                                 ELSE Ok(TreeDocument(parsed.values))
    BY Zenon DEF HandleTree, parsed
  <2>2. QED
    BY <1>1, <1>2, <2>1
<1>5. Good(HandleHealth) /\ Good(HandleModules)
  BY <1>2 DEF HandleHealth, HandleModules
<1>6. endpoint \in {"objects", "tree", "devices", "tags", "health", "modules"}
  BY DEF Path
<1>7. Good(Handled(endpoint, id))
  BY <1>3, <1>4, <1>5, <1>6 DEF Handled, HandleObjects, HandleDevices, HandleTags
<1>8. QED
  BY <1>7 DEF Good

(* The header of the answer replaces the one of an error envelope.         *)
LEMMA HeaderFits ==
  ASSUME NEW id \in Ids, NEW response, NEW ids \in {<<>>, <<id>>}, Fits(response, id, ids)
  PROVE  Complete([response EXCEPT !.ids = SetHeader(@, id)], id)
<1>1. PICK status, code, details, named, body :
        /\ Tells(status, code, details, named, id)
        /\ response = Reply(status, code, details, named, ids, body)
  BY Zenon DEF Fits
<1>2. SetHeader(ids, id) = <<id>>
  <2>1. Ensure(id, "made by header") = id
    BY EnsureKeeps
  <2>2. CASE ids = <<>>
    BY <2>1, <2>2 DEF SetHeader
  <2>3. CASE ids = <<id>>
    <3>1. <<id>> # <<>> /\ [<<id>> EXCEPT ![1] = id] = <<id>>
      OBVIOUS
    <3>2. SetHeader(ids, id) = [ids EXCEPT ![1] = Ensure(id, "made by header")]
      BY <2>3, <3>1 DEF SetHeader
    <3>3. QED
      BY <2>1, <2>3, <3>1, <3>2
  <2>4. QED
    BY <2>2, <2>3
<1> DEFINE answered == [response EXCEPT !.ids = SetHeader(@, id)]
<1>3. answered = Reply(status, code, details, named, <<id>>, body)
  <2>1. response.ids = ids
    BY <1>1, ReplyExcept
  <2>2. answered = [response EXCEPT !.ids = <<id>>]
    BY <1>2, <2>1
  <2> HIDE DEF answered
  <2>3. QED
    BY <1>1, <2>2, ReplyExcept
<1> HIDE DEF Reply, answered
<1>4. Complete(answered, id)
  BY <1>1, <1>3, ReplyFits, Zenon DEF Complete
<1>5. QED
  BY <1>4 DEF answered

LEMMA DispatchFits ==
  ASSUME NEW throws \in BOOLEAN, NEW id \in Ids
  PROVE  Complete(Dispatch(id, throws), id)
<1> DEFINE found == Resolve(id, request.correlation_id, "made by dispatcher")
           endpoint == CHOOSE e \in DOMAIN Path : Path[e] = request.path
           handled == [Handled(endpoint, found) EXCEPT !.ids = SetHeader(@, found)]
<1>1. Dispatch(id, throws) =
        CASE ~IsValid(request) -> BadRequest(found)
          [] IsValid(request) /\ request.path \notin Paths -> NotFound(found)
          [] IsValid(request) /\ request.path \in Paths /\ request.method # "GET" ->
               MethodNotAllowed(found)
          [] request.method = "GET" /\ request.path \in Paths ->
               IF throws THEN InternalServerError(found) ELSE handled
  BY DEF Dispatch
<1>2. found = id
  BY ResolveKeeps
<1> HIDE DEF found
<1>3. ASSUME request.path \in Paths PROVE Complete(handled, id)
  <2>1. endpoint \in DOMAIN Path
    BY <1>3 DEF Paths
  <2> HIDE DEF endpoint
  <2>2. QED
    <3>1. \E ids \in {<<>>, <<id>>} : Fits(Handled(endpoint, id), id, ids)
      BY <2>1, HandledFits, Zenon DEF Complete
    <3>2. QED
      BY <1>2, <3>1, HeaderFits
<1> HIDE DEF handled
<1>4. \/ Dispatch(id, throws) \in {BadRequest(found), NotFound(found), MethodNotAllowed(found),
                                 InternalServerError(found)}
      \/ request.path \in Paths /\ Dispatch(id, throws) = handled
  BY <1>1
<1>5. QED
  BY <1>2, <1>3, <1>4, NamedErrorsFit

-----------------------------------------------------------------------------
(* The server.  The options it was started with are valid and stay as they *)
(* are; everything else a property says is about the answer just given.    *)

RequestInv ==
  /\ phase \in {"idle", "received", "answered"}
  /\ phase = "idle" => request = NoRequest /\ ask = NoAsk
  /\ phase # "idle" => \/ request \in RawRequests /\ ask = NoAsk
                       \/ ask \in Asks /\ request = FrontendRequest(ask)
  /\ phase # "answered" => answer = NoAnswer

(* What the frontend gets, unless a handler throws or Drogon refuses.      *)
ServedByHandler ==
  LET parsed == ParseQuery(request.query, ask.list)
  IN IF parsed.error # NoError
       THEN answer.status = 400 /\ answer.error.details = parsed.error
       ELSE /\ answer.status = 200
            /\ answer.body = IF ask.list = "tree" THEN TreeDocument(parsed.values)
                                                 ELSE ListDocument(ask.list, parsed.values)

HandlerInv ==
  phase = "answered" /\ ask # NoAsk /\ answer.by = "handler" /\ answer.status # 500 =>
    ServedByHandler

IInv ==
  /\ cors \in CorsOptions /\ IsValidCors(cors)
  /\ RequestInv
  /\ OneCorrelationId
  /\ CorsReadable
  /\ EnvelopeTellsError
  /\ HandlerInv

(* Every answer is a response that fits the id of the bridge.              *)
Answered ==
  \E by \in {"preflight", "handler", "framework"} : \E response :
    /\ Complete(response, BridgeId)
    /\ Answer(by, response, CorsHeaders)

LEMMA StepsAnswer ==
  ASSUME Preflight \/ (\E throws \in BOOLEAN : Handle(throws))
           \/ (\E status \in Statuses : FrameworkError(status))
  PROVE  Answered
<1>1. BridgeId \in Ids
  BY BridgeIdFacts
<1> DEFINE id == BridgeId
<1>2. Complete(Reply(204, NoText, NoError, NoText, <<id>>, <<>>), id)
  <2>1. PICK status : status = 204 /\ status \in Known /\ ~IsFailure(status)
    BY DEF Known, IsFailure
  <2>2. NoText \in Codes /\ NoText # "invalid_query"
    BY NoTextFacts DEF Codes
  <2>3. Tells(status, NoText, NoError, NoText, id)
    BY <2>1, <2>2, Zenon DEF Tells
  <2>4. Complete(Reply(status, NoText, NoError, NoText, <<id>>, <<>>), id)
    BY <2>3, ReplyFits, Zenon DEF Complete
  <2>5. QED
    BY <2>1, <2>4
<1>3. CASE Preflight
  <2>1. Ensure(id, "made by header") = id
    BY <1>1, EnsureKeeps
  <2> DEFINE response == [Ok(<<>>) EXCEPT !.status = 204,
                                          !.ids = <<Ensure(id, "made by header")>>]
  <2>2. response = Reply(204, NoText, NoError, NoText, <<id>>, <<>>)
    <3>1. Ok(<<>>) = Reply(200, NoText, NoError, NoText, <<>>, <<>>)
      BY DEF Ok, NoEnvelope, Reply
    <3>2. response = [Ok(<<>>) EXCEPT !.status = 204, !.ids = <<id>>]
      BY <2>1
    <3> HIDE DEF response, id
    <3> DEFINE empty == [Ok(<<>>) EXCEPT !.status = 204]
    <3>3. response = [empty EXCEPT !.ids = <<id>>]
      BY <3>2
    <3>4. empty = Reply(204, NoText, NoError, NoText, <<>>, <<>>)
      <4>1. [Reply(200, NoText, NoError, NoText, <<>>, <<>>) EXCEPT !.status = 204]
              = Reply(204, NoText, NoError, NoText, <<>>, <<>>)
        BY ReplyExcept
      <4>2. QED
        BY <3>1, <4>1
    <3> HIDE DEF empty
    <3>5. QED
      BY <3>3, <3>4, ReplyExcept
  <2>3. Answer("preflight", response, CorsHeaders)
    BY <1>3 DEF Preflight
  <2> HIDE DEF response
  <2>4. QED
    BY <1>2, <2>2, <2>3 DEF Answered
<1>4. ASSUME NEW throws \in BOOLEAN, Handle(throws) PROVE Answered
  <2>1. Answer("handler", Dispatch(id, throws), CorsHeaders)
    BY <1>4 DEF Handle
  <2>2. Complete(Dispatch(id, throws), id)
    BY <1>1, DispatchFits
  <2> HIDE DEF id
  <2>3. QED
    BY <2>1, <2>2, Zenon DEF Answered, id
<1>5. ASSUME NEW status \in Statuses, FrameworkError(status) PROVE Answered
  <2> DEFINE found == Resolve(id, request.correlation_id, "made by dispatcher")
  <2>1. found = id
    BY <1>1, ResolveKeeps
  <2>2. Answer("framework", FrameworkErrorResponse(status, found), CorsHeaders)
    BY <1>5 DEF FrameworkError
  <2>3. Complete(FrameworkErrorResponse(status, id), id)
    BY <1>1, FrameworkErrorFits
  <2> HIDE DEF found
  <2>4. Answer("framework", FrameworkErrorResponse(status, id), CorsHeaders)
    BY <2>1, <2>2
  <2>5. QED
    BY <2>3, <2>4 DEF Answered
<1>6. QED
  BY <1>3, <1>4, <1>5

(* The headers of an origin, whatever the options.                         *)
LEMMA CorsHeadersFacts ==
  ASSUME cors \in Cors, IsValidCors(cors)
  PROVE  LET allowed == /\ cors.enabled /\ request.origin # NoText
                        /\ cors.allow_any_origin \/ request.origin \in cors.allowed_origins
         IN /\ CorsHeaders.allow_origin \in (IF allowed THEN {"*", request.origin} ELSE {NoText})
            /\ request.origin # "*" =>
                 (CorsHeaders.vary <=> CorsHeaders.allow_origin \notin {NoText, "*"})
            /\ request.origin # "*" =>
                 (CorsHeaders.credentials =>
                    /\ cors.allow_credentials /\ CorsHeaders.allow_origin # "*"
                    /\ request.origin \in cors.allowed_origins)
<1> DEFINE allowed == /\ cors.enabled /\ request.origin # NoText
                      /\ cors.allow_any_origin \/ request.origin \in cors.allowed_origins
<1>1. /\ cors.enabled \in BOOLEAN /\ cors.allow_any_origin \in BOOLEAN
      /\ cors.allow_credentials \in BOOLEAN
  BY DEF Cors
<1>2. IsOriginAllowed(request.origin) <=> allowed
  BY DEF IsOriginAllowed
<1>3. CASE ~allowed
  <2>1. CorsHeaders = NoCors
    BY <1>2, <1>3 DEF CorsHeaders
  <2>2. QED
    BY <1>3, <2>1, Zenon DEF NoCors
<1>4. CASE allowed /\ cors.allow_any_origin /\ ~cors.allow_credentials
  <2>1. CorsHeaders = [allow_origin |-> "*", vary |-> FALSE, credentials |-> FALSE]
    BY <1>2, <1>4 DEF CorsHeaders, NoCors
  <2>2. QED
    BY <1>4, <2>1
<1>5. CASE allowed /\ ~(cors.allow_any_origin /\ ~cors.allow_credentials)
  <2>1. CorsHeaders = [allow_origin |-> request.origin, vary |-> TRUE,
                       credentials |-> cors.allow_credentials]
    BY <1>2, <1>5 DEF CorsHeaders
  <2>2. /\ CorsHeaders.allow_origin = request.origin /\ CorsHeaders.vary = TRUE
        /\ CorsHeaders.credentials = cors.allow_credentials
    BY <2>1
  <2>3. ~cors.allow_any_origin /\ request.origin \in cors.allowed_origins
    BY <1>1, <1>5 DEF IsValidCors
  <2>4. QED
    BY <1>5, <2>2, <2>3
<1>6. QED
  BY <1>1, <1>3, <1>4, <1>5

LEMMA AnsweredKeeps ==
  ASSUME IInv, Answered
  PROVE  /\ cors' = cors /\ phase' = "answered" /\ request' = request /\ ask' = ask
         /\ answer'.by \in {"preflight", "handler", "framework"}
         /\ OneCorrelationId' /\ CorsReadable' /\ EnvelopeTellsError'
<1> DEFINE id == BridgeId
<1>1. PICK by \in {"preflight", "handler", "framework"} : \E response :
        Complete(response, id) /\ Answer(by, response, CorsHeaders)
  BY Zenon DEF Answered
<1>2. PICK response : Complete(response, id) /\ Answer(by, response, CorsHeaders)
  BY <1>1, Zenon
<1>3. /\ id \in ValidIds \cup MadeIds
      /\ request.correlation_id \in ValidIds => id = request.correlation_id
  BY BridgeIdFacts DEF Ids
<1> HIDE DEF id
<1>4. PICK status, code, details, named, body :
        /\ Tells(status, code, details, named, id)
        /\ response = Reply(status, code, details, named, <<id>>, body)
  BY <1>2, Zenon DEF Complete, Fits
<1>5. /\ status \in {200, 204} \cup 400..599 /\ code \in Codes
      /\ code # NoText <=> status >= 400
      /\ details # NoError <=> code = "invalid_query"
      /\ code # NoText => named = id
  BY <1>4 DEF Tells, Known, IsFailure
<1>6. /\ response.status = status /\ response.ids = <<id>>
      /\ response.error = [code |-> code, details |-> details, id |-> named]
  BY <1>4 DEF Reply
<1>7. /\ answer' = [by |-> by, status |-> response.status, error |-> response.error,
                    ids |-> response.ids, body |-> response.body, cors |-> CorsHeaders]
      /\ cors' = cors /\ request' = request /\ phase' = "answered" /\ ask' = ask
  BY <1>2 DEF Answer, Sent
<1>8. /\ answer'.by = by /\ answer'.status = status /\ answer'.ids = <<id>>
      /\ answer'.error.code = code /\ answer'.error.details = details
      /\ answer'.error.id = named /\ answer'.cors = CorsHeaders
  <2> DEFINE headers == CorsHeaders
  <2> HIDE DEF headers
  <2>1. answer' = [by |-> by, status |-> status,
                   error |-> [code |-> code, details |-> details, id |-> named],
                   ids |-> <<id>>, body |-> response.body, cors |-> headers]
    BY <1>6, <1>7 DEF headers
  <2>2. QED
    BY <2>1 DEF headers
<1>9. OneCorrelationId'
  BY <1>3, <1>5, <1>7, <1>8 DEF OneCorrelationId
<1>10. CorsReadable'
  <2>1. cors \in Cors /\ IsValidCors(cors)
    BY CorsAssumption DEF IInv
  <2>2. QED
    BY <1>7, <1>8, <2>1, CorsHeadersFacts DEF CorsReadable
<1>11. EnvelopeTellsError'
  BY <1>1, <1>5, <1>7, <1>8 DEF EnvelopeTellsError
<1>12. QED
  BY <1>1, <1>7, <1>8, <1>9, <1>10, <1>11

(* The request of an ask goes to the handler of its list.                  *)
LEMMA AskDispatched ==
  ASSUME NEW a, a.list \in Lists, request = FrontendRequest(a), NEW id \in Ids
  PROVE  Dispatch(id, FALSE) = [Handled(a.list, id) EXCEPT !.ids = SetHeader(@, id)]
<1>1. request.method = "GET" /\ request.path = Path[a.list]
  BY DEF FrontendRequest
<1>2. a.list \in DOMAIN Path /\ \A e \in DOMAIN Path : Path[e] = Path[a.list] => e = a.list
  BY DEF Lists, Path
<1>3. request.path \in Paths /\ (CHOOSE e \in DOMAIN Path : Path[e] = request.path) = a.list
  BY <1>1, <1>2 DEF Paths
<1>4. Path[a.list] # NoText
  <2>1. Path[a.list] \in {"/api/objects", "/api/objects/tree", "/api/devices", "/api/tags"}
    BY DEF Lists, Path
  <2>2. NoText \notin {"/api/objects", "/api/objects/tree", "/api/devices", "/api/tags"}
    BY Zenon DEF NoText
  <2>3. QED
    BY <2>1, <2>2
<1>5. IsValid(request)
  BY <1>1, <1>4 DEF IsValid
<1>6. Resolve(id, request.correlation_id, "made by dispatcher") = id
  BY ResolveKeeps
<1>7. QED
  BY <1>1, <1>3, <1>5, <1>6 DEF Dispatch

LEMMA HandleServes ==
  ASSUME IInv, NEW throws \in BOOLEAN, Handle(throws)
  PROVE  HandlerInv'
<1> SUFFICES ASSUME ask' # NoAsk, answer'.status # 500 PROVE ServedByHandler'
  BY DEF HandlerInv
<1> DEFINE id == BridgeId
           list == ask.list
           parsed == ParseQuery(request.query, list)
           document == IF list = "tree" THEN TreeDocument(parsed.values)
                                        ELSE ListDocument(list, parsed.values)
<1>1. /\ phase = "received" /\ request' = request /\ ask' = ask
      /\ answer' = Sent("handler", Dispatch(id, throws), CorsHeaders)
  BY DEF Handle, Answer
<1>2. ask \in Asks /\ request = FrontendRequest(ask)
  BY <1>1 DEF IInv, RequestInv
<1>3. list \in Lists /\ id \in Ids
  BY <1>2, AskAssumption, BridgeIdFacts
<1> HIDE DEF id
<1>4. throws = FALSE
  <2> SUFFICES ASSUME throws PROVE FALSE
    OBVIOUS
  <2> DEFINE answered == InternalServerError(Resolve(id, request.correlation_id,
                                                     "made by dispatcher"))
  <2>1. request.path \in Paths /\ request.method = "GET" /\ request.path # NoText
    <3>1. request.method = "GET" /\ request.path = Path[list]
      BY <1>2 DEF FrontendRequest
    <3>2. Path[list] \in {"/api/objects", "/api/objects/tree", "/api/devices", "/api/tags"}
      BY <1>3 DEF Lists, Path
    <3>3. NoText \notin {"/api/objects", "/api/objects/tree", "/api/devices", "/api/tags"}
      BY Zenon DEF NoText
    <3>4. list \in DOMAIN Path
      BY <1>3 DEF Lists, Path
    <3>5. QED
      BY <3>1, <3>2, <3>3, <3>4 DEF Paths
  <2>2. Dispatch(id, throws) = answered
    BY <2>1 DEF Dispatch, IsValid
  <2>3. answered.status = 500
    BY DEF InternalServerError, ApiError, ApiErrorWith
  <2> HIDE DEF answered
  <2>4. QED
    BY <1>1, <2>2, <2>3 DEF Sent
<1> DEFINE handled == Handled(list, id)
<1>5. answer' = Sent("handler", [handled EXCEPT !.ids = SetHeader(@, id)], CorsHeaders)
  BY <1>1, <1>2, <1>3, <1>4, AskDispatched
<1>6. handled = IF parsed.error # NoError THEN InvalidQuery(parsed.error, id) ELSE Ok(document)
  <2> HIDE DEF parsed
  <2>1. CASE list = "tree"
    <3>1. HandleTree(id) = IF parsed.error # NoError THEN InvalidQuery(parsed.error, id)
                                                   ELSE Ok(TreeDocument(parsed.values))
      BY <2>1, Zenon DEF HandleTree, parsed
    <3>2. QED
      BY <2>1, <3>1 DEF Handled
  <2>2. CASE list \in {"objects", "devices", "tags"}
    <3>1. HandleList(list, id) = IF parsed.error # NoError THEN InvalidQuery(parsed.error, id)
                                                         ELSE Ok(ListDocument(list, parsed.values))
      BY Zenon DEF HandleList, parsed
    <3> HIDE DEF list
    <3>2. QED
      BY <2>2, <3>1 DEF Handled, HandleObjects, HandleDevices, HandleTags
  <2>3. QED
    BY <1>3, <2>1, <2>2 DEF Lists
<1> HIDE DEF parsed, document, handled
<1>7. CASE parsed.error # NoError
  <2>1. handled.status = 400 /\ handled.error.details = parsed.error
        /\ DOMAIN handled = {"status", "error", "ids", "body"}
    BY <1>6, <1>7 DEF InvalidQuery, ApiErrorWith
  <2>2. answer'.status = 400 /\ answer'.error.details = parsed.error
    BY <1>5, <2>1 DEF Sent
  <2>3. QED
    BY <1>1, <1>7, <2>2 DEF ServedByHandler, parsed
<1>8. CASE parsed.error = NoError
  <2>1. handled.status = 200 /\ handled.body = document
        /\ DOMAIN handled = {"status", "error", "ids", "body"}
    BY <1>6, <1>8 DEF Ok
  <2>2. answer'.status = 200 /\ answer'.body = document
    BY <1>5, <2>1 DEF Sent
  <2>3. QED
    BY <1>1, <1>8, <2>2, Zenon DEF ServedByHandler, parsed, document
<1>9. QED
  BY <1>7, <1>8

(* The invariant of the server, for every history of requests.             *)
THEOREM Safety == Spec => []IInv
<1>1. Init => IInv
  BY DEF Init, IInv, RequestInv, OneCorrelationId, CorsReadable, EnvelopeTellsError, HandlerInv
<1>2. IInv /\ [Next]_vars => IInv'
  <2> SUFFICES ASSUME IInv, [Next]_vars PROVE IInv'
    OBVIOUS
  <2>1. ASSUME UNCHANGED cors, phase' # "answered", RequestInv' PROVE IInv'
    BY <2>1 DEF IInv, OneCorrelationId, CorsReadable, EnvelopeTellsError, HandlerInv
  <2>2. ASSUME NEW r, NEW a, Receive(r, a),
               \/ r \in RawRequests /\ a = NoAsk
               \/ a \in Asks /\ r = FrontendRequest(a)
        PROVE  IInv'
    <3>1. phase' = "received" /\ request' = r /\ ask' = a /\ UNCHANGED <<cors, answer>>
          /\ answer = NoAnswer
      BY <2>2 DEF Receive, IInv, RequestInv
    <3>2. RequestInv'
      BY <2>2, <3>1 DEF RequestInv
    <3>3. QED
      BY <2>1, <3>1, <3>2
  <2>3. CASE Close
    <3>1. RequestInv'
      BY <2>3 DEF Close, RequestInv
    <3>2. QED
      BY <2>1, <2>3, <3>1 DEF Close
  <2>4. CASE UNCHANGED vars
    BY <2>4 DEF vars, IInv, RequestInv, OneCorrelationId, CorsReadable, EnvelopeTellsError,
                HandlerInv, ServedByHandler
  <2>5. CASE Preflight \/ (\E throws \in BOOLEAN : Handle(throws))
               \/ (\E status \in Statuses : FrameworkError(status))
    <3>1. Answered
      BY <2>5, StepsAnswer
    <3>2. /\ cors' = cors /\ phase' = "answered" /\ request' = request /\ ask' = ask
          /\ OneCorrelationId' /\ CorsReadable' /\ EnvelopeTellsError'
      BY <3>1, AnsweredKeeps
    <3>3. phase = "received"
      BY <2>5 DEF Preflight, Handle, FrameworkError
    <3>4. RequestInv'
      BY <3>2, <3>3 DEF IInv, RequestInv
    <3>5. HandlerInv'
      <4>1. CASE answer'.by # "handler"
        BY <4>1 DEF HandlerInv
      <4>2. ASSUME NEW throws \in BOOLEAN, Handle(throws) PROVE HandlerInv'
        BY <4>2, HandleServes
      <4>3. ASSUME Preflight \/ (\E status \in Statuses : FrameworkError(status))
            PROVE  answer'.by # "handler"
        <5>1. ASSUME NEW by, NEW response, NEW headers, Answer(by, response, headers)
              PROVE  answer'.by = by
          BY <5>1 DEF Answer, Sent
        <5>2. "preflight" # "handler" /\ "framework" # "handler"
          OBVIOUS
        <5>3. QED
          BY <4>3, <5>1, <5>2, Zenon DEF Preflight, FrameworkError
      <4>4. QED
        BY <2>5, <4>1, <4>2, <4>3
    <3>6. QED
      BY <3>2, <3>4, <3>5 DEF IInv
  <2>6. QED
    BY <2>2, <2>3, <2>4, <2>5 DEF Next, ReceiveAsk
<1>3. QED
  BY <1>1, <1>2, PTL DEF Spec

(* The server is between requests, holds one, or has answered it.          *)
THEOREM TypeCorrect == Spec => []TypeOK
<1>1. IInv => TypeOK
  <2> SUFFICES ASSUME IInv PROVE TypeOK
    OBVIOUS
  <2>1. phase = "answered" => answer # NoAnswer
    <3> SUFFICES ASSUME phase = "answered", answer = NoAnswer PROVE FALSE
      OBVIOUS
    <3>1. answer.by \in {"preflight", "handler", "framework"}
      BY DEF IInv, EnvelopeTellsError
    <3>2. answer.by = NoText
      BY DEF NoAnswer
    <3>3. NoText \notin {"preflight", "handler", "framework"}
      BY Zenon DEF NoText
    <3>4. QED
      BY <3>1, <3>2, <3>3
  <2>2. phase # "idle" =>
          \/ request \in Request /\ ask = NoAsk
          \/ ask.list \in Lists /\ request = FrontendRequest(ask)
    BY RequestAssumption, AskAssumption, Zenon DEF IInv, RequestInv
  <2>3. QED
    BY <2>1, <2>2 DEF IInv, RequestInv, TypeOK
<1>2. QED
  BY <1>1, Safety, PTL

(* Every answer has one correlation id, the client's if it is well-formed, *)
(* and an error's body and header say the same one.                        *)
THEOREM CorrelationTheorem == Spec => []OneCorrelationId
<1>1. IInv => OneCorrelationId
  BY DEF IInv
<1>2. QED
  BY <1>1, Safety, PTL

(* A page reads an answer exactly when its origin is allowed, and gets     *)
(* credentials only when its origin is listed.                             *)
THEOREM CorsTheorem == Spec => []CorsReadable
<1>1. IInv => CorsReadable
  BY DEF IInv
<1>2. QED
  BY <1>1, Safety, PTL

(* An error and only an error has an envelope.                             *)
THEOREM EnvelopeTheorem == Spec => []EnvelopeTellsError
<1>1. IInv => EnvelopeTellsError
  BY DEF IInv
<1>2. QED
  BY <1>1, Safety, PTL

-----------------------------------------------------------------------------
(* The proofs about the read service, for any query the frontend asks.     *)
Service == INSTANCE ConfigurationReadsProofs
  WITH Snapshots <- {Config}, Queries <- {NoQuery}, Offsets <- {}, snapshot <- Config,
       service <- "serving", walk <- "idle", query <- ReadQuery(ask.list, AskedValues), first <- 0,
       offset <- 0, pages <- 0, collected <- <<>>

(* What the service assumes of its snapshot holds of the one served.       *)
LEMMA ServiceAssumptions ==
  /\ \A s \in {Config} : s \in Service!Snapshot
  /\ {NoQuery} \subseteq Service!Query /\ {NoQuery} # {}
  /\ MaxLimit \in Nat /\ {} \subseteq Nat
<1>1. Config \in Service!Snapshot
  BY ConfigAssumption
     DEF Reads!Snapshot, Reads!Object, Reads!Device, Reads!Tag, Reads!ObjectTypes,
         Reads!DeviceStates, Reads!DeviceProtocols, Reads!TagTypes, Reads!ValueTypes,
         Service!Snapshot, Service!Object, Service!Device, Service!Tag, Service!ObjectTypes,
         Service!DeviceStates, Service!DeviceProtocols, Service!TagTypes, Service!ValueTypes
<1>2. NoQuery \in Service!Query
  <2>1. NoText = Service!AnyState
    BY Zenon DEF NoText, Service!AnyState
  <2>2. QED
    BY <2>1 DEF NoQuery, Service!Query
<1>3. QED
  BY <1>1, <1>2, LimitAssumption

(* Induction, over a set of numbers.                                       *)
LEMMA SetInduction ==
  ASSUME NEW T, 0 \in T, \A n \in Nat : n \in T => n + 1 \in T
  PROVE  Nat \subseteq T
  BY Service!SetInduction, ServiceAssumptions

StatesOf(f, T, start, step, size) ==
  /\ f \in [0..size -> T] /\ f[0] = start
  /\ \A n \in 1..size : f[n] = step[n][f[n - 1]]

(* A loop of the code that runs `step' over its inputs has states.         *)
LEMMA LoopHasStates ==
  ASSUME NEW T, NEW start \in T, NEW step \in [Nat -> [T -> T]], NEW size \in Nat
  PROVE  \E f : StatesOf(f, T, start, step, size)
<1>1. \E f : Service!StatesOf(f, T, start, step, size)
  BY Service!LoopHasStates, ServiceAssumptions
<1>2. QED
  BY <1>1 DEF StatesOf, Service!StatesOf

(* A text is split character by character.                                 *)
SplitStep(before, c, separator) ==
  IF c = separator THEN Append(before, <<>>)
                   ELSE [before EXCEPT ![Len(before)] = Append(@, c)]

Splits(S) == Seq(Seq(S)) \ {<<>>}

(* What a split keeps is a sequence of texts, never empty.                 *)
LEMMA SplitStepType ==
  ASSUME NEW S, NEW before \in Splits(S), NEW c \in S, NEW separator
  PROVE  SplitStep(before, c, separator) \in Splits(S)
<1>1. before \in Seq(Seq(S)) /\ Len(before) \in 1..Len(before) /\ before[Len(before)] \in Seq(S)
  BY DEF Splits
<1>2. <<>> \in Seq(S) /\ Append(before[Len(before)], c) \in Seq(S)
  BY <1>1
<1>3. Append(before, <<>>) \in Splits(S)
  BY <1>1, <1>2 DEF Splits
<1> DEFINE last == Append(before[Len(before)], c)
           changed == [before EXCEPT ![Len(before)] = last]
<1>4. changed \in Splits(S)
  <2> HIDE DEF last
  <2>1. changed \in Seq(Seq(S))
    BY <1>1, <1>2, ExceptSeq DEF last
  <2>2. Len(changed) = Len(before)
    BY <1>1
  <2>3. changed # <<>>
    BY <1>1, <2>1, <2>2
  <2>4. QED
    BY <2>1, <2>3 DEF Splits
<1>5. QED
  BY <1>3, <1>4 DEF SplitStep

SplitIs(f, S, text, separator) ==
  /\ f \in [0..Len(text) -> Splits(S)] /\ f[0] = <<<<>>>>
  /\ \A n \in 1..Len(text) : f[n] = SplitStep(f[n - 1], text[n], separator)

(* SplitAt runs through states, the last of which it returns.              *)
LEMMA SplitHasStates ==
  ASSUME NEW S, NEW text \in Seq(S), NEW separator
  PROVE  \E f : SplitIs(f, S, text, separator) /\ SplitAt(text, separator) = f[Len(text)]
<1> DEFINE size == Len(text)
           T == Splits(S)
           start == <<<<>>>>
           grown(t, n) == SplitStep(t, text[n], separator)
           step == [n \in Nat |-> [t \in T |-> IF n \in 1..size THEN grown(t, n) ELSE t]]
           Solves(f) == f = [n \in 0..size |-> IF n = 0 THEN start ELSE grown(f[n - 1], n)]
           states == CHOOSE f : Solves(f)
<1>1. size \in Nat /\ start \in T /\ \A n \in 1..size : text[n] \in S
  BY DEF Splits
<1>2. \A n \in 1..size, t \in T : grown(t, n) \in T
  BY <1>1, SplitStepType
<1> HIDE DEF size, T, start
<1>3. step \in [Nat -> [T -> T]]
  <2> HIDE DEF grown
  <2>1. QED
    BY <1>2
<1>4. PICK f : StatesOf(f, T, start, step, size)
  <2> HIDE DEF step
  <2>1. QED
    BY <1>1, <1>3, LoopHasStates
<1>5. \A n \in 1..size : n \in Nat /\ n \in 0..size /\ n - 1 \in 0..size /\ n # 0
  BY <1>1
<1>6. \A n \in 1..size : step[n][f[n - 1]] = grown(f[n - 1], n)
  <2> TAKE n \in 1..size
  <2>1. f[n - 1] \in T
    BY <1>4, <1>5 DEF StatesOf
  <2> HIDE DEF grown
  <2>2. QED
    BY <1>5, <2>1
<1>7. Solves(f)
  <2>1. \A n \in 0..size : n # 0 => n \in 1..size
    BY <1>1
  <2>2. f = [n \in 0..size |-> f[n]]
    BY <1>4 DEF StatesOf
  <2> HIDE DEF step, grown
  <2>3. \A n \in 0..size : f[n] = IF n = 0 THEN start ELSE grown(f[n - 1], n)
    BY <1>4, <1>6, <2>1, Zenon DEF StatesOf
  <2>4. QED
    BY <2>2, <2>3
<1>8. Solves(states)
  BY <1>7, Zenon
<1>9. SplitAt(text, separator) = states[size]
  BY Zenon DEF SplitAt, SplitStep, size, start, grown
<1> HIDE DEF states
<1>10. states[0] = start /\ \A n \in 1..size : states[n] = grown(states[n - 1], n)
  <2>1. 0 \in 0..size
    BY <1>1
  <2> HIDE DEF grown
  <2>2. QED
    BY <1>5, <1>8, <2>1, Zenon
<1> DEFINE Done == {n \in Nat : n <= size => states[n] \in T}
<1>11. 0 \in Done
  BY <1>1, <1>10
<1>12. ASSUME NEW n \in Nat, n \in Done PROVE n + 1 \in Done
  <2> SUFFICES ASSUME n + 1 <= size PROVE states[n + 1] \in T
    OBVIOUS
  <2>1. states[n] \in T /\ n + 1 \in 1..size /\ (n + 1) - 1 = n
    BY <1>1, <1>12
  <2> HIDE DEF grown
  <2>2. QED
    BY <1>2, <1>10, <2>1
<1>13. Nat \subseteq Done
  <2> HIDE DEF Done
  <2>1. QED
    BY <1>11, <1>12, SetInduction
<1>14. states \in [0..size -> T]
  <2>1. \A n \in 0..size : states[n] \in T
    BY <1>1, <1>13
  <2>2. states = [n \in 0..size |-> IF n = 0 THEN start ELSE grown(states[n - 1], n)]
    BY <1>8, Zenon
  <2> HIDE DEF grown
  <2>3. DOMAIN states = 0..size
    BY <2>2
  <2>4. states = [n \in 0..size |-> states[n]]
    BY <2>2, <2>3
  <2>5. QED
    BY <2>1, <2>4
<1>15. SplitIs(states, S, text, separator)
  BY <1>10, <1>14, Zenon DEF SplitIs, size, T, start
<1>16. QED
  BY <1>9, <1>15, Zenon DEF size

(* One more character is one more step.                                    *)
LEMMA SplitAppend ==
  ASSUME NEW S, NEW text \in Seq(S), NEW c \in S, NEW separator
  PROVE  /\ SplitAt(text, separator) \in Splits(S)
         /\ SplitAt(Append(text, c), separator)
              = SplitStep(SplitAt(text, separator), c, separator)
<1> DEFINE longer == Append(text, c)
           size == Len(text)
<1>1. /\ longer \in Seq(S) /\ Len(longer) = size + 1 /\ longer[size + 1] = c
      /\ \A n \in 1..size : longer[n] = text[n]
  OBVIOUS
<1>2. PICK f : SplitIs(f, S, text, separator) /\ SplitAt(text, separator) = f[Len(text)]
  BY SplitHasStates
<1>3. PICK g : SplitIs(g, S, longer, separator) /\ SplitAt(longer, separator) = g[Len(longer)]
  BY <1>1, SplitHasStates
<1> DEFINE Done == {n \in Nat : n <= size => f[n] = g[n]}
<1> HIDE DEF longer
<1>4. size \in Nat
  OBVIOUS
<1> HIDE DEF size
<1>5. /\ f[0] = g[0]
      /\ \A n \in 1..size : f[n] = SplitStep(f[n - 1], text[n], separator)
      /\ \A n \in 1..(size + 1) : g[n] = SplitStep(g[n - 1], longer[n], separator)
  BY <1>1, <1>2, <1>3 DEF SplitIs, size
<1>6. 0 \in Done
  BY <1>5
<1>7. ASSUME NEW n \in Nat, n \in Done PROVE n + 1 \in Done
  <2> SUFFICES ASSUME n + 1 <= size PROVE f[n + 1] = g[n + 1]
    OBVIOUS
  <2>1. f[n] = g[n] /\ n + 1 \in 1..size /\ n + 1 \in 1..(size + 1) /\ (n + 1) - 1 = n
    BY <1>4, <1>7
  <2>2. QED
    BY <1>1, <1>5, <2>1
<1>8. Nat \subseteq Done
  <2> HIDE DEF Done
  <2>1. QED
    BY <1>6, <1>7, SetInduction
<1>9. f[size] = g[size]
  BY <1>4, <1>8
<1>10. g[size + 1] = SplitStep(g[size], c, separator)
  <2>1. size + 1 \in 1..(size + 1) /\ (size + 1) - 1 = size
    BY <1>4
  <2>2. QED
    BY <1>1, <1>5, <2>1
<1>11. f[size] \in Splits(S)
  BY <1>2, <1>4 DEF SplitIs, size
<1>12. QED
  BY <1>1, <1>2, <1>3, <1>9, <1>10, <1>11 DEF longer, size

(* The empty text has one part, which is empty.                            *)
LEMMA SplitEmpty ==
  ASSUME NEW separator
  PROVE  SplitAt(<<>>, separator) = <<<<>>>>
<1>1. <<>> \in Seq({}) /\ Len(<<>>) = 0
  OBVIOUS
<1>2. PICK f : SplitIs(f, {}, <<>>, separator) /\ SplitAt(<<>>, separator) = f[Len(<<>>)]
  BY <1>1, SplitHasStates
<1>3. QED
  BY <1>1, <1>2, Zenon DEF SplitIs

(* Characters that are no separator go to the last part.                   *)
Lengthened(parts, text) == [parts EXCEPT ![Len(parts)] = @ \o text]

(* A step lengthens the last part.                                         *)
LEMMA LengthenedOnce ==
  ASSUME NEW S, NEW parts \in Splits(S), NEW a \in Seq(S), NEW c \in S, NEW separator,
         c # separator
  PROVE  SplitStep(Lengthened(parts, a), c, separator) = Lengthened(parts, Append(a, c))
<1>1. /\ parts \in Seq(Seq(S)) /\ Len(parts) \in Nat /\ Len(parts) \in 1..Len(parts)
      /\ parts[Len(parts)] \in Seq(S)
  BY DEF Splits
<1>2. PICK n \in Nat, last \in Seq(S) : n = Len(parts) /\ last = parts[n]
  BY <1>1, Zenon
<1> DEFINE once == [parts EXCEPT ![n] = last \o a]
<1>3. once = Lengthened(parts, a) /\ Len(once) = n /\ once[n] = last \o a
  BY <1>1, <1>2 DEF Lengthened
<1>4. Append(last \o a, c) = last \o Append(a, c)
  OBVIOUS
<1>5. SplitStep(once, c, separator) = [once EXCEPT ![n] = Append(last \o a, c)]
  BY <1>2, <1>3 DEF SplitStep
<1>6. [once EXCEPT ![n] = Append(last \o a, c)] = [parts EXCEPT ![n] = Append(last \o a, c)]
  <2> DEFINE new == Append(last \o a, c)
  <2> HIDE DEF new
  <2>1. QED
    BY <1>1, <1>2
<1>7. QED
  BY <1>2, <1>3, <1>4, <1>5, <1>6 DEF Lengthened

(* A step at the end of two texts joined.                                  *)
LEMMA SplitNext ==
  ASSUME NEW S, NEW text \in Seq(S), NEW a \in Seq(S), NEW c \in S, NEW separator
  PROVE  SplitAt(text \o Append(a, c), separator)
           = SplitStep(SplitAt(text \o a, separator), c, separator)
<1>1. text \o a \in Seq(S) /\ Append(text \o a, c) = text \o Append(a, c)
  OBVIOUS
<1>2. PICK t \in Seq(S) : t = text \o a /\ Append(t, c) = text \o Append(a, c)
  BY <1>1, Zenon
<1>3. SplitAt(Append(t, c), separator) = SplitStep(SplitAt(t, separator), c, separator)
  BY SplitAppend
<1>4. QED
  BY <1>2, <1>3

LEMMA SplitLengthens ==
  ASSUME NEW S, NEW text \in Seq(S), NEW more \in Seq(S), NEW separator,
         separator \notin Range(more)
  PROVE  SplitAt(text \o more, separator) = Lengthened(SplitAt(text, separator), more)
<1> DEFINE size == Len(more)
           parts == SplitAt(text, separator)
           first(k) == SubSeq(more, 1, k)
           Done == {k \in Nat : k <= size =>
                      SplitAt(text \o first(k), separator) = Lengthened(parts, first(k))}
<1>1. size \in Nat /\ \A k \in 1..size : more[k] \in S /\ more[k] # separator
  BY DEF Range
<1>2. parts \in Splits(S)
  <2>1. CASE S = {}
    <3>1. text = <<>>
      BY <2>1
    <3>2. <<>> \in Seq(Seq(S)) \ {<<>>} \/ <<<<>>>> \in Splits(S)
      BY DEF Splits
    <3>3. <<<<>>>> \in Splits(S)
      BY DEF Splits
    <3>4. QED
      BY <3>1, <3>3, SplitEmpty
  <2>2. CASE S # {}
    <3>1. PICK c : c \in S
      BY <2>2
    <3>2. QED
      BY <3>1, SplitAppend
  <2>3. QED
    BY <2>1, <2>2
<1> HIDE DEF parts
<1>3. parts \in Seq(Seq(S)) /\ Len(parts) \in 1..Len(parts) /\ parts[Len(parts)] \in Seq(S)
  BY <1>2 DEF Splits
<1>4. \A k \in 0..size : first(k) \in Seq(S)
  OBVIOUS
<1>5. 0 \in Done
  <2>1. first(0) = <<>>
    OBVIOUS
  <2>2. text \o <<>> = text
    OBVIOUS
  <2>3. Lengthened(parts, <<>>) = parts
    <3>1. parts[Len(parts)] \o <<>> = parts[Len(parts)]
      BY <1>3
    <3>2. parts = [i \in 1..Len(parts) |-> parts[i]]
      BY <1>3
    <3> DEFINE last == parts[Len(parts)]
    <3>3. Lengthened(parts, <<>>) = [parts EXCEPT ![Len(parts)] = last]
      BY <3>1 DEF Lengthened
    <3>4. QED
      BY <1>3, <3>2, <3>3
  <2>4. QED
    BY <2>1, <2>2, <2>3 DEF parts
<1>6. ASSUME NEW k \in Nat, k \in Done PROVE k + 1 \in Done
  <2> SUFFICES ASSUME k + 1 <= size
               PROVE  SplitAt(text \o first(k + 1), separator) = Lengthened(parts, first(k + 1))
    OBVIOUS
  <2>1. k + 1 \in 1..size /\ k \in 0..size /\ k <= size
    BY <1>1
  <2>2. PICK a \in Seq(S), c \in S : a = first(k) /\ c = more[k + 1]
    BY <1>1, <1>4, <2>1
  <2>3. c # separator
    BY <1>1, <2>1, <2>2
  <2>4. first(k + 1) = Append(a, c)
    BY <2>1, <2>2
  <2>5. SplitAt(text \o a, separator) = Lengthened(parts, a)
    BY <1>6, <2>1, <2>2
  <2>6. SplitAt(text \o Append(a, c), separator) = SplitStep(Lengthened(parts, a), c, separator)
    BY <2>5, SplitNext
  <2>7. SplitStep(Lengthened(parts, a), c, separator) = Lengthened(parts, Append(a, c))
    BY <1>2, <2>3, LengthenedOnce
  <2>8. QED
    BY <2>4, <2>6, <2>7
<1>7. Nat \subseteq Done
  <2> HIDE DEF Done
  <2>1. QED
    BY <1>5, <1>6, SetInduction
<1>8. SplitAt(text \o first(size), separator) = Lengthened(parts, first(size))
  BY <1>1, <1>7
<1>9. first(size) = more
  OBVIOUS
<1>10. QED
  BY <1>8, <1>9 DEF parts

(* No part has a separator.                                                *)
LEMMA SplitParts ==
  ASSUME NEW S, NEW text \in Seq(S), NEW separator
  PROVE  LET parts == SplitAt(text, separator)
         IN  /\ parts \in Splits(S)
             /\ \A i \in 1..Len(parts) : separator \notin Range(parts[i])
<1>1. PICK f : SplitIs(f, S, text, separator) /\ SplitAt(text, separator) = f[Len(text)]
  BY SplitHasStates
<1> DEFINE size == Len(text)
           Clean(parts) == \A i \in 1..Len(parts) : separator \notin Range(parts[i])
           Done == {n \in Nat : n <= size => Clean(f[n])}
<1>2. /\ size \in Nat /\ f \in [0..size -> Splits(S)] /\ f[0] = <<<<>>>>
      /\ \A n \in 1..size : f[n] = SplitStep(f[n - 1], text[n], separator) /\ text[n] \in S
  BY <1>1 DEF SplitIs
<1> HIDE DEF size
<1>3. 0 \in Done
  <2>1. Len(<<<<>>>>) = 1 /\ <<<<>>>>[1] = <<>> /\ Range(<<>>) = {}
    BY DEF Range
  <2>2. QED
    BY <1>2, <2>1
<1>4. ASSUME NEW n \in Nat, n \in Done PROVE n + 1 \in Done
  <2> SUFFICES ASSUME n + 1 <= size PROVE Clean(f[n + 1])
    OBVIOUS
  <2>1. n \in 0..size /\ n + 1 \in 1..size /\ (n + 1) - 1 = n
    BY <1>2
  <2>2. PICK parts \in Splits(S), c \in S : parts = f[n] /\ c = text[n + 1]
    BY <1>2, <2>1
  <2>3. f[n + 1] = SplitStep(parts, c, separator) /\ Clean(parts)
    BY <1>2, <1>4, <2>1, <2>2
  <2>4. parts \in Seq(Seq(S)) /\ Len(parts) \in Nat /\ Len(parts) >= 1
    BY DEF Splits
  <2>5. CASE c = separator
    <3>1. f[n + 1] = Append(parts, <<>>)
      BY <2>3, <2>5 DEF SplitStep
    <3>2. /\ Len(f[n + 1]) = Len(parts) + 1 /\ f[n + 1][Len(parts) + 1] = <<>>
          /\ \A i \in 1..Len(parts) : f[n + 1][i] = parts[i]
      BY <2>4, <3>1
    <3>3. Range(<<>>) = {}
      BY DEF Range
    <3>4. QED
      BY <2>3, <2>4, <3>2, <3>3
  <2>6. CASE c # separator
    <3> DEFINE m == Len(parts)
    <3>1. PICK last \in Seq(S) : last = parts[m]
      BY <2>4
    <3>2. f[n + 1] = [parts EXCEPT ![m] = Append(last, c)]
      BY <2>3, <2>6, <3>1 DEF SplitStep
    <3>3. Range(Append(last, c)) = Range(last) \cup {c}
      <4>1. /\ Len(Append(last, c)) = Len(last) + 1 /\ Append(last, c)[Len(last) + 1] = c
            /\ \A i \in 1..Len(last) : Append(last, c)[i] = last[i]
            /\ DOMAIN Append(last, c) = 1..(Len(last) + 1) /\ DOMAIN last = 1..Len(last)
            /\ Len(last) \in Nat
        OBVIOUS
      <4>2. PICK longer : longer = Append(last, c)
        OBVIOUS
      <4>3. 1..(Len(last) + 1) = 1..Len(last) \cup {Len(last) + 1}
        BY <4>1
      <4>4. {longer[i] : i \in 1..(Len(last) + 1)} = {last[i] : i \in 1..Len(last)} \cup {c}
        BY <4>1, <4>2, <4>3
      <4>5. QED
        BY <4>1, <4>2, <4>4 DEF Range
    <3>4. separator \notin Range(Append(last, c))
      BY <2>3, <2>4, <2>6, <3>1, <3>3
    <3>5. PICK new : new = Append(last, c)
      OBVIOUS
    <3>6. f[n + 1] = [parts EXCEPT ![m] = new] /\ separator \notin Range(new)
      BY <3>2, <3>4, <3>5
    <3>7. Len(f[n + 1]) = m /\ \A i \in 1..m : f[n + 1][i] = IF i = m THEN new ELSE parts[i]
      BY <2>4, <3>6
    <3>8. QED
      BY <2>3, <3>6, <3>7
  <2>7. QED
    BY <2>5, <2>6
<1>5. Nat \subseteq Done
  <2> HIDE DEF Done
  <2>1. QED
    BY <1>3, <1>4, SetInduction
<1>6. Clean(f[size]) /\ f[size] \in Splits(S)
  BY <1>2, <1>5
<1>7. QED
  BY <1>1, <1>6 DEF size

-----------------------------------------------------------------------------
JoinIs(f, S, parts) ==
  /\ f \in [0..Len(parts) -> Seq(S)] /\ f[0] = <<>>
  /\ \A n \in 1..Len(parts) :
       f[n] = IF n = 1 THEN parts[1] ELSE f[n - 1] \o <<"&">> \o parts[n]

(* Joined runs through states, the last of which it returns.               *)
LEMMA JoinHasStates ==
  ASSUME NEW S, "&" \in S, NEW parts \in Seq(Seq(S))
  PROVE  \E f : JoinIs(f, S, parts) /\ Joined(parts) = f[Len(parts)]
<1> DEFINE size == Len(parts)
           T == Seq(S)
           grown(t, n) == IF n = 1 THEN parts[1] ELSE t \o <<"&">> \o parts[n]
           step == [n \in Nat |-> [t \in T |-> IF n \in 1..size THEN grown(t, n) ELSE t]]
           Solves(f) == f = [n \in 0..size |-> CASE n = 0 -> <<>> [] n = 1 -> parts[1]
                               [] OTHER -> f[n - 1] \o <<"&">> \o parts[n]]
           states == CHOOSE f : Solves(f)
<1>1. size \in Nat /\ <<>> \in T /\ \A n \in 1..size : parts[n] \in T
  OBVIOUS
<1>2. \A n \in 1..size, t \in T : grown(t, n) \in T
  <2> TAKE n \in 1..size, t \in T
  <2>1. PICK p \in Seq(S), q \in Seq(S) : p = parts[n] /\ q = parts[1]
    BY <1>1
  <2>2. t \o <<"&">> \o p \in T
    OBVIOUS
  <2>3. QED
    BY <2>1, <2>2
<1> HIDE DEF size, T
<1>3. step \in [Nat -> [T -> T]]
  <2> HIDE DEF grown
  <2>1. QED
    BY <1>2
<1>4. PICK f : StatesOf(f, T, <<>>, step, size)
  <2> DEFINE none == <<>>
  <2>1. none \in T
    BY <1>1
  <2> HIDE DEF step, none
  <2>2. \E f : StatesOf(f, T, none, step, size)
    BY <1>1, <1>3, <2>1, LoopHasStates
  <2>3. QED
    BY <2>2 DEF none
<1>5. \A n \in 1..size : n \in Nat /\ n \in 0..size /\ n - 1 \in 0..size /\ n # 0
  BY <1>1
<1>6. \A n \in 1..size : step[n][f[n - 1]] = grown(f[n - 1], n)
  <2> TAKE n \in 1..size
  <2>1. f[n - 1] \in T
    BY <1>4, <1>5 DEF StatesOf
  <2> HIDE DEF grown
  <2>2. QED
    BY <1>5, <2>1
<1>7. /\ f \in [0..size -> T] /\ f[0] = <<>>
      /\ \A n \in 1..size : f[n] = grown(f[n - 1], n)
  <2> HIDE DEF step, grown
  <2>1. QED
    BY <1>4, <1>6 DEF StatesOf
<1>8. Solves(f)
  <2> DEFINE more(n) == f[n - 1] \o <<"&">> \o parts[n]
  <2>1. \A n \in 1..size : f[n] = IF n = 1 THEN parts[1] ELSE more(n)
    BY <1>7
  <2> HIDE DEF more, grown
  <2>2. \A n \in 0..size : f[n] = CASE n = 0 -> <<>> [] n = 1 -> parts[1] [] OTHER -> more(n)
    <3> TAKE n \in 0..size
    <3>1. CASE n = 0
      BY <1>7, <3>1
    <3>2. CASE n # 0
      <4>1. n \in 1..size
        BY <1>1, <3>2
      <4>2. QED
        BY <2>1, <3>2, <4>1
    <3>3. QED
      BY <3>1, <3>2
  <2>3. f = [n \in 0..size |-> f[n]]
    BY <1>7
  <2>4. f = [n \in 0..size |-> CASE n = 0 -> <<>> [] n = 1 -> parts[1] [] OTHER -> more(n)]
    BY <2>2, <2>3
  <2>5. QED
    BY <2>4 DEF more
<1>9. Solves(states)
  BY <1>8, Zenon
<1>10. Joined(parts) = states[size]
  BY Zenon DEF Joined, size
<1> HIDE DEF states
<1>11. /\ DOMAIN states = 0..size /\ states[0] = <<>>
       /\ \A n \in 1..size : states[n] = grown(states[n - 1], n)
  <2> DEFINE more(n) == states[n - 1] \o <<"&">> \o parts[n]
  <2>1. states = [n \in 0..size |-> CASE n = 0 -> <<>> [] n = 1 -> parts[1] [] OTHER -> more(n)]
    BY <1>9
  <2> HIDE DEF more
  <2>2. DOMAIN states = 0..size /\ states[0] = <<>>
        /\ \A n \in 1..size : states[n] = IF n = 1 THEN parts[1] ELSE more(n)
    BY <1>1, <2>1
  <2>3. QED
    BY <2>2 DEF more
<1> DEFINE Done == {n \in Nat : n <= size => states[n] \in T}
<1>12. 0 \in Done
  BY <1>1, <1>11
<1>13. ASSUME NEW n \in Nat, n \in Done PROVE n + 1 \in Done
  <2> SUFFICES ASSUME n + 1 <= size PROVE states[n + 1] \in T
    OBVIOUS
  <2>1. states[n] \in T /\ n + 1 \in 1..size /\ (n + 1) - 1 = n
    BY <1>1, <1>13
  <2> HIDE DEF grown
  <2>2. QED
    BY <1>2, <1>11, <2>1
<1>14. Nat \subseteq Done
  <2> HIDE DEF Done
  <2>1. QED
    BY <1>12, <1>13, SetInduction
<1>15. \A n \in 0..size : states[n] \in T
  BY <1>1, <1>14
<1>16. states \in [0..size -> T]
  BY <1>9, <1>11, <1>15, Zenon
<1>17. JoinIs(states, S, parts)
  BY <1>11, <1>16, Zenon DEF JoinIs, size, T
<1>18. QED
  BY <1>10, <1>17, Zenon DEF size

(* Lengthening a part just begun.                                          *)
LEMMA LengthenedNew ==
  ASSUME NEW S, NEW before \in Seq(Seq(S)), NEW text \in Seq(S)
  PROVE  Lengthened(Append(before, <<>>), text) = Append(before, text)
<1>1. PICK n \in Nat : n = Len(before) + 1
  OBVIOUS
<1>2. PICK old : old = Append(before, <<>>)
  BY Zenon
<1>3. PICK new : n = Len(before) + 1 /\ old = Append(before, <<>>) /\ new = Append(before, text)
  BY <1>1, <1>2, Zenon
<1>4. /\ old \in Seq(Seq(S)) /\ Len(old) = n /\ old[n] = <<>> /\ DOMAIN old = 1..n
      /\ \A i \in 1..n : i # n => old[i] = before[i]
  BY <1>3
<1>5. /\ new \in Seq(Seq(S)) /\ new[n] = text /\ DOMAIN new = 1..n
      /\ \A i \in 1..n : i # n => new[i] = before[i]
  BY <1>3
<1>6. <<>> \o text = text
  OBVIOUS
<1>7. Lengthened(old, text) = [old EXCEPT ![n] = text]
  BY <1>4, <1>6 DEF Lengthened
<1>8. [old EXCEPT ![n] = text] = [i \in 1..n |-> new[i]]
  BY <1>4, <1>5
<1>9. new = [i \in 1..n |-> new[i]]
  BY <1>5
<1>10. QED
  BY <1>3, <1>7, <1>8, <1>9

(* A sequence of one element.                                              *)
LEMMA OnlyOne ==
  ASSUME NEW T, NEW s \in Seq(T), Len(s) = 1
  PROVE  s = <<s[1]>>
<1>1. DOMAIN s = 1..1 /\ s = [i \in 1..1 |-> s[i]]
  OBVIOUS
<1>2. <<s[1]>> = [i \in 1..1 |-> s[1]]
  OBVIOUS
<1>3. \A i \in 1..1 : s[i] = s[1]
  OBVIOUS
<1>4. [i \in 1..1 |-> s[i]] = [i \in 1..1 |-> s[1]]
  BY <1>3
<1>5. QED
  BY <1>1, <1>2, <1>4, Zenon

(* Joined parts without a separator are what is split again.               *)
LEMMA JoinedSplits ==
  ASSUME NEW S, "&" \in S, NEW parts \in Splits(S),
         \A i \in 1..Len(parts) : "&" \notin Range(parts[i])
  PROVE  /\ Joined(parts) \in Seq(S)
         /\ SplitAt(Joined(parts), "&") = parts
         /\ parts[1] # <<>> => Joined(parts) # <<>> /\ Head(Joined(parts)) = Head(parts[1])
<1>1. parts \in Seq(Seq(S)) /\ Len(parts) \in Nat /\ Len(parts) >= 1
  BY DEF Splits
<1>2. PICK f : JoinIs(f, S, parts) /\ Joined(parts) = f[Len(parts)]
  BY <1>1, JoinHasStates
<1> DEFINE size == Len(parts)
           Starts(t) == Len(t) >= Len(parts[1]) /\ \A i \in 1..Len(parts[1]) : t[i] = parts[1][i]
           Right(n) == SplitAt(f[n], "&") = SubSeq(parts, 1, n) /\ Starts(f[n])
           Done == {n \in Nat : n + 1 <= size => Right(n + 1)}
<1>3. /\ f \in [0..size -> Seq(S)] /\ f[1] = parts[1]
      /\ \A n \in 2..size : f[n] = f[n - 1] \o <<"&">> \o parts[n]
  <2>1. 1 \in 1..size /\ \A n \in 2..size : n \in 1..size /\ n # 1
    BY <1>1
  <2>2. /\ f \in [0..size -> Seq(S)]
        /\ \A n \in 1..size : f[n] = IF n = 1 THEN parts[1] ELSE f[n - 1] \o <<"&">> \o parts[n]
    BY <1>2, Zenon DEF JoinIs
  <2>3. f[1] = parts[1]
    BY <2>1, <2>2
  <2>4. ASSUME NEW n \in 2..size PROVE f[n] = f[n - 1] \o <<"&">> \o parts[n]
    BY <2>1, <2>2, Zenon
  <2>5. QED
    BY <2>2, <2>3, <2>4
<1>4. /\ size \in Nat /\ size >= 1 /\ \A n \in 1..size : parts[n] \in Seq(S)
      /\ \A n \in 1..size : "&" \notin Range(parts[n])
  BY <1>1
<1>5. \A n \in 1..size : f[n] \in Seq(S)
  <2> HIDE DEF size
  <2>1. QED
    BY <1>3, <1>4
<1>6. 0 \in Done
  <2>1. PICK first \in Seq(S) : first = parts[1]
    BY <1>1
  <2>2. SplitAt(<<>> \o first, "&") = Lengthened(<<<<>>>>, first)
    <3>1. <<>> \in Seq(S) /\ "&" \notin Range(first)
      BY <1>1, <2>1
    <3>2. QED
      BY <3>1, SplitLengthens, SplitEmpty
  <2>3. <<>> \o first = first
    OBVIOUS
  <2>4. Lengthened(<<<<>>>>, first) = <<first>>
    BY <2>3 DEF Lengthened
  <2>5. SubSeq(parts, 1, 1) = <<first>>
    <3>1. Len(SubSeq(parts, 1, 1)) = 1 /\ SubSeq(parts, 1, 1)[1] = parts[1]
          /\ SubSeq(parts, 1, 1) \in Seq(Seq(S))
      BY <1>1
    <3>2. PICK one \in Seq(Seq(S)) : one = SubSeq(parts, 1, 1)
      BY <3>1, Zenon
    <3>3. one = <<first>>
      BY <2>1, <3>1, <3>2, OnlyOne
    <3>4. QED
      BY <3>2, <3>3
  <2>6. SplitAt(f[1], "&") = SubSeq(parts, 1, 1)
    BY <1>3, <2>1, <2>2, <2>3, <2>4, <2>5
  <2>7. Starts(f[1])
    BY <1>1, <1>3
  <2> HIDE DEF Starts
  <2>8. QED
    BY <2>6, <2>7
<1>7. ASSUME NEW n \in Nat, n \in Done PROVE n + 1 \in Done
  <2> SUFFICES ASSUME n + 2 <= size PROVE Right(n + 2)
    OBVIOUS
  <2> DEFINE m == n + 1
  <2>1. Right(m)
    BY <1>1, <1>7
  <2>2. m \in 0..size /\ m \in 1..size /\ m + 1 \in 1..size /\ m + 1 \in 2..size /\ (m + 1) - 1 = m
    BY <1>1
  <2>3. PICK t \in Seq(S), p \in Seq(S) : t = f[m] /\ p = parts[m + 1]
    <3>1. f[m] \in Seq(S) /\ parts[m + 1] \in Seq(S)
      BY <1>4, <1>5, <2>2, Zenon
    <3>2. QED
      BY <3>1, Zenon
  <2>4. t \o <<"&">> = Append(t, "&") /\ Append(t, "&") \in Seq(S)
    OBVIOUS
  <2>5. PICK longer \in Seq(S) : longer = Append(t, "&") /\ f[m + 1] = longer \o p
    <3>1. f[m + 1] = t \o <<"&">> \o p
      BY <1>3, <2>2, <2>3
    <3>2. f[m + 1] = Append(t, "&") \o p
      BY <2>4, <3>1
    <3>3. QED
      BY <2>4, <3>2, Zenon
  <2>6. PICK before \in Seq(Seq(S)) : before = SubSeq(parts, 1, m)
    <3>1. SubSeq(parts, 1, m) \in Seq(Seq(S))
      BY <1>1, <2>2
    <3>2. QED
      BY <3>1, Zenon
  <2>7. SplitAt(longer, "&") = Append(before, <<>>)
    <3>1. SplitAt(t, "&") = before
      BY <2>1, <2>3, <2>6
    <3>2. SplitAt(longer, "&") = SplitStep(SplitAt(t, "&"), "&", "&")
      BY <2>5, SplitAppend
    <3>3. QED
      BY <3>1, <3>2 DEF SplitStep
  <2>8. SplitAt(longer \o p, "&") = Lengthened(Append(before, <<>>), p)
    <3>1. "&" \notin Range(p)
      BY <2>2, <2>3
    <3>2. longer \in Seq(S) /\ p \in Seq(S)
      OBVIOUS
    <3>3. SplitAt(longer \o p, "&") = Lengthened(SplitAt(longer, "&"), p)
      BY <3>1, <3>2, SplitLengthens, Zenon
    <3>4. QED
      BY <2>7, <3>3
  <2>9. Lengthened(Append(before, <<>>), p) = Append(before, p)
    BY LengthenedNew
  <2>10. Append(before, p) = SubSeq(parts, 1, m + 1)
    BY <1>1, <2>2, <2>3, <2>6
  <2>11. SplitAt(f[m + 1], "&") = SubSeq(parts, 1, m + 1)
    BY <2>5, <2>8, <2>9, <2>10
  <2>12. Starts(f[m + 1])
    <3>1. Starts(t)
      BY <2>1, <2>3
    <3>2. /\ Len(longer \o p) = Len(t) + 1 + Len(p)
          /\ \A i \in 1..Len(t) : (longer \o p)[i] = t[i]
      BY <2>5
    <3>3. PICK first \in Seq(S) : first = parts[1]
      BY <1>1
    <3>4. Len(first) \in Nat /\ Len(t) \in Nat /\ Len(p) \in Nat
      OBVIOUS
    <3>5. QED
      BY <2>5, <3>1, <3>2, <3>3, <3>4
  <2>13. m + 1 = n + 2
    OBVIOUS
  <2> HIDE DEF Starts, m
  <2>14. QED
    BY <2>11, <2>12, <2>13
<1>8. Nat \subseteq Done
  <2> HIDE DEF Done
  <2>1. QED
    BY <1>6, <1>7, SetInduction
<1>9. Right(size)
  <2>1. size - 1 \in Nat /\ (size - 1) + 1 = size
    BY <1>1
  <2> HIDE DEF Right
  <2>2. QED
    BY <1>8, <2>1
<1>10. SubSeq(parts, 1, size) = parts
  BY <1>1
<1>11. PICK joined \in Seq(S) : joined = f[size]
  <2>1. f[size] \in Seq(S)
    <3> HIDE DEF size
    <3>1. QED
      BY <1>4, <1>5
  <2>2. QED
    BY <2>1, Zenon
<1>12. parts[1] # <<>> => joined # <<>> /\ Head(joined) = Head(parts[1])
  <2>1. PICK first \in Seq(S) : first = parts[1]
    BY <1>1
  <2>2. first # <<>> => Len(first) >= 1 /\ Head(first) = first[1]
    OBVIOUS
  <2>3. Starts(joined)
    BY <1>9, <1>11
  <2>4. QED
    BY <2>1, <2>2, <2>3
<1>13. QED
  BY <1>2, <1>9, <1>10, <1>11, <1>12
-----------------------------------------------------------------------------
(* Errors *)

Reasons ==
  {"empty_parameter", "invalid_encoding", "empty_name", "unsupported_parameter",
   "duplicate_parameter", "invalid_integer", "must_be_positive", "exceeds_maximum",
   "must_not_be_empty", "unsupported_value", "invalid_boolean"}

(* An error with a reason is one.                                          *)
LEMMA ErrorFacts ==
  ASSUME NEW field, NEW reason \in Reasons
  PROVE  Error(field, reason) # NoError /\ Error(field, reason).field = field
<1>1. NoText \notin Reasons
  BY Zenon DEF NoText, Reasons
<1>2. NoError.reason = NoText
  BY Zenon DEF NoError, NoText
<1>3. Error(field, reason).reason = reason /\ Error(field, reason).field = field
  BY DEF Error
<1>4. QED
  BY <1>1, <1>2, <1>3

(* Of some numbers one is the least.                                       *)
LEMMA LeastExists ==
  ASSUME NEW D \in SUBSET Nat, D # {}
  PROVE  \E i \in D : \A j \in D : i <= j
<1> SUFFICES ASSUME \A i \in D : \E j \in D : ~(i <= j) PROVE FALSE
  OBVIOUS
<1> DEFINE T == {n \in Nat : \A j \in D : n <= j}
<1>1. 0 \in T
  OBVIOUS
<1>2. ASSUME NEW n \in Nat, n \in T PROVE n + 1 \in T
  <2>1. n \notin D
    BY <1>2
  <2>2. QED
    BY <1>2, <2>1
<1>3. Nat \subseteq T
  <2> HIDE DEF T
  <2>1. QED
    BY <1>1, <1>2, SetInduction
<1>4. PICK d \in D : TRUE
  OBVIOUS
<1>5. d + 1 \in T
  BY <1>3
<1>6. QED
  BY <1>5

(* There is a first error exactly when there is one.                       *)
LEMMA FirstErrorFacts ==
  ASSUME NEW n \in Nat, NEW errors, DOMAIN errors = 1..n
  PROVE  /\ (\A i \in 1..n : errors[i] = NoError) => FirstError(errors) = NoError
         /\ (\E i \in 1..n : errors[i] # NoError) =>
              \E i \in 1..n : errors[i] # NoError /\ FirstError(errors) = errors[i]
<1> DEFINE bad == {i \in DOMAIN errors : errors[i] # NoError}
           least == CHOOSE i \in bad : \A j \in bad : i <= j
<1>1. FirstError(errors) = IF bad = {} THEN NoError ELSE errors[least]
  BY Zenon DEF FirstError
<1>2. ASSUME bad # {} PROVE least \in bad
  <2>1. bad \in SUBSET Nat
    OBVIOUS
  <2> HIDE DEF bad
  <2>2. \E i \in bad : \A j \in bad : i <= j
    BY <1>2, <2>1, LeastExists
  <2>3. QED
    BY <2>2, Zenon
<1> HIDE DEF least
<1>3. QED
  BY <1>1, <1>2

(* A parameter is taken when it has one of the names, for the first time.  *)
LEMMA PartErrorFacts ==
  ASSUME NEW earlier, NEW part, NEW names
  PROVE  PartError(earlier, part, {<<name>> : name \in names}) = NoError <=>
           /\ part # <<>> /\ Decodable(part)
           /\ NameOf(part) \in {<<name>> : name \in names} /\ ~Repeats(earlier, part)
<1> DEFINE allowed == {<<name>> : name \in names}
           name == NameOf(part)
           error == PartError(earlier, part, allowed)
<1>1. <<>> \notin allowed
  OBVIOUS
<1> HIDE DEF allowed
<1>2. \A field : /\ Error(field, "empty_parameter") # NoError
                 /\ Error(field, "invalid_encoding") # NoError
                 /\ Error(field, "empty_name") # NoError
                 /\ Error(field, "unsupported_parameter") # NoError
                 /\ Error(field, "duplicate_parameter") # NoError
  BY ErrorFacts DEF Reasons
<1>3. CASE part = <<>>
  <2>1. error = Error(<<"query">>, "empty_parameter")
    BY <1>3 DEF PartError
  <2>2. QED
    BY <1>2, <1>3, <2>1 DEF allowed
<1>4. CASE part # <<>> /\ ~Decodable(part)
  <2>1. error = Error(<<"query">>, "invalid_encoding")
    BY <1>4 DEF PartError
  <2>2. QED
    BY <1>2, <1>4, <2>1 DEF allowed
<1>5. CASE part # <<>> /\ Decodable(part)
  <2>1. error = CASE name = <<>> -> Error(<<"query">>, "empty_name")
                  [] name \notin allowed \cup {<<>>} -> Error(name, "unsupported_parameter")
                  [] name \in allowed -> IF Repeats(earlier, part)
                                           THEN Error(name, "duplicate_parameter") ELSE NoError
    BY <1>5 DEF PartError
  <2> HIDE DEF error, name
  <2>2. error = NoError <=> name \in allowed /\ ~Repeats(earlier, part)
    BY <1>1, <1>2, <2>1
  <2>3. QED
    BY <1>5, <2>2 DEF allowed, error, name
<1>6. QED
  BY <1>3, <1>4, <1>5

(* A query is taken when every part is, and no name comes twice.           *)
Taken(parts, names) ==
  /\ \A i \in 1..Len(parts) :
       /\ parts[i] # <<>> /\ Decodable(parts[i])
       /\ NameOf(parts[i]) \in {<<name>> : name \in names}
  /\ \A i, j \in 1..Len(parts) : NameOf(parts[i]) = NameOf(parts[j]) => i = j

LEMMA QueryErrorFacts ==
  ASSUME NEW S, NEW parts \in Seq(S), NEW names
  PROVE  QueryError(parts, {<<name>> : name \in names}) = NoError <=> Taken(parts, names)
<1> DEFINE n == Len(parts)
           allowed == {<<name>> : name \in names}
           earlier(i) == {parts[j] : j \in 1..(i - 1)}
           errors == [i \in DOMAIN parts |-> PartError(earlier(i), parts[i], allowed)]
<1>1. n \in Nat /\ DOMAIN parts = 1..n
  OBVIOUS
<1> HIDE DEF n
<1>2. QueryError(parts, allowed) = FirstError(errors)
  BY Zenon DEF QueryError
<1>3. \A i \in 1..n : errors[i] = NoError <=>
        /\ parts[i] # <<>> /\ Decodable(parts[i])
        /\ NameOf(parts[i]) \in allowed /\ ~Repeats(earlier(i), parts[i])
  <2> TAKE i \in 1..n
  <2>1. errors[i] = PartError(earlier(i), parts[i], allowed)
    BY <1>1
  <2> HIDE DEF errors, earlier
  <2>2. QED
    BY <2>1, PartErrorFacts
<1>4. DOMAIN errors = 1..n
  BY <1>1
<1> HIDE DEF errors
<1>5. QueryError(parts, allowed) = NoError <=> \A i \in 1..n : errors[i] = NoError
  BY <1>1, <1>2, <1>4, FirstErrorFacts
<1>6. \A i \in 1..n : Repeats(earlier(i), parts[i]) <=>
        \E j \in 1..(i - 1) : NameOf(parts[j]) = NameOf(parts[i])
  BY DEF Repeats
<1>7. (\A i \in 1..n : ~Repeats(earlier(i), parts[i])) <=>
        \A i, j \in 1..n : NameOf(parts[i]) = NameOf(parts[j]) => i = j
  <2> HIDE DEF earlier
  <2>1. ASSUME \A i \in 1..n : ~Repeats(earlier(i), parts[i]),
               NEW i \in 1..n, NEW j \in 1..n, NameOf(parts[i]) = NameOf(parts[j])
        PROVE  i = j
    <3>1. ~(i \in 1..(j - 1)) /\ ~(j \in 1..(i - 1))
      BY <1>6, <2>1
    <3>2. QED
      BY <1>1, <3>1
  <2>2. ASSUME \A i, j \in 1..n : NameOf(parts[i]) = NameOf(parts[j]) => i = j, NEW i \in 1..n
        PROVE  ~Repeats(earlier(i), parts[i])
    <3>1. \A j \in 1..(i - 1) : j \in 1..n /\ j # i
      BY <1>1
    <3>2. QED
      BY <1>6, <2>2, <3>1
  <2>3. QED
    BY <2>1, <2>2
<1> HIDE DEF earlier
<1>8. QED
  BY <1>3, <1>5, <1>7 DEF Taken, n, allowed
-----------------------------------------------------------------------------
(* The parts of a query *)

Clean(parts) == \A i \in 1..Len(parts) : "&" \notin Range(parts[i])

(* The parts of a query have no separator.                                 *)
LEMMA PartsAreClean ==
  ASSUME NEW S, NEW raw \in Seq(S)
  PROVE  \/ Parts(raw) = <<>>
         \/ Parts(raw) \in Splits(S) /\ Clean(Parts(raw))
<1>1. WithoutMark(raw) \in Seq(S)
  BY DEF WithoutMark
<1>2. PICK text \in Seq(S) : text = WithoutMark(raw)
  BY <1>1, Zenon
<1>3. SplitAt(text, "&") \in Splits(S) /\ Clean(SplitAt(text, "&"))
  BY SplitParts DEF Clean
<1>4. QED
  BY <1>2, <1>3 DEF Parts

(* Joined parts are parted again, unless the first begins with a mark.     *)
LEMMA PartsOfJoined ==
  ASSUME NEW S, "&" \in S, NEW parts, parts = <<>> \/ (parts \in Splits(S) /\ Clean(parts)),
         parts # <<>> => parts[1] # <<>> /\ Head(parts[1]) # "?"
  PROVE  Parts(Joined(parts)) = parts
<1>1. CASE parts = <<>>
  <2>1. PICK f : JoinIs(f, S, <<>>) /\ Joined(<<>>) = f[Len(<<>>)]
    <3>1. <<>> \in Seq(Seq(S))
      OBVIOUS
    <3>2. QED
      BY <3>1, JoinHasStates
  <2>2. Len(<<>>) = 0
    OBVIOUS
  <2>3. Joined(<<>>) = <<>>
    BY <2>1, <2>2, Zenon DEF JoinIs
  <2>4. WithoutMark(<<>>) = <<>>
    BY DEF WithoutMark
  <2>5. QED
    BY <1>1, <2>3, <2>4 DEF Parts
<1>2. CASE parts # <<>>
  <2>1. parts \in Splits(S) /\ Clean(parts) /\ parts[1] # <<>> /\ Head(parts[1]) # "?"
    BY <1>2
  <2>2. /\ Joined(parts) \in Seq(S) /\ SplitAt(Joined(parts), "&") = parts
        /\ Joined(parts) # <<>> /\ Head(Joined(parts)) = Head(parts[1])
    BY <2>1, JoinedSplits DEF Clean
  <2>3. WithoutMark(Joined(parts)) = Joined(parts)
    BY <2>1, <2>2, Zenon DEF WithoutMark
  <2>4. QED
    BY <2>2, <2>3, Zenon DEF Parts
<1>3. QED
  BY <1>1, <1>2

(* A name ends at the first "=".                                           *)
LEMMA NameEndFacts ==
  ASSUME NEW S, NEW part \in Seq(S)
  PROVE  /\ NameEnd(part) \in 1..(Len(part) + 1)
         /\ NameEnd(part) = Len(part) + 1 \/ part[NameEnd(part)] = "="
         /\ \A j \in 1..(NameEnd(part) - 1) : part[j] # "="
<1> DEFINE D == {i \in 1..(Len(part) + 1) : i = Len(part) + 1 \/ part[i] = "="}
           Ends(i) == /\ i = Len(part) + 1 \/ part[i] = "="
                      /\ \A j \in 1..(i - 1) : part[j] # "="
<1>1. D \in SUBSET Nat /\ D # {}
  <2>1. Len(part) + 1 \in D
    OBVIOUS
  <2>2. QED
    BY <2>1
<1>2. PICK i \in D : \A j \in D : i <= j
  <2> HIDE DEF D
  <2>1. QED
    BY <1>1, LeastExists
<1>3. i \in 1..(Len(part) + 1) /\ Ends(i)
  <2>1. i \in 1..(Len(part) + 1) /\ (i = Len(part) + 1 \/ part[i] = "=")
    BY <1>2
  <2>2. ASSUME NEW j \in 1..(i - 1), part[j] = "=" PROVE FALSE
    <3>1. j \in D /\ ~(i <= j)
      BY <2>1, <2>2
    <3>2. QED
      BY <1>2, <3>1
  <2>3. QED
    BY <2>1, <2>2
<1>4. NameEnd(part) = CHOOSE k \in 1..(Len(part) + 1) : Ends(k)
  BY Zenon DEF NameEnd
<1>5. NameEnd(part) \in 1..(Len(part) + 1) /\ Ends(NameEnd(part))
  <2> HIDE DEF Ends
  <2>1. QED
    BY <1>3, <1>4, Zenon
<1>6. QED
  BY <1>5

(* A name of one character is the first character of its part.             *)
LEMMA NameIsFirst ==
  ASSUME NEW S, NEW part \in Seq(S), NEW name, NameOf(part) = <<name>>
  PROVE  part # <<>> /\ name = DecodedCharacter(part[1]) /\ NameEnd(part) = 2
<1> DEFINE end == NameEnd(part)
           raw == RawName(part)
<1>1. end \in 1..(Len(part) + 1)
  BY NameEndFacts
<1> HIDE DEF end
<1>2. raw \in Seq(S) /\ Len(raw) = end - 1 /\ (end > 1 => raw[1] = part[1])
  BY <1>1 DEF RawName, end
<1> HIDE DEF raw
<1>3. DOMAIN raw = 1..(end - 1)
  BY <1>2
<1>4. <<name>> = [i \in 1..(end - 1) |-> DecodedCharacter(raw[i])]
  BY <1>3, Zenon DEF NameOf, Decoded, raw
<1>5. DOMAIN <<name>> = 1..1 /\ <<name>>[1] = name
  OBVIOUS
<1>6. 1..(end - 1) = 1..1
  BY <1>4, <1>5
<1>7. end = 2
  <2>1. 1 \in 1..(end - 1) /\ ~(2 \in 1..(end - 1))
    BY <1>6
  <2>2. QED
    BY <1>1, <2>1
<1>8. name = DecodedCharacter(raw[1])
  BY <1>4, <1>5, <1>6
<1>9. QED
  BY <1>1, <1>2, <1>7, <1>8 DEF end

(* A part that names a parameter does not begin with a mark.               *)
LEMMA NoMarkFirst ==
  ASSUME NEW S, NEW part \in Seq(S), NEW name, name # "?", NameOf(part) = <<name>>
  PROVE  part # <<>> /\ Head(part) # "?"
<1>1. part # <<>> /\ name = DecodedCharacter(part[1])
  BY NameIsFirst
<1>2. DecodedCharacter("?") = "?"
  BY DEF DecodedCharacter, Escapes
<1>3. QED
  BY <1>1, <1>2

(* In a taken query the value of a name is that of its only parameter.     *)
LEMMA ValueFacts ==
  ASSUME NEW S, NEW parts \in Seq(S), NEW names, Taken(parts, names),
         NEW i \in 1..Len(parts), NEW name, NameOf(parts[i]) = <<name>>
  PROVE  Has(parts, name) /\ ValueOf(parts, name) = Decoded(RawValue(parts[i]))
<1> DEFINE named == {k \in DOMAIN parts : NameOf(parts[k]) = <<name>>}
           first == CHOOSE k \in named : \A j \in named : k <= j
<1>1. DOMAIN parts = 1..Len(parts) /\ Len(parts) \in Nat
  OBVIOUS
<1>2. Has(parts, name)
  BY <1>1 DEF Has, Range
<1>3. named = {i}
  BY <1>1 DEF Taken
<1>4. ValueOf(parts, name) = Decoded(RawValue(parts[first]))
  BY Zenon DEF ValueOf
<1> HIDE DEF named
<1>5. first = i
  BY <1>1, <1>3
<1>6. QED
  BY <1>2, <1>4, <1>5

Names(list) == {p.name : p \in Range(Parameters[list])}

(* What a query says depends on no more than the values of its names.      *)
LEMMA ParseAgrees ==
  ASSUME NEW list, NEW raw, NEW other,
         QueryError(Parts(raw), {<<name>> : name \in Names(list)}) = NoError,
         QueryError(Parts(other), {<<name>> : name \in Names(list)}) = NoError,
         \A name \in Names(list) :
           /\ Has(Parts(raw), name) <=> Has(Parts(other), name)
           /\ Has(Parts(raw), name) => ValueOf(Parts(raw), name) = ValueOf(Parts(other), name)
  PROVE  ParseQuery(raw, list) = ParseQuery(other, list)
<1> DEFINE parameters == Parameters[list]
           names == Names(list)
           Errors(parts) == [i \in DOMAIN parameters |->
                               IF Has(parts, parameters[i].name)
                                 THEN ValueError(parameters[i], ValueOf(parts, parameters[i].name))
                                 ELSE NoError]
           Value(parts, p) == IF Has(parts, p.name) THEN Meaning(p, ValueOf(parts, p.name))
                                                    ELSE Default(p)
           Of(name) == CHOOSE p \in Range(parameters) : p.name = name
           Values(parts) == [name \in names |-> Value(parts, Of(name))]
           Result(parts) == IF FirstError(Errors(parts)) # NoError
                              THEN [error |-> FirstError(Errors(parts))]
                              ELSE [error |-> NoError, values |-> Values(parts)]
<1>1. \A i \in DOMAIN parameters : parameters[i].name \in names
  BY DEF Names, Range
<1>2. \A name \in names : Of(name).name = name
  <2> TAKE name \in names
  <2>1. \E p \in Range(parameters) : p.name = name
    BY DEF Names
  <2>2. QED
    BY <2>1, Zenon
<1>3. ParseQuery(raw, list) = Result(Parts(raw)) /\ ParseQuery(other, list) = Result(Parts(other))
  <2>1. ASSUME NEW text, QueryError(Parts(text), {<<name>> : name \in names}) = NoError
        PROVE  ParseQuery(text, list) = Result(Parts(text))
    <3>1. ParseQuery(text, list) = IF QueryError(Parts(text), {<<name>> : name \in names}) # NoError
            THEN [error |-> QueryError(Parts(text), {<<name>> : name \in names})]
            ELSE Result(Parts(text))
      BY Zenon DEF ParseQuery, Names
    <3> HIDE DEF Result
    <3>2. QED
      BY <2>1, <3>1
  <2> HIDE DEF Result
  <2>2. QED
    BY <2>1
<1> HIDE DEF parameters, Of, names
<1>4. Errors(Parts(raw)) = Errors(Parts(other))
  BY <1>1 DEF names
<1>5. Values(Parts(raw)) = Values(Parts(other))
  <2>1. \A name \in names : Value(Parts(raw), Of(name)) = Value(Parts(other), Of(name))
    BY <1>2 DEF names
  <2> HIDE DEF Value
  <2>2. QED
    BY <2>1
<1> HIDE DEF Errors, Values
<1>6. Result(Parts(raw)) = Result(Parts(other))
  BY <1>4, <1>5
<1> HIDE DEF Result
<1>7. QED
  BY <1>3, <1>6
-----------------------------------------------------------------------------
(* The parameters *)

AllNames == {"id", "parentId", "objectId", "deviceId", "state", "includeChildren",
             "includeDisabled", "limit", "offset"}
KindOf(name) ==
  CASE name \in {"id", "parentId", "objectId", "deviceId"} -> "text" [] name = "state" -> "state"
    [] name \in {"includeChildren", "includeDisabled"} -> "bool"
    [] name = "limit" -> "limit" [] name = "offset" -> "offset"

ListNames ==
  [list \in Lists |->
     CASE list = "objects" -> <<"id", "parentId", "includeChildren", "limit", "offset">>
       [] list = "tree" -> <<"id", "parentId">>
       [] list = "devices" -> <<"id", "objectId", "state", "includeDisabled", "limit", "offset">>
       [] list = "tags" -> <<"id", "objectId", "deviceId", "includeDisabled", "limit", "offset">>]

Parameter(name) == [name |-> name, kind |-> KindOf(name)]

(* The parameters of a list, by their names.                               *)
LEMMA ParameterFacts ==
  ASSUME NEW list \in Lists
  PROVE  LET parameters == Parameters[list]
             n == Len(ListNames[list])
         IN  /\ n \in Nat /\ DOMAIN parameters = 1..n
             /\ Len(parameters) = n
             /\ \A i \in 1..n : parameters[i] = Parameter(ListNames[list][i])
<1>1. CASE list = "objects"
  <2>1. Parameters[list] = ObjectParameters
    BY <1>1 DEF Parameters
  <2>2. ListNames[list] = <<"id", "parentId", "includeChildren", "limit", "offset">>
    BY <1>1 DEF ListNames, Lists
  <2>3. QED
    BY <2>1, <2>2 DEF ObjectParameters, Parameter, KindOf
<1>2. CASE list = "tree"
  <2>1. Parameters[list] = SubSeq(ObjectParameters, 1, 2)
    BY <1>2 DEF Parameters, TreeParameters
  <2>2. /\ Len(Parameters[list]) = 2 /\ DOMAIN Parameters[list] = 1..2
        /\ \A i \in 1..2 : Parameters[list][i] = ObjectParameters[i]
    <3>1. /\ ObjectParameters \in Seq({Parameter(name) : name \in AllNames})
          /\ Len(ObjectParameters) = 5
      BY DEF ObjectParameters, Parameter, KindOf, AllNames
    <3>2. PICK all \in Seq({Parameter(name) : name \in AllNames}) : all = ObjectParameters
      BY <3>1, Zenon
    <3>3. QED
      BY <2>1, <3>1, <3>2
  <2>3. ListNames[list] = <<"id", "parentId">>
    BY <1>2 DEF ListNames, Lists
  <2>4. ObjectParameters[1] = Parameter("id") /\ ObjectParameters[2] = Parameter("parentId")
    BY DEF ObjectParameters, Parameter, KindOf
  <2>5. QED
    BY <2>2, <2>3, <2>4
<1>3. CASE list = "devices"
  <2>1. Parameters[list] = DeviceParameters
    BY <1>3 DEF Parameters
  <2>2. ListNames[list] = <<"id", "objectId", "state", "includeDisabled", "limit", "offset">>
    BY <1>3 DEF ListNames, Lists
  <2>3. QED
    BY <2>1, <2>2 DEF DeviceParameters, Parameter, KindOf
<1>4. CASE list = "tags"
  <2>1. Parameters[list] = TagParameters
    BY <1>4 DEF Parameters
  <2>2. ListNames[list] = <<"id", "objectId", "deviceId", "includeDisabled", "limit", "offset">>
    BY <1>4 DEF ListNames, Lists
  <2>3. QED
    BY <2>1, <2>2 DEF TagParameters, Parameter, KindOf
<1>5. QED
  BY <1>1, <1>2, <1>3, <1>4 DEF Lists

(* No parameter comes twice in a list.                                     *)
LEMMA ListNamesFacts ==
  ASSUME NEW list \in Lists
  PROVE  LET names == ListNames[list]
         IN  /\ Len(names) \in Nat /\ DOMAIN names = 1..Len(names)
             /\ \A i \in 1..Len(names) : names[i] \in AllNames
             /\ \A i, j \in 1..Len(names) : names[i] = names[j] => i = j
<1>1. CASE list = "objects"
  <2>1. ListNames[list] = <<"id", "parentId", "includeChildren", "limit", "offset">>
    BY <1>1 DEF ListNames, Lists
  <2>2. QED
    BY <2>1 DEF AllNames
<1>2. CASE list = "tree"
  <2>1. ListNames[list] = <<"id", "parentId">>
    BY <1>2 DEF ListNames, Lists
  <2>2. QED
    BY <2>1 DEF AllNames
<1>3. CASE list = "devices"
  <2>1. ListNames[list] = <<"id", "objectId", "state", "includeDisabled", "limit", "offset">>
    BY <1>3 DEF ListNames, Lists
  <2>2. QED
    BY <2>1 DEF AllNames
<1>4. CASE list = "tags"
  <2>1. ListNames[list] = <<"id", "objectId", "deviceId", "includeDisabled", "limit", "offset">>
    BY <1>4 DEF ListNames, Lists
  <2>2. QED
    BY <2>1 DEF AllNames
<1>5. QED
  BY <1>1, <1>2, <1>3, <1>4 DEF Lists

(* The names of a list as a set.                                           *)
LEMMA NamesFacts ==
  ASSUME NEW list \in Lists
  PROVE  LET n == Len(ListNames[list])
         IN  /\ Names(list) = {ListNames[list][i] : i \in 1..n}
             /\ Names(list) \subseteq AllNames
             /\ Range(Parameters[list]) = {Parameter(name) : name \in Names(list)}
<1> DEFINE names == ListNames[list]
           n == Len(names)
<1>1. /\ DOMAIN Parameters[list] = 1..n
      /\ \A i \in 1..n : Parameters[list][i] = Parameter(names[i])
  BY ParameterFacts
<1>2. \A i \in 1..n : names[i] \in AllNames
  BY ListNamesFacts
<1> HIDE DEF n, names
<1>3. Range(Parameters[list]) = {Parameter(names[i]) : i \in 1..n}
  BY <1>1 DEF Range
<1>4. \A name : Parameter(name).name = name
  BY DEF Parameter
<1>5. Names(list) = {names[i] : i \in 1..n}
  BY <1>3, <1>4 DEF Names
<1>6. Range(Parameters[list]) = {Parameter(name) : name \in Names(list)}
  BY <1>3, <1>5
<1>7. QED
  BY <1>2, <1>5, <1>6 DEF n, names

-----------------------------------------------------------------------------
(* The order of the parameters *)

(* A map of a finite set onto itself leaves no two together.               *)
LEMMA OntoIsOneToOne ==
  ASSUME NEW n \in Nat, NEW p \in [1..n -> 1..n], Range(p) = 1..n
  PROVE  \A i, j \in 1..n : p[i] = p[j] => i = j
<1>1. p \in Surjection(1..n, 1..n)
  BY DEF Range, Surjection
<1>2. IsFiniteSet(1..n)
  BY FS_Interval
<1>3. p \in Injection(1..n, 1..n)
  BY <1>1, <1>2, FS_SurjSameCardinalityImpliesInj
<1>4. QED
  BY <1>3 DEF Injection, IsInjective

Reorders(p, parts, other) ==
  LET n == Len(parts)
  IN  /\ Len(other) = n /\ \A i \in 1..n : p[i] \in 1..n /\ other[i] = parts[p[i]]
      /\ \A i, j \in 1..n : p[i] = p[j] => i = j
      /\ \A j \in 1..n : \E i \in 1..n : p[i] = j

(* A taken query is taken in any order, and has the same values.           *)
LEMMA ReorderedIsTaken ==
  ASSUME NEW S, NEW parts \in Seq(S), NEW names, Taken(parts, names),
         NEW other \in Seq(S), NEW p, Reorders(p, parts, other)
  PROVE  /\ Taken(other, names)
         /\ \A name : /\ Has(parts, name) <=> Has(other, name)
                      /\ Has(parts, name) => ValueOf(parts, name) = ValueOf(other, name)
<1> DEFINE n == Len(parts)
<1>1. n \in Nat /\ DOMAIN parts = 1..n /\ \A i \in 1..n : parts[i] \in S
  OBVIOUS
<1>2. Len(other) = n /\ DOMAIN other = 1..n
  BY DEF Reorders
<1>3. \A i \in 1..n : p[i] \in 1..n /\ other[i] = parts[p[i]]
  BY Zenon DEF Reorders
<1>4. \A i, j \in 1..n : p[i] = p[j] => i = j
  BY Zenon DEF Reorders
<1>5. \A j \in 1..n : \E i \in 1..n : p[i] = j
  BY Zenon DEF Reorders
<1> HIDE DEF n
<1>6. Taken(other, names)
  <2>1. /\ \A k \in 1..n : /\ parts[k] # <<>> /\ Decodable(parts[k])
                           /\ NameOf(parts[k]) \in {<<name>> : name \in names}
        /\ \A k, l \in 1..n : NameOf(parts[k]) = NameOf(parts[l]) => k = l
    BY Zenon DEF Taken, n
  <2>2. ASSUME NEW i \in 1..n
        PROVE  /\ other[i] # <<>> /\ Decodable(other[i])
               /\ NameOf(other[i]) \in {<<name>> : name \in names}
    <3>1. PICK k \in 1..n : other[i] = parts[k]
      BY <1>3
    <3>2. QED
      BY <2>1, <3>1
  <2>3. ASSUME NEW i \in 1..n, NEW j \in 1..n, NameOf(other[i]) = NameOf(other[j])
        PROVE  i = j
    <3>1. p[i] = p[j]
      <4>1. PICK k \in 1..n, l \in 1..n : k = p[i] /\ l = p[j]
        BY <1>3
      <4>2. NameOf(parts[k]) = NameOf(parts[l])
        BY <1>3, <2>3, <4>1, Zenon
      <4>3. QED
        BY <2>1, <4>1, <4>2
    <3>2. QED
      BY <1>4, <3>1
  <2>4. QED
    BY <1>2, <2>2, <2>3 DEF Taken
<1>7. ASSUME NEW name
      PROVE  /\ Has(parts, name) <=> Has(other, name)
             /\ Has(parts, name) => ValueOf(parts, name) = ValueOf(other, name)
  <2>1. Has(parts, name) <=> \E i \in 1..n : NameOf(parts[i]) = <<name>>
    BY <1>1 DEF Has, Range
  <2>2. Has(other, name) <=> \E i \in 1..n : NameOf(other[i]) = <<name>>
    BY <1>2 DEF Has, Range
  <2>3. Has(parts, name) <=> Has(other, name)
    <3>1. ASSUME NEW j \in 1..n, NameOf(parts[j]) = <<name>> PROVE Has(other, name)
      <4>1. PICK i \in 1..n : p[i] = j
        BY <1>5
      <4>2. QED
        BY <1>3, <2>2, <3>1, <4>1
    <3>2. QED
      BY <1>3, <2>1, <2>2, <3>1
  <2>4. ASSUME Has(parts, name) PROVE ValueOf(parts, name) = ValueOf(other, name)
    <3>1. PICK i \in 1..n : NameOf(other[i]) = <<name>>
      BY <2>2, <2>3, <2>4
    <3>2. ValueOf(other, name) = Decoded(RawValue(other[i]))
      BY <1>2, <1>6, <3>1, ValueFacts
    <3>3. ValueOf(parts, name) = Decoded(RawValue(parts[p[i]]))
      <4>1. p[i] \in 1..Len(parts) /\ NameOf(parts[p[i]]) = <<name>>
        BY <1>3, <3>1 DEF n
      <4>2. QED
        BY <4>1, ValueFacts
    <3>4. QED
      BY <1>3, <3>2, <3>3
  <2>5. QED
    BY <2>3, <2>4
<1>8. QED
  BY <1>6, <1>7

(* In any order, the same parts are read the same.                         *)
LEMMA OrderLemma ==
  ASSUME NEW S, "&" \in S, NEW raw \in Seq(S), NEW list \in Lists,
         ParseQuery(raw, list).error = NoError,
         NEW p \in [DOMAIN Parts(raw) -> DOMAIN Parts(raw)], Range(p) = DOMAIN Parts(raw)
  PROVE  ParseQuery(Joined([i \in DOMAIN Parts(raw) |-> Parts(raw)[p[i]]]), list)
           = ParseQuery(raw, list)
<1> DEFINE parts == Parts(raw)
           other == [i \in DOMAIN parts |-> parts[p[i]]]
           names == Names(list)
<1>1. QueryError(parts, {<<name>> : name \in names}) = NoError
  <2> DEFINE error == QueryError(parts, {<<name>> : name \in names})
  <2>1. error # NoError => ParseQuery(raw, list) = [error |-> error]
    BY Zenon DEF ParseQuery, Names
  <2> HIDE DEF error
  <2>2. QED
    BY <2>1 DEF error
<1>2. parts = <<>> \/ (parts \in Splits(S) /\ Clean(parts))
  BY PartsAreClean
<1>3. parts \in Seq(Seq(S)) /\ Len(parts) \in Nat /\ DOMAIN parts = 1..Len(parts)
  BY <1>2 DEF Splits
<1> HIDE DEF parts, names
<1>4. Taken(parts, names)
  BY <1>1, <1>3, QueryErrorFacts
<1>5. p \in [1..Len(parts) -> 1..Len(parts)] /\ Range(p) = 1..Len(parts)
  BY <1>3 DEF parts
<1>6. other \in Seq(Seq(S)) /\ Len(other) = Len(parts)
  BY <1>3, <1>5
<1>7. \A i \in 1..Len(parts) : other[i] = parts[p[i]] /\ p[i] \in 1..Len(parts)
  BY <1>3, <1>5
<1> HIDE DEF other
<1>8. /\ Taken(other, names)
       /\ \A name : /\ Has(parts, name) <=> Has(other, name)
                    /\ Has(parts, name) => ValueOf(parts, name) = ValueOf(other, name)
  <2> DEFINE T == Seq(S)
  <2>1. parts \in Seq(T) /\ other \in Seq(T)
    BY <1>3, <1>6
  <2>2. \A i, j \in 1..Len(parts) : p[i] = p[j] => i = j
    BY <1>3, <1>5, OntoIsOneToOne
  <2>3. \A j \in 1..Len(parts) : \E i \in 1..Len(parts) : p[i] = j
    BY <1>5 DEF Range
  <2>4. Reorders(p, parts, other)
    BY <1>6, <1>7, <2>2, <2>3 DEF Reorders
  <2> HIDE DEF T
  <2>5. QED
    BY <1>4, <2>1, <2>4, ReorderedIsTaken
<1>9. other = <<>> \/ (other \in Splits(S) /\ Clean(other))
  <2>1. CASE parts = <<>>
    BY <1>6, <2>1
  <2>2. CASE parts \in Splits(S) /\ Clean(parts)
    <3>1. Len(parts) # 0
      BY <1>3, <2>2 DEF Splits
    <3>2. other \in Splits(S)
      BY <1>3, <1>6, <3>1 DEF Splits
    <3>3. Clean(other)
      BY <1>6, <1>7, <2>2 DEF Clean
    <3>4. QED
      BY <3>2, <3>3
  <2>3. QED
    BY <1>2, <2>1, <2>2
<1>10. other # <<>> => other[1] # <<>> /\ Head(other[1]) # "?"
  <2> SUFFICES ASSUME other # <<>> PROVE other[1] # <<>> /\ Head(other[1]) # "?"
    OBVIOUS
  <2>1. 1 \in 1..Len(other) /\ other[1] \in Seq(S)
    BY <1>6
  <2>2. PICK name \in names : NameOf(other[1]) = <<name>>
    BY <1>6, <1>8, <2>1 DEF Taken
  <2>3. name # "?"
    BY NamesFacts DEF names, AllNames
  <2>4. QED
    BY <2>1, <2>2, <2>3, NoMarkFirst
<1>11. Parts(Joined(other)) = other
  BY <1>9, <1>10, PartsOfJoined
<1>12. QueryError(other, {<<name>> : name \in names}) = NoError
  BY <1>6, <1>8, QueryErrorFacts
<1>13. ParseQuery(Joined(other), list) = ParseQuery(raw, list)
  BY <1>1, <1>8, <1>11, <1>12, ParseAgrees DEF names, parts
<1>14. QED
  BY <1>13 DEF other, parts
-----------------------------------------------------------------------------
(* What the frontend sends *)

Letters == STRING \cup {EscapedCharacter(c) : c \in STRING} \cup {"=", "&"} \cup AllNames

PairOf(asked, name) == <<name, "=">> \o EscapeDataString(asked[name])

(* An escaped character is neither a separator nor a bare "%", and is read *)
(* back.                                                                   *)
LEMMA EscapedFacts ==
  ASSUME NEW c
  PROVE  /\ EscapedCharacter(c) \notin {"&", "%"}
         /\ c \notin DOMAIN Escapes => DecodedCharacter(EscapedCharacter(c)) = c
<1> DEFINE tokens == {"%26", "%3D", "%3F", "%2B", "%20", "%25", "%69d"}
           special == {Escapes[token] : token \in DOMAIN Escapes \ {"%69d"}}
           chosen == CHOOSE token \in DOMAIN Escapes : Escapes[token] = c
<1>1. DOMAIN Escapes = tokens
  BY DEF Escapes
<1>2. /\ Escapes["%26"] = "&" /\ Escapes["%25"] = "%" /\ Escapes["%2B"] = "+"
  BY DEF Escapes
<1>3. "&" \in special /\ "%" \in special /\ "+" \in special
  BY <1>1, <1>2
<1>4. EscapedCharacter(c) = IF c \in special THEN chosen ELSE c
  BY Zenon DEF EscapedCharacter
<1>5. CASE c \in special
  <2>1. chosen \in tokens /\ Escapes[chosen] = c
    BY <1>1, <1>5
  <2>2. EscapedCharacter(c) = chosen
    BY <1>4, <1>5
  <2> HIDE DEF chosen, special
  <2>3. DecodedCharacter(chosen) = c
    BY <1>1, <2>1 DEF DecodedCharacter
  <2>4. QED
    BY <2>1, <2>2, <2>3
<1>6. CASE c \notin special
  <2> HIDE DEF special
  <2>1. EscapedCharacter(c) = c /\ c # "&" /\ c # "%" /\ c # "+"
    BY <1>3, <1>4, <1>6
  <2>2. QED
    BY <2>1 DEF DecodedCharacter
<1>7. QED
  BY <1>5, <1>6

(* The text of a pair.                                                     *)
LEMMA PairType ==
  ASSUME NEW asked, NEW name \in AllNames, NEW text \in Seq(STRING), asked[name] = text
  PROVE  LET pair == PairOf(asked, name)
         IN  /\ pair \in Seq(Letters) /\ Len(pair) = Len(text) + 2
             /\ pair[1] = name /\ pair[2] = "="
             /\ \A i \in 1..Len(text) : pair[i + 2] = EscapedCharacter(text[i])
<1> DEFINE value == EscapeDataString(text)
<1>1. /\ DOMAIN text = 1..Len(text) /\ Len(text) \in Nat
      /\ \A i \in 1..Len(text) : text[i] \in STRING
  OBVIOUS
<1>2. value = [i \in 1..Len(text) |-> EscapedCharacter(text[i])]
  BY <1>1, Zenon DEF EscapeDataString
<1>3. \A i \in 1..Len(text) : EscapedCharacter(text[i]) \in Letters
  BY <1>1, Zenon DEF Letters
<1>4. value \in Seq(Letters) /\ Len(value) = Len(text)
  BY <1>1, <1>2, <1>3
<1>5. \A i \in 1..Len(text) : value[i] = EscapedCharacter(text[i])
  BY <1>2, Zenon
<1>6. name \in Letters /\ "=" \in Letters
  BY DEF Letters
<1>7. PICK v \in Seq(Letters) : v = value
  BY <1>4, Zenon
<1>8. <<name, "=">> \o v \in Seq(Letters)
  BY <1>6
<1>9. PICK p \in Seq(Letters) : p = <<name, "=">> \o v
  BY <1>8, Zenon
<1>10. p[1] = name /\ p[2] = "=" /\ Len(p) = Len(v) + 2 /\ \A i \in 1..Len(v) : p[i + 2] = v[i]
  BY <1>6, <1>9
<1>11. PairOf(asked, name) = p
  BY <1>7, <1>9 DEF PairOf
<1> HIDE DEF value
<1>12. QED
  BY <1>4, <1>5, <1>7, <1>10, <1>11

(* A pair is one part, whose name and value are read back.                 *)
LEMMA PairFacts ==
  ASSUME NEW asked, NEW name \in AllNames, NEW text \in Seq(STRING), asked[name] = text,
         Range(text) \cap DOMAIN Escapes = {}
  PROVE  LET pair == PairOf(asked, name)
         IN  /\ pair # <<>> /\ "&" \notin Range(pair) /\ Decodable(pair)
             /\ NameOf(pair) = <<name>> /\ Decoded(RawValue(pair)) = text
<1>1. PICK pair \in Seq(Letters) : pair = PairOf(asked, name)
  BY PairType, Zenon
<1>2. /\ Len(pair) = Len(text) + 2 /\ pair[1] = name /\ pair[2] = "="
      /\ \A i \in 1..Len(text) : pair[i + 2] = EscapedCharacter(text[i])
  BY <1>1, PairType
<1>3. Len(text) \in Nat /\ DOMAIN text = 1..Len(text) /\ DOMAIN pair = 1..(Len(text) + 2)
  BY <1>2
<1>4. \A i \in 1..(Len(text) + 2) : pair[i] \notin {"&", "%"}
  <2> TAKE i \in 1..(Len(text) + 2)
  <2>1. CASE i = 1
    BY <1>2, <2>1 DEF AllNames
  <2>2. CASE i = 2
    BY <1>2, <2>2
  <2>3. CASE i > 2
    <3>1. PICK k \in 1..Len(text) : i = k + 2
      <4>1. i - 2 \in 1..Len(text) /\ i = (i - 2) + 2
        BY <1>3, <2>3
      <4>2. QED
        BY <4>1
    <3>2. QED
      BY <1>2, <3>1, EscapedFacts
  <2>4. QED
    BY <1>3, <2>1, <2>2, <2>3
<1>5. "&" \notin Range(pair) /\ Decodable(pair)
  BY <1>3, <1>4 DEF Range, Decodable
<1>6. NameEnd(pair) = 2
  <2>1. /\ NameEnd(pair) \in 1..(Len(pair) + 1)
        /\ NameEnd(pair) = Len(pair) + 1 \/ pair[NameEnd(pair)] = "="
        /\ \A j \in 1..(NameEnd(pair) - 1) : pair[j] # "="
    BY NameEndFacts
  <2>2. name # "="
    BY DEF AllNames
  <2>3. NameEnd(pair) # 1
    BY <1>2, <1>3, <2>1, <2>2
  <2>4. ~(NameEnd(pair) > 2)
    BY <1>2, <2>1
  <2>5. QED
    BY <1>2, <1>3, <2>1, <2>3, <2>4
<1>7. NameOf(pair) = <<name>>
  <2>1. RawName(pair) = SubSeq(pair, 1, 1)
    BY <1>6 DEF RawName
  <2>2. SubSeq(pair, 1, 1) = [i \in 1..1 |-> name]
    BY <1>2, <1>3
  <2>3. DecodedCharacter(name) = name
    BY DEF DecodedCharacter, Escapes, AllNames
  <2>4. NameOf(pair) = [i \in 1..1 |-> name]
    BY <2>1, <2>2, <2>3 DEF NameOf, Decoded
  <2>5. <<name>> = [i \in 1..1 |-> name]
    OBVIOUS
  <2>6. QED
    BY <2>4, <2>5
<1>8. Decoded(RawValue(pair)) = text
  <2>1. RawValue(pair) = SubSeq(pair, 3, Len(text) + 2)
    BY <1>2, <1>6 DEF RawValue
  <2>2. SubSeq(pair, 3, Len(text) + 2) = [i \in 1..Len(text) |-> EscapedCharacter(text[i])]
    <3>1. SubSeq(pair, 3, Len(text) + 2) = [i \in 1..Len(text) |-> pair[i + 2]]
      BY <1>2, <1>3
    <3>2. QED
      BY <1>2, <3>1
  <2>3. \A i \in 1..Len(text) : DecodedCharacter(EscapedCharacter(text[i])) = text[i]
    <3> TAKE i \in 1..Len(text)
    <3>1. text[i] \notin DOMAIN Escapes
      BY <1>3 DEF Range
    <3>2. QED
      BY <3>1, EscapedFacts
  <2>4. Decoded(RawValue(pair)) = [i \in 1..Len(text) |-> text[i]]
    BY <2>1, <2>2, <2>3 DEF Decoded
  <2>5. text = [i \in 1..Len(text) |-> text[i]]
    OBVIOUS
  <2>6. QED
    BY <2>4, <2>5
<1>9. pair # <<>>
  BY <1>2, <1>3
<1>10. QED
  BY <1>1, <1>5, <1>7, <1>8, <1>9
IsAsk(list, asked) ==
  /\ list \in Lists /\ DOMAIN asked \subseteq Names(list)
  /\ \A name \in DOMAIN asked : Askable(Parameter(name), asked[name])

(* One pair for each of the names.                                         *)
PairsOf(pairs, asked, names) ==
  /\ pairs \in Seq(Seq(Letters))
  /\ \A k \in 1..Len(pairs) : \E name \in names : pairs[k] = PairOf(asked, name)
  /\ \A name \in names : \E k \in 1..Len(pairs) : pairs[k] = PairOf(asked, name)
  /\ \A k, l \in 1..Len(pairs) : pairs[k] = pairs[l] => k = l

(* The builder adds the pair of the next parameter.                        *)
LEMMA OneMorePair ==
  ASSUME NEW asked, NEW names, NEW pairs, PairsOf(pairs, asked, names), NEW name,
         PairOf(asked, name) \in Seq(Letters),
         \A other \in names : PairOf(asked, other) # PairOf(asked, name)
  PROVE  PairsOf(Append(pairs, PairOf(asked, name)), asked, names \cup {name})
<1> DEFINE T == Seq(Letters)
           new == PairOf(asked, name)
<1>1. pairs \in Seq(T) /\ new \in T
  BY DEF PairsOf
<1> HIDE DEF T
<1>2. PICK more \in Seq(T) : more = Append(pairs, new)
  <2> HIDE DEF new
  <2>1. Append(pairs, new) \in Seq(T)
    BY <1>1
  <2>2. QED
    BY <2>1, Zenon
<1> DEFINE n == Len(pairs)
<1>3. /\ n \in Nat /\ Len(more) = n + 1 /\ more[n + 1] = new
      /\ \A k \in 1..n : more[k] = pairs[k]
  <2> HIDE DEF new
  <2>1. QED
    BY <1>1, <1>2
<1>4. /\ \A k \in 1..n : \E other \in names : pairs[k] = PairOf(asked, other)
      /\ \A other \in names : \E k \in 1..n : pairs[k] = PairOf(asked, other)
      /\ \A k, l \in 1..n : pairs[k] = pairs[l] => k = l
  BY Zenon DEF PairsOf
<1> HIDE DEF n
<1>5. \A k \in 1..(n + 1) : k = n + 1 \/ k \in 1..n
  BY <1>3
<1>6. 1..n \subseteq 1..(n + 1) /\ n + 1 \in 1..(n + 1)
  BY <1>3
<1>7. ASSUME NEW k \in 1..(n + 1)
      PROVE  \E other \in names \cup {name} : more[k] = PairOf(asked, other)
  BY <1>3, <1>4, <1>5
<1>8. ASSUME NEW other \in names \cup {name}
      PROVE  \E k \in 1..(n + 1) : more[k] = PairOf(asked, other)
  <2>1. CASE other = name
    BY <1>3, <1>6, <2>1
  <2>2. CASE other \in names
    BY <1>3, <1>4, <1>6, <2>2
  <2>3. QED
    BY <2>1, <2>2
<1>9. \A k \in 1..n : more[k] # new
  BY <1>3, <1>4
<1>10. ASSUME NEW k \in 1..(n + 1), NEW l \in 1..(n + 1), more[k] = more[l]
       PROVE  k = l
  <2>1. CASE k \in 1..n /\ l \in 1..n
    BY <1>3, <1>4, <1>10, <2>1
  <2>2. CASE k = n + 1 \/ l = n + 1
    BY <1>3, <1>5, <1>9, <1>10, <2>2
  <2>3. QED
    BY <1>5, <2>1, <2>2
<1>11. PairsOf(more, asked, names \cup {name})
  <2> HIDE DEF new
  <2>1. more \in Seq(Seq(Letters)) /\ Len(more) = n + 1
    BY <1>3 DEF T
  <2>2. QED
    BY <1>7, <1>8, <1>10, <2>1 DEF PairsOf
<1>12. QED
  BY <1>2, <1>11

(* What is asked can be made a pair.                                       *)
LEMMA AskedPairs ==
  ASSUME NEW list, NEW asked, IsAsk(list, asked), NEW name \in DOMAIN asked
  PROVE  /\ name \in AllNames /\ asked[name] \in Seq(STRING)
         /\ Range(asked[name]) \cap DOMAIN Escapes = {}
         /\ PairOf(asked, name) \in Seq(Letters) /\ PairOf(asked, name)[1] = name
<1>1. name \in AllNames
  BY NamesFacts DEF IsAsk
<1>2. asked[name] \in Seq(STRING) /\ Range(asked[name]) \cap DOMAIN Escapes = {}
  BY DEF IsAsk, Askable
<1>3. QED
  BY <1>1, <1>2, PairType

(* The query of the frontend is its pairs, one for each parameter asked.   *)
LEMMA BuiltPairs ==
  ASSUME NEW list, NEW asked, IsAsk(list, asked)
  PROVE  \E pairs : PairsOf(pairs, asked, DOMAIN asked) /\ BuildQuery(list, asked) = Joined(pairs)
<1> DEFINE parameters == Parameters[list]
           names == ListNames[list]
           size == Len(parameters)
           T == Seq(Seq(Letters))
           start == <<>>
           grown(t, i) == IF parameters[i].name \in DOMAIN asked
                            THEN Append(t, PairOf(asked, parameters[i].name)) ELSE t
           step == [n \in Nat |-> [t \in T |-> IF n \in 1..size THEN grown(t, n) ELSE t]]
           Solves(f) == f = [i \in 0..size |-> IF i = 0 THEN start ELSE grown(f[i - 1], i)]
           pairs == CHOOSE f : Solves(f)
           first(i) == {names[j] : j \in 1..i} \cap DOMAIN asked
<1>1. list \in Lists
  BY DEF IsAsk
<1>2. /\ size \in Nat /\ start \in T
      /\ \A i \in 1..size : parameters[i].name = names[i]
      /\ \A i, j \in 1..size : names[i] = names[j] => i = j
      /\ Names(list) = {names[j] : j \in 1..size}
  <2>1. /\ size = Len(names) /\ Len(names) \in Nat
        /\ \A i \in 1..Len(names) : parameters[i] = Parameter(names[i])
    BY <1>1, ParameterFacts
  <2>2. \A i, j \in 1..Len(names) : names[i] = names[j] => i = j
    BY <1>1, ListNamesFacts
  <2>3. Names(list) = {names[j] : j \in 1..Len(names)}
    BY <1>1, NamesFacts
  <2>4. start \in T
    OBVIOUS
  <2> HIDE DEF parameters, names, size, T, start
  <2>5. \A i \in 1..size : parameters[i].name = names[i]
    <3>1. \A name : Parameter(name).name = name
      BY DEF Parameter
    <3> HIDE DEF grown, step, first
    <3>2. QED
      BY <2>1, <3>1
  <2>6. QED
    BY <2>1, <2>2, <2>3, <2>4, <2>5
<1> HIDE DEF parameters, names, size, T, start
<1>3. \A i \in 1..size, t \in T : grown(t, i) \in T
  <2> TAKE i \in 1..size, t \in T
  <2>1. CASE parameters[i].name \in DOMAIN asked
    <3>1. PairOf(asked, parameters[i].name) \in Seq(Letters)
      BY <2>1, AskedPairs
    <3> DEFINE pair == PairOf(asked, parameters[i].name)
    <3> HIDE DEF pair
    <3>2. Append(t, pair) \in T
      <4>1. pair \in Seq(Letters)
        BY <3>1 DEF pair
      <4>2. QED
        BY <4>1 DEF T
    <3>3. QED
      BY <2>1, <3>2 DEF pair
  <2>2. QED
    BY <2>1
<1>4. step \in [Nat -> [T -> T]]
  <2> HIDE DEF grown
  <2>1. QED
    BY <1>3
<1>5. PICK f : StatesOf(f, T, start, step, size)
  <2> HIDE DEF step
  <2>1. QED
    BY <1>2, <1>4, LoopHasStates
<1>6. \A n \in 1..size : n \in Nat /\ n \in 0..size /\ n - 1 \in 0..size /\ n # 0
  BY <1>2
<1>7. \A n \in 1..size : step[n][f[n - 1]] = grown(f[n - 1], n)
  <2> TAKE n \in 1..size
  <2>1. f[n - 1] \in T
    BY <1>5, <1>6 DEF StatesOf
  <2> HIDE DEF grown
  <2>2. QED
    BY <1>6, <2>1
<1>8. Solves(f)
  <2>1. \A n \in 0..size : n # 0 => n \in 1..size
    BY <1>2
  <2>2. f = [n \in 0..size |-> f[n]]
    BY <1>5 DEF StatesOf
  <2> HIDE DEF step, grown
  <2>3. \A n \in 0..size : f[n] = IF n = 0 THEN start ELSE grown(f[n - 1], n)
    BY <1>5, <1>7, <2>1, Zenon DEF StatesOf
  <2>4. QED
    BY <2>2, <2>3
<1>9. Solves(pairs)
  BY <1>8, Zenon
<1>10. BuildQuery(list, asked) = Joined(pairs[size])
  BY Zenon DEF BuildQuery, PairOf, size, start, grown, parameters
<1> HIDE DEF pairs
<1>11. pairs[0] = start /\ \A n \in 1..size : pairs[n] = grown(pairs[n - 1], n)
  <2>1. 0 \in 0..size
    BY <1>2
  <2> HIDE DEF grown
  <2>2. QED
    BY <1>6, <1>9, <2>1, Zenon
<1> DEFINE Done == {n \in Nat : n <= size => PairsOf(pairs[n], asked, first(n))}
<1>12. 0 \in Done
  <2>1. first(0) = {}
    OBVIOUS
  <2>2. PairsOf(start, asked, {})
    BY <1>2 DEF PairsOf, start, T
  <2>3. QED
    BY <1>11, <2>1, <2>2
<1>13. ASSUME NEW n \in Nat, n \in Done PROVE n + 1 \in Done
  <2> SUFFICES ASSUME n + 1 <= size PROVE PairsOf(pairs[n + 1], asked, first(n + 1))
    OBVIOUS
  <2> DEFINE name == names[n + 1]
  <2>1. n + 1 \in 1..size /\ (n + 1) - 1 = n /\ PairsOf(pairs[n], asked, first(n))
    BY <1>2, <1>13
  <2>2. pairs[n + 1] = IF name \in DOMAIN asked
                         THEN Append(pairs[n], PairOf(asked, name)) ELSE pairs[n]
    BY <1>2, <1>11, <2>1
  <2>3. 1..(n + 1) = 1..n \cup {n + 1}
    OBVIOUS
  <2>4. {names[j] : j \in 1..(n + 1)} = {names[j] : j \in 1..n} \cup {name}
    BY <2>3
  <2> HIDE DEF name
  <2>5. CASE name \notin DOMAIN asked
    <3>1. first(n + 1) = first(n)
      BY <2>4, <2>5
    <3>2. QED
      BY <2>1, <2>2, <2>5, <3>1
  <2>6. CASE name \in DOMAIN asked
    <3>1. first(n + 1) = first(n) \cup {name}
      BY <2>4, <2>6
    <3>2. PairOf(asked, name) \in Seq(Letters) /\ PairOf(asked, name)[1] = name
      BY <2>6, AskedPairs
    <3>3. \A other \in first(n) : other # name /\ PairOf(asked, other)[1] = other
      <4> TAKE other \in first(n)
      <4>1. PICK j \in 1..n : other = names[j]
        OBVIOUS
      <4>2. j \in 1..size /\ j # n + 1
        BY <1>2, <2>1
      <4>3. other # name
        BY <1>2, <2>1, <4>1, <4>2 DEF name
      <4>4. other \in DOMAIN asked
        OBVIOUS
      <4>5. QED
        BY <4>3, <4>4, AskedPairs
    <3> HIDE DEF first
    <3>4. \A other \in first(n) : PairOf(asked, other) # PairOf(asked, name)
      BY <3>2, <3>3
    <3>5. PairsOf(Append(pairs[n], PairOf(asked, name)), asked, first(n) \cup {name})
      BY <2>1, <3>2, <3>4, OneMorePair
    <3>6. QED
      BY <2>2, <2>6, <3>1, <3>5
  <2>7. QED
    BY <2>5, <2>6
<1>14. Nat \subseteq Done
  <2> HIDE DEF Done
  <2>1. QED
    BY <1>12, <1>13, SetInduction
<1>15. PairsOf(pairs[size], asked, first(size))
  <2>1. size \in Done /\ size <= size
    <3> HIDE DEF Done
    <3>1. QED
      BY <1>2, <1>14
  <2> HIDE DEF first
  <2>2. QED
    BY <2>1
<1>16. first(size) = DOMAIN asked
  BY <1>2 DEF IsAsk
<1>17. QED
  BY <1>10, <1>15, <1>16

(* The asks of the frontend are asks.                                      *)
LEMMA AsksAre ==
  ASSUME NEW a \in Asks
  PROVE  IsAsk(a.list, a.asked)
<1>1. /\ a.list \in Lists /\ DOMAIN a.asked \subseteq Names(a.list)
      /\ \A p \in Range(Parameters[a.list]) :
           p.name \in DOMAIN a.asked => Askable(p, a.asked[p.name])
  BY AskAssumption, Zenon DEF Names
<1>2. \A name \in DOMAIN a.asked : Parameter(name) \in Range(Parameters[a.list])
  BY <1>1, NamesFacts
<1>3. \A name : Parameter(name).name = name
  BY DEF Parameter
<1>4. QED
  BY <1>1, <1>2, <1>3 DEF IsAsk

(* The query of a request is a text.                                       *)
LEMMA QueryIsText ==
  ASSUME IInv, phase # "idle"
  PROVE  \E S : "&" \in S /\ request.query \in Seq(S)
<1>1. CASE request \in RawRequests
  <2>1. request.query \in Seq(STRING)
    BY <1>1, RequestAssumption DEF Request
  <2>2. PICK text : text = request.query
    OBVIOUS
  <2>3. text \in Seq(STRING \cup {"&"})
    BY <2>1, <2>2
  <2>4. QED
    BY <2>2, <2>3
<1>2. CASE ask \in Asks /\ request = FrontendRequest(ask)
  <2>1. request.query = BuildQuery(ask.list, ask.asked)
    BY <1>2 DEF FrontendRequest
  <2>2. PICK pairs : /\ PairsOf(pairs, ask.asked, DOMAIN ask.asked)
                     /\ BuildQuery(ask.list, ask.asked) = Joined(pairs)
    BY <1>2, AsksAre, BuiltPairs
  <2>3. "&" \in Letters /\ pairs \in Seq(Seq(Letters)) /\ Len(pairs) \in 0..Len(pairs)
    BY <2>2 DEF Letters, PairsOf
  <2>4. PICK f : JoinIs(f, Letters, pairs) /\ Joined(pairs) = f[Len(pairs)]
    BY <2>3, JoinHasStates
  <2>5. Joined(pairs) \in Seq(Letters)
    BY <2>3, <2>4 DEF JoinIs
  <2>6. QED
    BY <2>1, <2>2, <2>3, <2>5
<1>3. QED
  BY <1>1, <1>2 DEF IInv, RequestInv

(* A query that is accepted says the same in every order.                  *)
THEOREM OrderTheorem == Spec => []OrderDoesNotMatter
<1>1. IInv => OrderDoesNotMatter
  <2> DEFINE list == CHOOSE l \in Lists : Path[l] = request.path
             parts == Parts(request.query)
             Reordered(p) == Joined([i \in DOMAIN parts |-> parts[p[i]]])
             result == ParseQuery(request.query, list)
  <2> SUFFICES ASSUME IInv, phase = "received", request.path \in {Path[l] : l \in Lists},
                      result.error = NoError,
                      NEW p \in [DOMAIN parts -> DOMAIN parts], Range(p) = DOMAIN parts
               PROVE  ParseQuery(Reordered(p), list) = result
    BY Zenon DEF OrderDoesNotMatter
  <2>1. list \in Lists
    BY Zenon
  <2>2. PICK S : "&" \in S /\ request.query \in Seq(S)
    BY QueryIsText
  <2> HIDE DEF list
  <2>3. QED
    BY <2>1, <2>2, OrderLemma
<1>2. QED
  BY <1>1, Safety, PTL
-----------------------------------------------------------------------------
(* What the server reads of what the frontend sends *)

(* The server reads the parameters that were asked, with the texts they    *)
(* were given.                                                             *)
LEMMA BuiltReads ==
  ASSUME NEW list, NEW asked, IsAsk(list, asked)
  PROVE  LET parts == Parts(BuildQuery(list, asked))
         IN  /\ parts \in Seq(Seq(Letters)) /\ Taken(parts, Names(list))
             /\ \A name : Has(parts, name) <=> name \in DOMAIN asked
             /\ \A name \in DOMAIN asked : ValueOf(parts, name) = asked[name]
<1>1. PICK pairs : PairsOf(pairs, asked, DOMAIN asked) /\ BuildQuery(list, asked) = Joined(pairs)
  BY BuiltPairs
<1>2. \A name \in DOMAIN asked :
        LET pair == PairOf(asked, name)
        IN  /\ pair # <<>> /\ "&" \notin Range(pair) /\ Decodable(pair)
            /\ NameOf(pair) = <<name>> /\ Decoded(RawValue(pair)) = asked[name]
            /\ Head(pair) = name /\ name # "?" /\ name \in Names(list)
  <2> TAKE name \in DOMAIN asked
  <2>1. /\ name \in AllNames /\ asked[name] \in Seq(STRING)
        /\ Range(asked[name]) \cap DOMAIN Escapes = {}
        /\ PairOf(asked, name) \in Seq(Letters) /\ PairOf(asked, name)[1] = name
    BY AskedPairs
  <2>2. name # "?" /\ name \in Names(list)
    BY <2>1 DEF AllNames, IsAsk
  <2>3. LET pair == PairOf(asked, name)
        IN  /\ pair # <<>> /\ "&" \notin Range(pair) /\ Decodable(pair)
            /\ NameOf(pair) = <<name>> /\ Decoded(RawValue(pair)) = asked[name]
    BY <2>1, PairFacts
  <2>4. Head(PairOf(asked, name)) = name
    BY <2>1, <2>3
  <2>5. QED
    BY <2>2, <2>3, <2>4
<1>3. /\ pairs \in Seq(Seq(Letters)) /\ Len(pairs) \in Nat /\ DOMAIN pairs = 1..Len(pairs)
      /\ \A k \in 1..Len(pairs) : \E name \in DOMAIN asked : pairs[k] = PairOf(asked, name)
      /\ \A name \in DOMAIN asked : \E k \in 1..Len(pairs) : pairs[k] = PairOf(asked, name)
      /\ \A k, l \in 1..Len(pairs) : pairs[k] = pairs[l] => k = l
  <2>1. pairs \in Seq(Seq(Letters))
    BY <1>1 DEF PairsOf
  <2>2. Len(pairs) \in Nat /\ DOMAIN pairs = 1..Len(pairs)
    BY <2>1
  <2>3. QED
    BY <1>1, <2>1, <2>2, Zenon DEF PairsOf
<1>4. \A k \in 1..Len(pairs) :
        /\ pairs[k] # <<>> /\ "&" \notin Range(pairs[k]) /\ Decodable(pairs[k])
        /\ Head(pairs[k]) # "?"
        /\ \E name \in DOMAIN asked : NameOf(pairs[k]) = <<name>> /\ pairs[k] = PairOf(asked, name)
  <2> TAKE k \in 1..Len(pairs)
  <2>1. PICK name \in DOMAIN asked : pairs[k] = PairOf(asked, name)
    BY <1>3
  <2> DEFINE pair == PairOf(asked, name)
  <2>2. /\ pair # <<>> /\ "&" \notin Range(pair) /\ Decodable(pair)
        /\ NameOf(pair) = <<name>> /\ Head(pair) = name /\ name # "?"
    BY <1>2
  <2> HIDE DEF pair
  <2>3. pairs[k] = pair
    BY <2>1 DEF pair
  <2>4. Head(pairs[k]) # "?"
    BY <2>2, <2>3
  <2>5. QED
    BY <2>1, <2>2, <2>3, <2>4, Zenon
<1>5. Taken(pairs, Names(list))
  <2>1. \A k \in 1..Len(pairs) : NameOf(pairs[k]) \in {<<name>> : name \in Names(list)}
    BY <1>2, <1>4, Zenon
  <2>2. ASSUME NEW k \in 1..Len(pairs), NEW l \in 1..Len(pairs),
               NameOf(pairs[k]) = NameOf(pairs[l])
        PROVE  k = l
    <3>1. PICK name \in DOMAIN asked : NameOf(pairs[k]) = <<name>> /\ pairs[k] = PairOf(asked, name)
      BY <1>4
    <3>2. PICK other \in DOMAIN asked :
            NameOf(pairs[l]) = <<other>> /\ pairs[l] = PairOf(asked, other)
      BY <1>4
    <3>3. <<name>> = <<other>>
      BY <2>2, <3>1, <3>2, Zenon
    <3>4. name = other
      BY <3>3
    <3>5. QED
      BY <1>3, <3>1, <3>2, <3>4
  <2>3. QED
    BY <1>4, <2>1, <2>2 DEF Taken
<1>6. Parts(BuildQuery(list, asked)) = pairs
  <2>1. pairs = <<>> \/ (pairs \in Splits(Letters) /\ Clean(pairs))
    BY <1>3, <1>4 DEF Splits, Clean
  <2>2. pairs # <<>> => pairs[1] # <<>> /\ Head(pairs[1]) # "?"
    <3> SUFFICES ASSUME pairs # <<>> PROVE 1 \in 1..Len(pairs)
      BY <1>4
    <3>1. QED
      BY <1>3
  <2>3. "&" \in Letters
    BY DEF Letters
  <2>4. QED
    BY <1>1, <2>1, <2>2, <2>3, PartsOfJoined
<1>7. ASSUME NEW name PROVE Has(pairs, name) <=> name \in DOMAIN asked
  <2>1. Has(pairs, name) <=> \E k \in 1..Len(pairs) : NameOf(pairs[k]) = <<name>>
    BY <1>3 DEF Has, Range
  <2>2. ASSUME NEW k \in 1..Len(pairs), NameOf(pairs[k]) = <<name>> PROVE name \in DOMAIN asked
    <3>1. PICK other \in DOMAIN asked : NameOf(pairs[k]) = <<other>>
      BY <1>4
    <3>2. QED
      BY <2>2, <3>1
  <2>3. QED
    BY <1>2, <1>3, <2>1, <2>2
<1>8. ASSUME NEW name \in DOMAIN asked PROVE ValueOf(pairs, name) = asked[name]
  <2>1. PICK k \in 1..Len(pairs) : pairs[k] = PairOf(asked, name)
    BY <1>3
  <2>2. NameOf(pairs[k]) = <<name>> /\ Decoded(RawValue(pairs[k])) = asked[name]
    BY <1>2, <2>1
  <2>3. ValueOf(pairs, name) = Decoded(RawValue(pairs[k]))
    <3> DEFINE T == Seq(Letters)
    <3>1. pairs \in Seq(T)
      BY <1>3
    <3> HIDE DEF T
    <3>2. QED
      BY <1>5, <2>2, <3>1, ValueFacts
  <2>4. QED
    BY <2>2, <2>3
<1>9. QED
  BY <1>3, <1>5, <1>6, <1>7, <1>8

(* A value that no answer can serve.                                       *)
Refused(name, text) ==
  \/ text = <<>>
  \/ name = "state" /\ text \notin {<<s>> : s \in DeviceStates}
  \/ name \in {"limit", "offset"} /\ Head(text) = "-"
  \/ name = "limit" /\ Number(text) \notin 1..MaxLimit

(* A number that may be asked is refused when it is out of range.          *)
LEMMA NumberErrorFacts ==
  ASSUME NEW name \in {"limit", "offset"}, NEW text, Askable(Parameter(name), text)
  PROVE  LET error == NumberError(Parameter(name), text)
         IN  /\ error = NoError <=> ~Refused(name, text)
             /\ error # NoError => error.field = <<name>>
<1> DEFINE p == Parameter(name)
           error == NumberError(p, text)
<1>1. p.name = name /\ p.kind = name
  BY DEF Parameter, KindOf
<1>2. /\ text \in Seq(STRING) /\ text # <<>>
      /\ \/ Head(text) = "-"
         \/ Range(text) \subseteq Range(Digits) /\ Number(text) \in 0..UInt32Max
  BY <1>1 DEF Askable
<1>3. Head(text) \in Range(text)
  <2>1. Len(text) >= 1 /\ DOMAIN text = 1..Len(text) /\ Head(text) = text[1]
    BY <1>2
  <2>2. QED
    BY <2>1 DEF Range
<1>4. "-" \notin Range(Digits)
  BY DEF Digits, Range
<1>5. \A reason \in Reasons :
        Error(<<name>>, reason) # NoError /\ Error(<<name>>, reason).field = <<name>>
  BY ErrorFacts
<1>6. {"invalid_integer", "must_be_positive", "exceeds_maximum"} \subseteq Reasons
  BY DEF Reasons
<1>7. name # "state"
  OBVIOUS
<1> HIDE DEF p, error
<1>8. CASE Head(text) = "-"
  <2>1. ~IsUInt32(text)
    BY <1>3, <1>4, <1>8 DEF IsUInt32
  <2>2. error = Error(<<name>>, "invalid_integer")
    BY <1>1, <2>1 DEF NumberError, error
  <2>3. Refused(name, text)
    BY <1>8 DEF Refused
  <2>4. QED
    BY <1>5, <1>6, <2>2, <2>3 DEF error, p
<1>9. CASE Head(text) # "-"
  <2>1. IsUInt32(text) /\ Number(text) \in 0..UInt32Max
    BY <1>2, <1>9, LimitAssumption DEF IsUInt32
  <2>2. Refused(name, text) <=> name = "limit" /\ Number(text) \notin 1..MaxLimit
    BY <1>2, <1>7, <1>9 DEF Refused
  <2>3. CASE name = "offset"
    <3>1. error = NoError
      BY <1>1, <2>1, <2>3 DEF NumberError, error
    <3>2. QED
      BY <2>2, <2>3, <3>1 DEF error, p
  <2>4. CASE name = "limit"
    <3>1. error = CASE Number(text) = 0 -> Error(<<name>>, "must_be_positive")
                    [] Number(text) > MaxLimit -> Error(<<name>>, "exceeds_maximum")
                    [] Number(text) \in 1..MaxLimit -> NoError
      BY <1>1, <2>1, <2>4 DEF NumberError, error
    <3>2. Number(text) \in Nat /\ MaxLimit \in Nat
      BY <2>1, LimitAssumption
    <3>3. CASE Number(text) = 0
      <4>1. error = Error(<<name>>, "must_be_positive") /\ Number(text) \notin 1..MaxLimit
        BY <3>1, <3>2, <3>3
      <4>2. QED
        BY <1>5, <1>6, <2>2, <2>4, <4>1 DEF error, p
    <3>4. CASE Number(text) > MaxLimit
      <4>1. error = Error(<<name>>, "exceeds_maximum") /\ Number(text) \notin 1..MaxLimit
        BY <3>1, <3>2, <3>4
      <4>2. QED
        BY <1>5, <1>6, <2>2, <2>4, <4>1 DEF error, p
    <3>5. CASE Number(text) \in 1..MaxLimit
      <4>1. error = NoError
        BY <3>1, <3>2, <3>5
      <4>2. QED
        BY <2>2, <3>5, <4>1 DEF error, p
    <3>6. QED
      BY <3>2, <3>3, <3>4, <3>5
  <2>5. QED
    BY <2>3, <2>4
<1>10. QED
  BY <1>8, <1>9

(* A value that may be asked has an error exactly when no answer can serve *)
(* it.                                                                     *)
LEMMA ValueErrorFacts ==
  ASSUME NEW name \in AllNames, NEW text, Askable(Parameter(name), text)
  PROVE  LET error == ValueError(Parameter(name), text)
         IN  /\ error = NoError <=> ~Refused(name, text)
             /\ error # NoError => error.field = <<name>>
<1> DEFINE p == Parameter(name)
           error == ValueError(p, text)
           Require(condition, reason) == IF condition THEN NoError ELSE Error(<<name>>, reason)
<1>1. p.name = name /\ p.kind = KindOf(name)
  BY DEF Parameter
<1>2. \A reason \in Reasons :
        Error(<<name>>, reason) # NoError /\ Error(<<name>>, reason).field = <<name>>
  BY ErrorFacts
<1>3. {"must_not_be_empty", "unsupported_value", "invalid_boolean"} \subseteq Reasons
  BY DEF Reasons
<1>4. error = CASE p.kind \in {"text", "state"} /\ text = <<>> ->
                     Require(FALSE, "must_not_be_empty")
                [] p.kind = "text" /\ text # <<>> -> NoError
                [] p.kind = "state" /\ text # <<>> ->
                     Require(text \in {<<s>> : s \in DeviceStates}, "unsupported_value")
                [] p.kind = "bool" ->
                     Require(text \in TrueTexts \cup FalseTexts, "invalid_boolean")
                [] p.kind \in {"limit", "offset"} -> NumberError(p, text)
  BY <1>1 DEF ValueError
<1> HIDE DEF error, p
<1>5. CASE name \in {"id", "parentId", "objectId", "deviceId"}
  <2>1. p.kind = "text"
    BY <1>1, <1>5 DEF KindOf
  <2>2. error = Require(text # <<>>, "must_not_be_empty")
    BY <1>4, <2>1
  <2>3. Refused(name, text) <=> text = <<>>
    BY <1>5 DEF Refused
  <2>4. QED
    BY <1>2, <1>3, <2>2, <2>3 DEF error, p
<1>6. CASE name = "state"
  <2>1. p.kind = "state"
    BY <1>1, <1>6 DEF KindOf
  <2>2. CASE text = <<>>
    <3>1. error = Error(<<name>>, "must_not_be_empty") /\ Refused(name, text)
      BY <1>4, <2>1, <2>2 DEF Refused
    <3>2. QED
      BY <1>2, <1>3, <3>1 DEF error, p
  <2>3. CASE text # <<>>
    <3> DEFINE known == text \in {<<s>> : s \in DeviceStates}
    <3>1. Refused(name, text) <=> ~known
      BY <1>6, <2>3 DEF Refused
    <3> HIDE DEF known
    <3>2. error = Require(known, "unsupported_value")
      BY <1>4, <2>1, <2>3 DEF known
    <3>3. QED
      BY <1>2, <1>3, <3>1, <3>2 DEF error, p
  <2>4. QED
    BY <2>2, <2>3
<1>7. CASE name \in {"includeChildren", "includeDisabled"}
  <2>1. p.kind = "bool"
    BY <1>1, <1>7 DEF KindOf
  <2>2. text \in {<<"true">>, <<"false">>}
    BY <2>1, Zenon DEF Askable, p
  <2>3. text # <<>> /\ text \in TrueTexts \cup FalseTexts
    BY <2>2 DEF TrueTexts, FalseTexts
  <2>4. error = NoError
    BY <1>4, <2>1, <2>3
  <2>5. ~Refused(name, text)
    BY <1>7, <2>3 DEF Refused
  <2>6. QED
    BY <2>4, <2>5 DEF error, p
<1>8. CASE name \in {"limit", "offset"}
  <2>1. p.kind = name
    BY <1>1, <1>8 DEF KindOf
  <2>2. error = NumberError(p, text)
    BY <1>4, <1>8, <2>1
  <2>3. QED
    BY <1>8, <2>2, NumberErrorFacts DEF error, p
<1>9. QED
  BY <1>5, <1>6, <1>7, <1>8 DEF AllNames

(* What an ask means: AskedValues for any ask.                             *)
Meant(list, asked) ==
  [name \in Names(list) |->
     LET p == CHOOSE x \in Range(Parameters[list]) : x.name = name
     IN IF name \in DOMAIN asked THEN Meaning(p, asked[name]) ELSE Default(p)]

(* A name has one parameter.                                               *)
LEMMA ParameterOfName ==
  ASSUME NEW list \in Lists, NEW name \in Names(list)
  PROVE  (CHOOSE p \in Range(Parameters[list]) : p.name = name) = Parameter(name)
<1>1. Range(Parameters[list]) = {Parameter(n) : n \in Names(list)}
  BY NamesFacts
<1>2. \A n : Parameter(n).name = n
  BY DEF Parameter
<1>3. QED
  BY <1>1, <1>2

(* The server parses what was asked: it refuses it at a parameter that no  *)
(* answer can serve, or takes it to mean what it says.                     *)
LEMMA BuiltParses ==
  ASSUME NEW list, NEW asked, IsAsk(list, asked)
  PROVE  LET parsed == ParseQuery(BuildQuery(list, asked), list)
             refused == {name \in DOMAIN asked : Refused(name, asked[name])}
         IN  /\ refused # {} => parsed.error # NoError /\ Head(parsed.error.field) \in refused
             /\ refused = {} => parsed.error = NoError /\ parsed.values = Meant(list, asked)
<1> DEFINE raw == BuildQuery(list, asked)
           parts == Parts(raw)
           parameters == Parameters[list]
           names == Names(list)
           n == Len(ListNames[list])
           refused == {name \in DOMAIN asked : Refused(name, asked[name])}
           errors == [i \in DOMAIN parameters |->
                        IF Has(parts, parameters[i].name)
                          THEN ValueError(parameters[i], ValueOf(parts, parameters[i].name))
                          ELSE NoError]
           Value(p) == IF Has(parts, p.name) THEN Meaning(p, ValueOf(parts, p.name))
                                             ELSE Default(p)
           values == [name \in names |->
                        Value(CHOOSE p \in Range(parameters) : p.name = name)]
           parsed == ParseQuery(raw, list)
<1>1. list \in Lists /\ DOMAIN asked \subseteq names
  BY DEF IsAsk
<1>2. /\ QueryError(parts, {<<name>> : name \in names}) = NoError
      /\ \A name : Has(parts, name) <=> name \in DOMAIN asked
      /\ \A name \in DOMAIN asked : ValueOf(parts, name) = asked[name]
  <2>1. /\ parts \in Seq(Seq(Letters)) /\ Taken(parts, names)
        /\ \A name : Has(parts, name) <=> name \in DOMAIN asked
        /\ \A name \in DOMAIN asked : ValueOf(parts, name) = asked[name]
    BY BuiltReads
  <2> HIDE DEF parts, names
  <2>2. QueryError(parts, {<<name>> : name \in names}) = NoError
    BY <2>1, QueryErrorFacts
  <2>3. QED
    BY <2>1, <2>2
<1>3. /\ n \in Nat /\ DOMAIN parameters = 1..n
      /\ \A i \in 1..n : parameters[i] = Parameter(ListNames[list][i])
      /\ names = {ListNames[list][i] : i \in 1..n}
      /\ names \subseteq AllNames
  BY <1>1, ParameterFacts, NamesFacts
<1>4. \A name \in DOMAIN asked :
        LET error == ValueError(Parameter(name), asked[name])
        IN  /\ error = NoError <=> name \notin refused
            /\ error # NoError => error.field = <<name>>
  <2> TAKE name \in DOMAIN asked
  <2>1. name \in AllNames /\ Askable(Parameter(name), asked[name])
    BY <1>1, <1>3 DEF IsAsk
  <2>2. QED
    BY <2>1, ValueErrorFacts
<1>5. parsed = IF FirstError(errors) # NoError THEN [error |-> FirstError(errors)]
               ELSE [error |-> NoError, values |-> values]
  <2>1. parsed = IF QueryError(parts, {<<name>> : name \in names}) # NoError
                   THEN [error |-> QueryError(parts, {<<name>> : name \in names})]
                   ELSE IF FirstError(errors) # NoError THEN [error |-> FirstError(errors)]
                   ELSE [error |-> NoError, values |-> values]
    BY Zenon DEF ParseQuery, Names
  <2> HIDE DEF parts, names, errors, values, parsed
  <2>2. QED
    BY <1>2, <2>1
<1>6. \A p : Parameter(p).name = p
  BY DEF Parameter
<1> DEFINE name(i) == ListNames[list][i]
<1>7. /\ DOMAIN errors = 1..n
      /\ \A i \in 1..n : errors[i] = IF name(i) \in DOMAIN asked
                                       THEN ValueError(Parameter(name(i)), asked[name(i)])
                                       ELSE NoError
  <2> HIDE DEF parts, n, parameters
  <2>1. DOMAIN errors = 1..n
    BY <1>3
  <2>2. ASSUME NEW i \in 1..n
        PROVE  errors[i] = IF name(i) \in DOMAIN asked
                             THEN ValueError(Parameter(name(i)), asked[name(i)]) ELSE NoError
    <3>1. parameters[i] = Parameter(name(i)) /\ parameters[i].name = name(i)
      BY <1>3, <1>6
    <3>2. errors[i] = IF Has(parts, name(i))
                        THEN ValueError(parameters[i], ValueOf(parts, name(i))) ELSE NoError
      BY <1>3, <3>1
    <3> HIDE DEF errors, name
    <3>3. QED
      BY <1>2, <3>1, <3>2
  <2>3. QED
    BY <2>1, <2>2
<1>8. values = Meant(list, asked)
  <2> DEFINE Of(x) == CHOOSE p \in Range(parameters) : p.name = x
             meaning(x) == IF x \in DOMAIN asked THEN Meaning(Of(x), asked[x]) ELSE Default(Of(x))
  <2>1. Meant(list, asked) = [x \in names |-> meaning(x)]
    BY Zenon DEF Meant
  <2>2. ASSUME NEW x \in names PROVE Value(Of(x)) = meaning(x)
    <3>1. Of(x) = Parameter(x)
      BY <1>1, ParameterOfName
    <3> HIDE DEF parts, Of
    <3>2. Of(x).name = x
      BY <1>6, <3>1
    <3>3. QED
      BY <1>2, <3>2
  <2>3. values = [x \in names |-> Value(Of(x))]
    BY Zenon
  <2> HIDE DEF Value, meaning, values, names
  <2>4. QED
    BY <2>1, <2>2, <2>3
<1> HIDE DEF errors, values, parsed, refused, names, parts, n
<1>9. CASE refused # {}
  <2>1. PICK x \in DOMAIN asked : x \in refused
    BY <1>9 DEF refused
  <2>2. PICK i \in 1..n : name(i) = x
    BY <1>1, <1>3
  <2>3. errors[i] # NoError
    BY <1>4, <1>7, <2>1, <2>2
  <2>4. PICK k \in 1..n : errors[k] # NoError /\ FirstError(errors) = errors[k]
    BY <1>3, <1>7, <2>3, FirstErrorFacts
  <2>5. name(k) \in DOMAIN asked /\ errors[k] = ValueError(Parameter(name(k)), asked[name(k)])
    BY <1>7, <2>4
  <2>6. name(k) \in refused /\ errors[k].field = <<name(k)>>
    BY <1>4, <2>4, <2>5
  <2>7. parsed = [error |-> errors[k]]
    BY <1>5, <2>4
  <2>8. parsed.error = errors[k]
    BY <2>7
  <2>9. Head(parsed.error.field) = name(k)
    <3> HIDE DEF name
    <3>1. Head(<<name(k)>>) = name(k)
      OBVIOUS
    <3>2. QED
      BY <2>6, <2>8, <3>1
  <2>10. QED
    BY <1>9, <2>4, <2>6, <2>8, <2>9 DEF parsed, raw, refused
<1>10. CASE refused = {}
  <2>1. \A i \in 1..n : errors[i] = NoError
    BY <1>4, <1>7, <1>10
  <2>2. FirstError(errors) = NoError
    BY <1>3, <1>7, <2>1, FirstErrorFacts
  <2>3. parsed = [error |-> NoError, values |-> values]
    BY <1>5, <2>2
  <2>4. parsed.error = NoError /\ parsed.values = values
    BY <2>3
  <2>5. QED
    BY <1>8, <1>10, <2>4 DEF parsed, raw, refused
<1>11. QED
  BY <1>9, <1>10
-----------------------------------------------------------------------------
(* What is asked is a query of the service. *)

(* An id that is read is a number.                                         *)
LEMMA IdOfFacts ==
  ASSUME NEW text
  PROVE  IdOf(text) \in Nat
<1>1. Reads!Absent \in Nat /\ Unknown \in Nat
  BY DEF Reads!Absent, Unknown
<1>2. (\E id \in DOMAIN IdText : IdText[id] = text) =>
        (CHOOSE id \in DOMAIN IdText : IdText[id] = text) \in DOMAIN IdText
  BY Zenon
<1>3. DOMAIN IdText \subseteq Nat
  BY IdTextAssumption
<1>4. QED
  BY <1>1, <1>2, <1>3 DEF IdOf

(* The values of an ask that can be served.                                *)
LEMMA MeantFacts ==
  ASSUME NEW list, NEW asked, IsAsk(list, asked),
         \A name \in DOMAIN asked : ~Refused(name, asked[name])
  PROVE  LET values == Meant(list, asked)
         IN  /\ DOMAIN values = Names(list)
             /\ "state" \in Names(list) => values["state"] \in DeviceStates \cup {NoText}
             /\ \A name \in {"includeChildren", "includeDisabled"} \cap Names(list) :
                  values[name] \in BOOLEAN
             /\ "limit" \in Names(list) => values["limit"] \in 1..MaxLimit
             /\ "offset" \in Names(list) => values["offset"] \in Nat
<1> DEFINE values == Meant(list, asked)
           p(name) == Parameter(name)
<1>1. list \in Lists /\ DOMAIN asked \subseteq Names(list)
  BY DEF IsAsk
<1>2. /\ DOMAIN values = Names(list)
      /\ \A name \in Names(list) :
           values[name] = IF name \in DOMAIN asked THEN Meaning(p(name), asked[name])
                                                   ELSE Default(p(name))
  <2> DEFINE Of(name) == CHOOSE x \in Range(Parameters[list]) : x.name = name
  <2>1. values = [name \in Names(list) |->
                    IF name \in DOMAIN asked THEN Meaning(Of(name), asked[name])
                                             ELSE Default(Of(name))]
    BY Zenon DEF Meant
  <2>2. \A name \in Names(list) : Of(name) = p(name)
    BY <1>1, ParameterOfName
  <2> HIDE DEF Of, values, p
  <2>3. QED
    BY <2>1, <2>2
<1> HIDE DEF values
<1>3. ASSUME "state" \in Names(list) PROVE values["state"] \in DeviceStates \cup {NoText}
  <2>1. p("state").kind = "state"
    BY DEF Parameter, KindOf
  <2> HIDE DEF p
  <2>2. CASE "state" \notin DOMAIN asked
    <3>1. values["state"] = Default(p("state"))
      BY <1>2, <1>3, <2>2
    <3>2. Default(p("state")) = NoText
      <4>1. "state" # "text"
        OBVIOUS
      <4>2. QED
        BY <2>1, <4>1, Zenon DEF Default, NoText
    <3>3. QED
      BY <3>1, <3>2, Zenon
  <2>3. CASE "state" \in DOMAIN asked
    <3>1. asked["state"] \in {<<s>> : s \in DeviceStates}
      BY <2>3 DEF Refused
    <3>2. PICK s \in DeviceStates : asked["state"] = <<s>>
      BY <3>1
    <3>3. values["state"] = Head(asked["state"])
      <4>1. values["state"] = Meaning(p("state"), asked["state"])
        BY <1>2, <1>3, <2>3
      <4>2. Meaning(p("state"), asked["state"]) = Head(asked["state"])
        BY <2>1 DEF Meaning
      <4>3. QED
        BY <4>1, <4>2
    <3>4. Head(<<s>>) = s
      OBVIOUS
    <3>5. QED
      BY <3>2, <3>3, <3>4
  <2>4. QED
    BY <2>2, <2>3
<1>4. ASSUME NEW name \in {"includeChildren", "includeDisabled"}, name \in Names(list)
      PROVE  values[name] \in BOOLEAN
  <2>1. p(name).kind = "bool"
    BY DEF Parameter, KindOf
  <2> HIDE DEF p
  <2>2. Meaning(p(name), asked[name]) \in BOOLEAN
    BY <2>1 DEF Meaning
  <2>3. Default(p(name)) = FALSE
    BY <2>1, Zenon DEF Default
  <2>4. QED
    BY <1>2, <1>4, <2>2, <2>3
<1>5. ASSUME "limit" \in Names(list) PROVE values["limit"] \in 1..MaxLimit
  <2>1. p("limit").kind = "limit"
    BY DEF Parameter, KindOf
  <2> HIDE DEF p
  <2>2. Meaning(p("limit"), asked["limit"]) = Number(asked["limit"])
    BY <2>1 DEF Meaning
  <2>3. Default(p("limit")) = DefaultLimit
    <3>1. "limit" # "text" /\ "limit" # "state" /\ "limit" # "bool"
      OBVIOUS
    <3>2. QED
      BY <2>1, <3>1, Zenon DEF Default
  <2>4. "limit" \in DOMAIN asked => Number(asked["limit"]) \in 1..MaxLimit
    BY DEF Refused
  <2>5. DefaultLimit \in 1..MaxLimit
    BY LimitAssumption
  <2>6. QED
    BY <1>2, <1>5, <2>2, <2>3, <2>4, <2>5
<1>6. ASSUME "offset" \in Names(list) PROVE values["offset"] \in Nat
  <2>1. p("offset").kind = "offset" /\ p("offset").name = "offset"
    BY DEF Parameter, KindOf
  <2> HIDE DEF p
  <2>2. Meaning(p("offset"), asked["offset"]) = Number(asked["offset"])
    BY <2>1 DEF Meaning
  <2>3. Default(p("offset")) = 0
    <3>1. "offset" # "text" /\ "offset" # "state" /\ "offset" # "bool" /\ "offset" # "limit"
      OBVIOUS
    <3>2. QED
      BY <2>1, <3>1, Zenon DEF Default
  <2>4. "offset" \in DOMAIN asked => Number(asked["offset"]) \in 0..UInt32Max
    <3> SUFFICES ASSUME "offset" \in DOMAIN asked PROVE Number(asked["offset"]) \in 0..UInt32Max
      OBVIOUS
    <3>1. Askable(p("offset"), asked["offset"])
      BY DEF IsAsk, p
    <3>2. Head(asked["offset"]) # "-"
      BY DEF Refused
    <3>3. QED
      BY <2>1, <3>1, <3>2 DEF Askable
  <2>5. 0..UInt32Max \subseteq Nat
    BY LimitAssumption
  <2>6. QED
    BY <1>2, <1>6, <2>2, <2>3, <2>4, <2>5
<1>7. QED
  BY <1>2, <1>3, <1>4, <1>5, <1>6 DEF values

(* They make a query of the service, whose limit needs no normalisation.   *)
LEMMA ReadQueryFacts ==
  ASSUME NEW list \in {"objects", "devices", "tags"}, NEW asked, IsAsk(list, asked),
         \A name \in DOMAIN asked : ~Refused(name, asked[name])
  PROVE  LET values == Meant(list, asked)
             q == ReadQuery(list, values)
         IN  /\ q \in Service!Query /\ q.list = list
             /\ q.limit = values["limit"] /\ values["limit"] \in 1..MaxLimit
             /\ values["offset"] \in Nat
<1> DEFINE values == Meant(list, asked)
           q == ReadQuery(list, values)
           Given(name, default) == IF name \in DOMAIN values THEN values[name] ELSE default
<1>1. "limit" \in Names(list) /\ "offset" \in Names(list)
  <2>1. list \in Lists
    BY DEF Lists
  <2>2. Names(list) = {ListNames[list][i] : i \in 1..Len(ListNames[list])}
    BY <2>1, NamesFacts
  <2>3. CASE list = "objects"
    <3>1. ListNames[list] = <<"id", "parentId", "includeChildren", "limit", "offset">>
      BY <2>3 DEF ListNames, Lists
    <3>2. Len(ListNames[list]) = 5 /\ ListNames[list][4] = "limit" /\ ListNames[list][5] = "offset"
      BY <3>1
    <3>3. 4 \in 1..5 /\ 5 \in 1..5
      OBVIOUS
    <3>4. QED
      BY <2>2, <3>2, <3>3
  <2>4. CASE list = "devices"
    <3>1. ListNames[list] = <<"id", "objectId", "state", "includeDisabled", "limit", "offset">>
      BY <2>4 DEF ListNames, Lists
    <3>2. Len(ListNames[list]) = 6 /\ ListNames[list][5] = "limit" /\ ListNames[list][6] = "offset"
      BY <3>1
    <3>3. 5 \in 1..6 /\ 6 \in 1..6
      OBVIOUS
    <3>4. QED
      BY <2>2, <3>2, <3>3
  <2>5. CASE list = "tags"
    <3>1. ListNames[list] = <<"id", "objectId", "deviceId", "includeDisabled", "limit", "offset">>
      BY <2>5 DEF ListNames, Lists
    <3>2. Len(ListNames[list]) = 6 /\ ListNames[list][5] = "limit" /\ ListNames[list][6] = "offset"
      BY <3>1
    <3>3. 5 \in 1..6 /\ 6 \in 1..6
      OBVIOUS
    <3>4. QED
      BY <2>2, <3>2, <3>3
  <2>6. QED
    BY <2>3, <2>4, <2>5
<1>2. /\ DOMAIN values = Names(list)
      /\ "state" \in Names(list) => values["state"] \in DeviceStates \cup {NoText}
      /\ \A name \in {"includeChildren", "includeDisabled"} \cap Names(list) :
           values[name] \in BOOLEAN
      /\ values["limit"] \in 1..MaxLimit /\ values["offset"] \in Nat
  BY <1>1, MeantFacts
<1> HIDE DEF values
<1>3. q = [list |-> list, id |-> IdOf(Given("id", Absent)),
           parent_id |-> IdOf(Given("parentId", Absent)),
           object_id |-> IdOf(Given("objectId", Absent)),
           device_id |-> IdOf(Given("deviceId", Absent)),
           state |-> Given("state", NoText), include_children |-> Given("includeChildren", FALSE),
           include_disabled |-> Given("includeDisabled", FALSE),
           limit |-> Given("limit", DefaultLimit)]
  BY Zenon DEF ReadQuery
<1>4. /\ Given("state", NoText) \in DeviceStates \cup {NoText}
      /\ Given("includeChildren", FALSE) \in BOOLEAN /\ Given("includeDisabled", FALSE) \in BOOLEAN
      /\ Given("limit", DefaultLimit) = values["limit"]
  <2>1. Given("state", NoText) \in DeviceStates \cup {NoText}
    BY <1>2
  <2>2. Given("includeChildren", FALSE) \in BOOLEAN
    BY <1>2
  <2>3. Given("includeDisabled", FALSE) \in BOOLEAN
    BY <1>2
  <2>4. QED
    BY <1>1, <1>2, <2>1, <2>2, <2>3
<1>5. DeviceStates \cup {NoText} = Service!DeviceStates \cup {Service!AnyState}
  <2>1. NoText = Service!AnyState
    BY Zenon DEF NoText, Service!AnyState
  <2>2. DeviceStates = Service!DeviceStates
    BY Zenon DEF DeviceStates, Service!DeviceStates
  <2>3. QED
    BY <2>1, <2>2
<1> HIDE DEF q, Given
<1>6. MaxLimit \in Nat /\ \A text : IdOf(text) \in Nat
  BY IdOfFacts, LimitAssumption
<1>7. q \in Service!Query
  <2>1. /\ Given("state", NoText) \in Service!DeviceStates \cup {Service!AnyState}
        /\ Given("limit", DefaultLimit) \in Nat
    BY <1>2, <1>4, <1>5, <1>6
  <2>2. /\ IdOf(Given("id", Absent)) \in Nat /\ IdOf(Given("parentId", Absent)) \in Nat
        /\ IdOf(Given("objectId", Absent)) \in Nat /\ IdOf(Given("deviceId", Absent)) \in Nat
    BY <1>6
  <2>3. QED
    BY <1>3, <1>4, <2>1, <2>2 DEF Service!Query
<1>8. q.list = list /\ q.limit = values["limit"]
  BY <1>3, <1>4
<1>9. QED
  BY <1>2, <1>7, <1>8 DEF q, values
-----------------------------------------------------------------------------
(* Reads and Service are one service. *)

(* Both select the same.                                                   *)
LEMMA SameSelect ==
  ASSUME NEW q
  PROVE  Reads!Select(Config, q) = Service!Select(Config, q)
  BY Zenon DEF
       Reads!Select, Reads!SelectObjects, Reads!WithChildren, Reads!Round, Reads!Chosen,
       Reads!ObjectMatches, Reads!DeviceMatches, Reads!TagMatches, Reads!IsHidden,
       Reads!Passes, Reads!AnyState, Reads!Absent, Reads!Range,
       Service!Select, Service!SelectObjects, Service!WithChildren, Service!Round,
       Service!Chosen, Service!ObjectMatches, Service!DeviceMatches, Service!TagMatches,
       Service!IsHidden, Service!Passes, Service!AnyState, Service!Absent, Service!Range

(* Both make the same read models.                                         *)
LEMMA SameModels ==
  ASSUME NEW list, NEW items
  PROVE  Reads!ReadModels(list, items) = Service!ReadModels(list, items)
  BY Zenon DEF
       Reads!ReadModels, Reads!ToReadModel, Reads!ObjectReadModel, Reads!DeviceReadModel,
       Reads!TagReadModel, Reads!OptionalId, Reads!Blank, Reads!Absent,
       Service!ReadModels, Service!ToReadModel, Service!ObjectReadModel,
       Service!DeviceReadModel, Service!TagReadModel, Service!OptionalId, Service!Blank,
       Service!Absent

(* Both sort alike.                                                        *)
LEMMA SameSorted ==
  ASSUME NEW items
  PROVE  Reads!Sorted(items) = Service!Sorted(items)
  BY Zenon DEF
       Reads!Sorted, Reads!Precedes, Reads!Range, Reads!Cardinality,
       Service!Sorted, Service!Precedes, Service!Range, Service!Cardinality

(* Both cut the same page.                                                 *)
LEMMA SamePaginate ==
  ASSUME NEW items, NEW from, NEW limit
  PROVE  /\ Reads!Paginate(items, from, limit) = Service!Paginate(items, from, limit)
         /\ Reads!NormalizedLimit(limit) = Service!NormalizedLimit(limit)
<1>1. Reads!NormalizedLimit(limit) = Service!NormalizedLimit(limit)
  BY Zenon DEF Reads!NormalizedLimit, Reads!Least, Service!NormalizedLimit, Service!Least
<1>2. QED
  BY <1>1, Zenon DEF Reads!Paginate, Reads!Least, Service!Paginate, Service!Least

(* Both answer the same list.                                              *)
LEMMA SameList ==
  ASSUME NEW q, NEW from
  PROVE  Reads!ReadList(Config, q, from) = Service!ReadList(Config, q, from)
  BY SameSelect, SameModels, SameSorted, SamePaginate, Zenon DEF
       Reads!ReadList, Service!ReadList

(* Both ask for the same.                                                  *)
LEMMA SameAsked ==
  ASSUME NEW q
  PROVE  Reads!Asked(q) = Service!Asked(q)
  BY Zenon DEF
       Reads!Asked, Reads!Ancestors, Reads!Chain, Reads!Find, Reads!First, Reads!Positions,
       Reads!Ids, Reads!Absent, Reads!ObjectMatches, Reads!DeviceMatches, Reads!TagMatches,
       Reads!IsHidden, Reads!Passes, Reads!AnyState, Reads!Range, Service!Range,
       Service!Asked, Service!Ancestors, Service!Chain, Service!Find, Service!First,
       Service!Positions, Service!Ids, Service!Absent, Service!ObjectMatches,
       Service!DeviceMatches, Service!TagMatches, Service!IsHidden, Service!Passes,
       Service!AnyState

(* Both show and order an item alike.                                      *)
LEMMA SameItems ==
  ASSUME NEW list, NEW x, NEW y
  PROVE  /\ Reads!ToReadModel(list, x) = Service!ToReadModel(list, x)
         /\ Reads!Precedes(y, x) = Service!Precedes(y, x)
<1>1. Reads!ToReadModel(list, x) = Service!ToReadModel(list, x)
  BY Zenon DEF
     Reads!ToReadModel, Reads!ObjectReadModel, Reads!DeviceReadModel, Reads!TagReadModel,
     Reads!OptionalId, Reads!Blank, Reads!Absent,
     Service!ToReadModel, Service!ObjectReadModel, Service!DeviceReadModel,
     Service!TagReadModel, Service!OptionalId, Service!Blank, Service!Absent
<1>2. QED
  BY <1>1, Zenon DEF Reads!Precedes, Service!Precedes

(* What is served is valid.                                                *)
LEMMA SameValid == Service!SnapshotIsValid(Config)
  BY ConfigAssumption, Zenon DEF
     Reads!Range, Service!Range, Reads!SnapshotIsValid, Reads!Unique,
     Reads!ObjectIsValid, Reads!Placed, Reads!HasCycle,
     Reads!Chain, Reads!Find, Reads!First, Reads!Positions, Reads!Ids, Reads!Absent, Reads!Blank,
     Reads!RootTypes, Reads!ChildTypes, Reads!ObjectTypes, Reads!DeviceIsValid,
     Reads!DeviceIsSound, Reads!IsAssigned, Reads!RequiresEndpoint, Reads!TagIsValid,
     Reads!TagIsSound, Reads!RequiresObject, Reads!RequiresDevice, Reads!RequiresAddress,
     Reads!SupportsExtraction, Reads!RefersTo,
     Service!SnapshotIsValid, Service!Unique, Service!ObjectIsValid, Service!Placed,
     Service!HasCycle, Service!Chain, Service!Find, Service!First, Service!Positions,
     Service!Ids, Service!Absent, Service!Blank, Service!RootTypes, Service!ChildTypes,
     Service!ObjectTypes, Service!DeviceIsValid, Service!DeviceIsSound, Service!IsAssigned,
     Service!RequiresEndpoint, Service!TagIsValid, Service!TagIsSound, Service!RequiresObject,
     Service!RequiresDevice, Service!RequiresAddress, Service!SupportsExtraction,
     Service!RefersTo

(* Both count alike.                                                       *)
LEMMA SameCounts ==
  ASSUME NEW S
  PROVE  Service!Range(S) = Range(S) /\ Service!Cardinality(S) = Cardinality(S)
<1>1. Service!Range(S) = Range(S)
  BY DEF Service!Range, Range
<1>2. Service!Cardinality(S) = Cardinality(S)
  BY Zenon DEF Service!Cardinality, Cardinality
<1>3. QED
  BY <1>1, <1>2

(* The page that the proofs about ConfigurationReads describe.             *)
LEMMA ServicePage ==
  ASSUME ReadQuery(ask.list, AskedValues) \in Service!Query, NEW from \in Nat
  PROVE  LET q == ReadQuery(ask.list, AskedValues)
             page == Service!ReadList(Config, q, from)
             asked == Service!Asked(q)
             places == from..(from + Service!NormalizedLimit(q.limit) - 1)
         IN  /\ page.items \in Seq(Service!Range(Service!Full))
             /\ page.total = Service!Cardinality(asked)
             /\ Service!Range(page.items) =
                  {Service!ToReadModel(q.list, x) :
                     x \in {y \in asked :
                              Service!Cardinality(Service!Before(asked, y)) \in places}}
             /\ Service!Unique(page.items)
<1>1. Config \in Service!Snapshot
  BY ServiceAssumptions
<1>2. QED
  BY <1>1, SameValid, ServiceAssumptions, Service!PageFacts

(* A page of the served list, in the words of ServedAsAsked.               *)
LEMMA ServedPage ==
  ASSUME ReadQuery(ask.list, AskedValues) \in Service!Query, NEW from \in Nat
  PROVE  LET q == ReadQuery(ask.list, AskedValues)
             page == Reads!ReadList(Config, q, from)
             asked == Reads!Asked(q)
             Rank(x) == Cardinality({y \in asked : Reads!Precedes(y, x)})
             places == from..(from + Reads!NormalizedLimit(q.limit) - 1)
         IN  /\ \E S : page.items \in Seq(S)
             /\ page.total = Cardinality(asked)
             /\ Range(page.items) =
                  {Reads!ToReadModel(q.list, x) : x \in {y \in asked : Rank(y) \in places}}
             /\ \A i, j \in DOMAIN page.items : page.items[i].id = page.items[j].id => i = j
             /\ asked \subseteq Range(Config[q.list])
<1> DEFINE q == ReadQuery(ask.list, AskedValues)
           page == Reads!ReadList(Config, q, from)
           asked == Reads!Asked(q)
           Rank(x) == Cardinality({y \in asked : Reads!Precedes(y, x)})
           places == from..(from + Reads!NormalizedLimit(q.limit) - 1)
           there == Service!ReadList(Config, q, from)
           theirs == Service!Asked(q)
<1>1. page = there /\ asked = theirs
  BY SameList, SameAsked
<1>2. places = from..(from + Service!NormalizedLimit(q.limit) - 1)
  BY SamePaginate
<1>3. \A x : Rank(x) = Service!Cardinality(Service!Before(theirs, x))
  <2> TAKE x
  <2>1. {y \in asked : Reads!Precedes(y, x)} = Service!Before(theirs, x)
    BY <1>1, SameItems, Zenon DEF Service!Before
  <2>2. QED
    BY <2>1, SameCounts
<1>4. /\ there.items \in Seq(Service!Range(Service!Full))
      /\ there.total = Service!Cardinality(theirs)
      /\ Service!Range(there.items) =
           {Service!ToReadModel(q.list, x) :
              x \in {y \in theirs :
                       Service!Cardinality(Service!Before(theirs, y))
                         \in from..(from + Service!NormalizedLimit(q.limit) - 1)}}
      /\ Service!Unique(there.items)
  BY ServicePage
<1>5. theirs \subseteq Service!Range(Config[q.list])
  <2>1. Config \in Service!Snapshot
    BY ServiceAssumptions
  <2>2. QED
    BY <2>1, SameValid, ServiceAssumptions, Service!SelectFacts
<1> HIDE DEF q, page, asked, Rank, places, there, theirs
<1>6. \E S : page.items \in Seq(S)
  BY <1>1, <1>4
<1>7. page.total = Cardinality(asked)
  BY <1>1, <1>4, SameCounts
<1>8. Range(page.items) =
        {Reads!ToReadModel(q.list, x) : x \in {y \in asked : Rank(y) \in places}}
  <2>1. \A x : Reads!ToReadModel(q.list, x) = Service!ToReadModel(q.list, x)
    BY SameItems
  <2>2. Range(page.items) = Service!Range(there.items)
    BY <1>1, SameCounts
  <2>3. \A y : Rank(y) \in places <=> Service!Cardinality(Service!Before(theirs, y))
                         \in from..(from + Service!NormalizedLimit(q.limit) - 1)
    BY <1>2, <1>3
  <2>4. QED
    BY <1>1, <1>4, <2>1, <2>2, <2>3, Zenon
<1>9. \A i, j \in DOMAIN page.items : page.items[i].id = page.items[j].id => i = j
  BY <1>1, <1>4, Zenon DEF Service!Unique
<1>10. asked \subseteq Range(Config[q.list])
  BY <1>1, <1>5, SameCounts
<1>11. QED
  BY <1>6, <1>7, <1>8, <1>9, <1>10, Zenon DEF q, page, asked, Rank, places

(* A read model keeps the id.                                              *)
LEMMA ModelHasId ==
  ASSUME NEW list \in {"objects", "devices", "tags"}, NEW x
  PROVE  Reads!ToReadModel(list, x).id = x.id
<1>1. CASE list = "objects"
  BY <1>1 DEF Reads!ToReadModel, Reads!ObjectReadModel
<1>2. CASE list = "devices"
  BY <1>2 DEF Reads!ToReadModel, Reads!DeviceReadModel
<1>3. CASE list = "tags"
  BY <1>3 DEF Reads!ToReadModel, Reads!TagReadModel
<1>4. QED
  BY <1>1, <1>2, <1>3

(* A document says the id by its text.                                     *)
LEMMA JsonHasId ==
  ASSUME NEW list \in {"objects", "devices", "tags"}, NEW x
  PROVE  Json(list, x).id = IdText[x.id]
<1>1. CASE list = "objects"
  BY <1>1 DEF Json, ObjectJson
<1>2. CASE list = "devices"
  BY <1>2 DEF Json, DeviceJson
<1>3. CASE list = "tags"
  BY <1>3 DEF Json, TagJson
<1>4. QED
  BY <1>1, <1>2, <1>3

HasOwnIds(items) ==
  /\ \A i, j \in DOMAIN items : items[i].id = items[j].id => i = j
  /\ \A i \in DOMAIN items : items[i].id \in DOMAIN IdText

(* Items with ids of their own make documents that differ.                 *)
LEMMA DocumentsDiffer ==
  ASSUME NEW list \in {"objects", "devices", "tags"}, NEW S, NEW items \in Seq(S),
         HasOwnIds(items)
  PROVE  LET documents == [i \in DOMAIN items |-> Json(list, items[i])]
         IN  /\ Range(documents) = {Json(list, x) : x \in Range(items)}
             /\ Len(items) = Cardinality(Range(documents))
<1> DEFINE documents == [i \in DOMAIN items |-> Json(list, items[i])]
           J == {Json(list, items[i]) : i \in DOMAIN items}
<1>1. Len(items) \in Nat /\ DOMAIN items = 1..Len(items)
  OBVIOUS
<1>2. /\ DOMAIN documents = DOMAIN items
      /\ \A i \in DOMAIN items : documents[i] = Json(list, items[i])
  OBVIOUS
<1>3. documents \in Seq(J) /\ Len(documents) = Len(items)
  <2>1. documents \in [1..Len(items) -> J]
    BY <1>1
  <2> HIDE DEF documents, J
  <2>2. documents \in Seq(J)
    BY <1>1, <2>1, SeqDef
  <2>3. QED
    BY <1>1, <1>2, <2>2
<1> HIDE DEF documents, J
<1>4. Range(documents) = {Json(list, x) : x \in Range(items)}
  BY <1>2 DEF Range
<1>5. Service!Unique(documents)
  <2> SUFFICES ASSUME NEW i \in DOMAIN items, NEW j \in DOMAIN items,
                      documents[i].id = documents[j].id
               PROVE  i = j
    BY <1>2 DEF Service!Unique
  <2>1. IdText[items[i].id] = IdText[items[j].id]
    BY <1>2, JsonHasId
  <2>2. QED
    BY <2>1, IdTextAssumption DEF HasOwnIds
<1>6. Service!Cardinality(Service!Range(documents)) = Len(documents)
  BY <1>3, <1>5, ServiceAssumptions, Service!CountedOnce
<1>7. QED
  BY <1>3, <1>4, <1>6, SameCounts, Zenon DEF documents

(* The document of a page, as ServedAsAsked has it.                        *)
IsAskedPage(body) ==
  LET asked == Reads!Asked(ReadQuery(ask.list, AskedValues))
      Rank(x) == Cardinality({y \in asked : Reads!Precedes(y, x)})
      start == AskedValues["offset"]
      page == start..(start + AskedValues["limit"] - 1)
  IN /\ Range(body.items) = {Json(ask.list, Reads!ToReadModel(ask.list, x)) :
                               x \in {y \in asked : Rank(y) \in page}}
     /\ body.count = Cardinality(Range(body.items))
     /\ body.total = Cardinality(asked)

(* An ask for a list that can be served is served its page.                *)
LEMMA ListServed ==
  ASSUME ask.list \in {"objects", "devices", "tags"}, IsAsk(ask.list, ask.asked),
         AskedValues = Meant(ask.list, ask.asked),
         \A name \in DOMAIN ask.asked : ~Refused(name, ask.asked[name])
  PROVE  IsAskedPage(ListDocument(ask.list, AskedValues))
<1> DEFINE list == ask.list
           values == AskedValues
           q == ReadQuery(list, values)
           asked == Reads!Asked(q)
           Rank(x) == Cardinality({y \in asked : Reads!Precedes(y, x)})
           start == values["offset"]
           page == start..(start + values["limit"] - 1)
           read == Reads!ReadList(Config, q, start)
           body == ListDocument(list, values)
<1>1. /\ q \in Service!Query /\ q.list = list
      /\ q.limit = values["limit"] /\ values["limit"] \in 1..MaxLimit
      /\ start \in Nat
  BY ReadQueryFacts
<1>2. Reads!NormalizedLimit(q.limit) = values["limit"]
  BY <1>1, LimitAssumption DEF Reads!NormalizedLimit, Reads!Least
<1>3. /\ body.items = [i \in DOMAIN read.items |-> Json(list, read.items[i])]
      /\ body.count = Len(read.items) /\ body.total = read.total
  BY DEF ListDocument
<1>4. /\ \E S : read.items \in Seq(S)
      /\ read.total = Cardinality(asked)
      /\ Range(read.items) =
           {Reads!ToReadModel(list, x) : x \in {y \in asked : Rank(y) \in page}}
      /\ \A i, j \in DOMAIN read.items : read.items[i].id = read.items[j].id => i = j
      /\ asked \subseteq Range(Config[list])
  <2> DEFINE places == start..(start + Reads!NormalizedLimit(q.limit) - 1)
  <2>1. page = places
    BY <1>2
  <2>2. /\ \E S : read.items \in Seq(S)
        /\ read.total = Cardinality(asked)
        /\ Range(read.items) =
             {Reads!ToReadModel(q.list, x) : x \in {y \in asked : Rank(y) \in places}}
        /\ \A i, j \in DOMAIN read.items : read.items[i].id = read.items[j].id => i = j
        /\ asked \subseteq Range(Config[q.list])
    BY <1>1, ServedPage
  <2> HIDE DEF q, asked, Rank, page, read, places
  <2>3. QED
    BY <1>1, <2>1, <2>2
<1> HIDE DEF values, q, asked, Rank, start, page, read, body
<1>5. \A i \in DOMAIN read.items : read.items[i].id \in DOMAIN IdText
  <2> TAKE i \in DOMAIN read.items
  <2>1. PICK x \in asked : read.items[i] = Reads!ToReadModel(list, x)
    <3>1. read.items[i] \in Range(read.items)
      BY Zenon DEF Range
    <3>2. QED
      BY <1>4, <3>1
  <2>2. read.items[i].id = x.id
    BY <2>1, ModelHasId
  <2>3. x.id \in Reads!Ids(Config[list])
    BY <1>4 DEF Range, Reads!Ids
  <2>4. QED
    BY <2>2, <2>3, IdTextAssumption
<1>6. /\ Range(body.items) = {Json(list, x) : x \in Range(read.items)}
      /\ body.count = Cardinality(Range(body.items))
  <2> DEFINE documents == [i \in DOMAIN read.items |-> Json(list, read.items[i])]
  <2>1. PICK S : read.items \in Seq(S)
    BY <1>4
  <2>2. /\ Range(documents) = {Json(list, x) : x \in Range(read.items)}
        /\ Len(read.items) = Cardinality(Range(documents))
    <3>1. HasOwnIds(read.items)
      BY <1>4, <1>5 DEF HasOwnIds
    <3>2. list \in {"objects", "devices", "tags"}
      OBVIOUS
    <3> HIDE DEF list
    <3>3. QED
      BY <2>1, <3>1, <3>2, DocumentsDiffer
  <2>3. body.items = documents /\ body.count = Len(read.items)
    BY <1>3
  <2> HIDE DEF documents
  <2>4. QED
    BY <2>2, <2>3
<1>7. Range(body.items) = {Json(list, Reads!ToReadModel(list, x)) :
                             x \in {y \in asked : Rank(y) \in page}}
  BY <1>4, <1>6
<1>8. QED
  BY <1>3, <1>4, <1>6, <1>7, Zenon DEF IsAskedPage, values, q, asked, Rank, start, page, body

(* What the frontend asks for is what it is served: handlers parse the     *)
(* query of the frontend to what was asked for, and the page that is read  *)
(* has the items of the asked ranks.                                       *)
THEOREM ServedTheorem == Spec => []ServedAsAsked
<1>1. IInv => ServedAsAsked
  <2> SUFFICES ASSUME IInv, phase = "answered", ask # NoAsk, answer.by = "handler",
                      answer.status # 500
               PROVE  \/ /\ Refusable # {} /\ answer.status = 400
                         /\ Head(answer.error.details.field) \in Refusable
                      \/ /\ Refusable = {} /\ answer.status = 200
                         /\ ask.list = "tree" => answer.body = TreeDocument(AskedValues)
                         /\ ask.list # "tree" =>
                              IsAskedPage(answer.body)
    BY Zenon DEF ServedAsAsked, IsAskedPage
  <2> DEFINE list == ask.list
             asked == ask.asked
             refused == {name \in DOMAIN asked : Refused(name, asked[name])}
             parsed == ParseQuery(request.query, list)
  <2>1. ask \in Asks /\ request = FrontendRequest(ask) /\ ServedByHandler
    BY DEF IInv, RequestInv, HandlerInv
  <2>2. list \in Lists /\ IsAsk(list, asked)
    BY <2>1, AsksAre, AskAssumption
  <2>3. AskedValues = Meant(list, asked)
    BY Zenon DEF AskedValues, Meant, Names
  <2>4. Refusable = refused
    BY Zenon DEF Refusable, Refused
  <2>5. parsed = ParseQuery(BuildQuery(list, asked), list)
    BY <2>1 DEF FrontendRequest
  <2>6. /\ refused # {} => parsed.error # NoError /\ Head(parsed.error.field) \in refused
        /\ refused = {} => parsed.error = NoError /\ parsed.values = Meant(list, asked)
    BY <2>2, <2>5, BuiltParses
  <2>7. IF parsed.error # NoError
          THEN answer.status = 400 /\ answer.error.details = parsed.error
          ELSE /\ answer.status = 200
               /\ answer.body = IF list = "tree" THEN TreeDocument(parsed.values)
                                                 ELSE ListDocument(list, parsed.values)
    BY <2>1, Zenon DEF ServedByHandler
  <2> HIDE DEF parsed, refused
  <2>8. CASE refused # {}
    BY <2>4, <2>6, <2>7, <2>8
  <2>9. CASE refused = {}
    <3>1. /\ answer.status = 200
          /\ answer.body = IF list = "tree" THEN TreeDocument(AskedValues)
                                            ELSE ListDocument(list, AskedValues)
      BY <2>3, <2>6, <2>7, <2>9
    <3>2. CASE list = "tree"
      BY <2>4, <2>9, <3>1, <3>2
    <3>3. CASE list # "tree"
      <4>1. list \in {"objects", "devices", "tags"}
        BY <2>2, <3>3 DEF Lists
      <4>2. \A name \in DOMAIN asked : ~Refused(name, asked[name])
        BY <2>9 DEF refused
      <4>3. answer.body = ListDocument(list, AskedValues)
        BY <3>1, <3>3
      <4>4. IsAskedPage(ListDocument(list, AskedValues))
        BY <2>2, <2>3, <4>1, <4>2, ListServed
      <4>5. IsAskedPage(answer.body)
        BY <4>3, <4>4
      <4>6. QED
        BY <2>4, <2>9, <3>1, <3>3, <4>5
    <3>4. QED
      BY <3>2, <3>3
  <2>10. QED
    BY <2>8, <2>9
<1>2. QED
  BY <1>1, Safety, PTL
=============================================================================
