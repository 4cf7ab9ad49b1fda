------------------------------- MODULE PageLoad -------------------------------
(***************************************************************************)
(* How a page of the frontend loads its data: ReloadAsync of Devices.razor,*)
(* Tags.razor, Objects.razor and SystemPage.razor over GetAsync of the     *)
(* HTTP API clients.                                                       *)
(*                                                                         *)
(* The frontend runs on Blazor WebAssembly, on one thread.  ReloadAsync    *)
(* runs without interruption up to its await and from there to its end, so *)
(* a load is two steps of the page (Reload, Resume) with the steps of its  *)
(* HTTP requests, user actions and Dispose in between in any order.  A     *)
(* request that has ended keeps its outcome until the page resumes, so a   *)
(* cancellation may come too late to be seen by it.                        *)
(*                                                                         *)
(* HttpClient is external: its Timeout ends a request that is waiting for  *)
(* the response headers.  The clients ask for ResponseHeadersRead, so it   *)
(* does not watch over the body.  Loads are numbered; `writer' is history: *)
(* the load that last wrote the page's state.                              *)
(***************************************************************************)
EXTENDS Naturals, Sequences, SequencesExt

CONSTANTS
  Pages,    \* the pages considered
  MaxLoads  \* bound: loads a page starts before it is closed

ASSUME PageAssumption == Pages \subseteq {"Devices", "Tags", "Objects", "System"}
ASSUME BoundAssumption == MaxLoads \in Nat

VARIABLES
  page,             \* which page this is
  includeDisabled,  \* _includeDisabled, the switch of Devices and Tags
  isLoading,        \* _isLoading: spinner shown, button and switch disabled
  stateKind,        \* _stateKind, or "none" when it is null
  data,             \* the collections shown, or NoData
  latest,           \* number of the last load; _loadCancellation is its source
  loads,            \* the loads that have not reached their end, by number
  disposed,         \* the component was disposed of
  writer            \* history: the load that wrote stateKind and data

vars == <<page, includeDisabled, isLoading, stateKind, data, latest, loads, disposed, writer>>

(* The requests a page awaits together, in the order WhenAll has them.     *)
Endpoints ==
  CASE page = "Objects" -> <<"tree", "objects">>
    [] page = "System" -> <<"health", "modules">>
    [] page \in {"Devices", "Tags"} -> <<"collection">>

Pending == {"headers", "body", "errorBody"}
Received == {"some", "none"}
ApiErrors == {"Connection", "Timeout", "HttpStatus", "InvalidResponse", "Configuration"}
Faults == ApiErrors \cup {"Unexpected"}
Outcomes == Received \cup Faults \cup {"Cancelled"}

NoData == [load |-> 0, include_disabled |-> FALSE, received |-> {}]

Init ==
  /\ page \in Pages
  /\ includeDisabled = FALSE /\ isLoading = FALSE
  /\ stateKind = "none" /\ data = NoData
  /\ latest = 0 /\ loads = [l \in {} |-> 0]
  /\ disposed = FALSE /\ writer = 0

-----------------------------------------------------------------------------
(* ReloadAsync up to its await *)

CancelLatest == [l \in DOMAIN loads |-> [loads[l] EXCEPT !.cancelled = @ \/ l = latest]]

NewLoad(include_disabled) ==
  [cancelled |-> FALSE, include_disabled |-> include_disabled,
   requests |-> [e \in ToSet(Endpoints) |-> "headers"]]

Reset_KeepsData == isLoading' = TRUE /\ stateKind' = "Loading" /\ UNCHANGED data
Reset == isLoading' = TRUE /\ stateKind' = "Loading" /\ data' = NoData

Reload(include_disabled) ==
  /\ latest < MaxLoads
  /\ loads' = [l \in DOMAIN loads \cup {latest + 1} |->
                 IF l = latest + 1 THEN NewLoad(include_disabled) ELSE CancelLatest[l]]
  /\ latest' = latest + 1
  /\ writer' = latest + 1
  /\ Reset
  /\ includeDisabled' = include_disabled
  /\ UNCHANGED <<page, disposed>>

OnInitialized == latest = 0 /\ Reload(FALSE)

CanClick_Always == latest > 0 /\ ~disposed

(* The button and the switch are disabled while a load is running.         *)
CanClick == latest > 0 /\ ~disposed /\ ~isLoading

Refresh == CanClick /\ Reload(includeDisabled)

OnIncludeDisabledChanged ==
  page \in {"Devices", "Tags"} /\ CanClick /\ Reload(~includeDisabled)

-----------------------------------------------------------------------------
(* One HTTP request: GetAsync of the API client *)

EndsWith(l, e, outcome) ==
  /\ loads' = [loads EXCEPT ![l].requests[e] = outcome]
  /\ UNCHANGED <<page, includeDisabled, isLoading, stateKind, data, latest, disposed, writer>>

At(l, e, phase) == loads[l].requests[e] = phase

(* The response headers arrive, or sending fails. *)
Headers(l, e) ==
  /\ At(l, e, "headers")
  /\ \E next \in {"body", "errorBody", "Connection", "Configuration"} : EndsWith(l, e, next)

(* A timeout is an OperationCanceledException as well: it is taken for the *)
(* caller's own cancellation when that has been requested.                 *)
TimedOut(l) == IF loads[l].cancelled THEN "Cancelled" ELSE "Timeout"

Timeout(l, e) == At(l, e, "headers") /\ EndsWith(l, e, TimedOut(l))

(* Reading a body may break off, or fail on its declared encoding.         *)
BodyFaults == {"Connection", "Configuration", "Unexpected"}

(* The body arrives, or is no valid JSON of the type.                      *)
Body(l, e) ==
  /\ At(l, e, "body")
  /\ \E outcome \in Received \cup {"InvalidResponse"} \cup BodyFaults :
       EndsWith(l, e, outcome)

(* TryReadApiErrorAsync: a body that cannot be parsed is as good as none.  *)
ErrorBody(l, e) ==
  /\ At(l, e, "errorBody")
  /\ \E outcome \in {"HttpStatus"} \cup BodyFaults : EndsWith(l, e, outcome)

ObserveCancellation(l, e) ==
  /\ loads[l].cancelled
  /\ loads[l].requests[e] \in Pending
  /\ EndsWith(l, e, "Cancelled")

-----------------------------------------------------------------------------
(* ReloadAsync after its await *)

Ended(l) == \A e \in DOMAIN loads[l].requests : loads[l].requests[e] \in Outcomes
Results(l) == {loads[l].requests[e] : e \in DOMAIN loads[l].requests}

(* The exception an await of WhenAll throws: that of the first faulted task. *)
FirstFault(l) ==
  LET outcomes == [i \in 1..Len(Endpoints) |-> loads[l].requests[Endpoints[i]]]
  IN  SelectSeq(outcomes, LAMBDA o : o \in Faults)[1]

ErrorState_Unmapped(fault) == fault

(* ApplyApiError, and the catch of any other exception.                    *)
ErrorState(fault) ==
  IF fault \in {"Connection", "Timeout"} THEN "NoConnection" ELSE "Error"

(* The panel after success: Empty when nothing at all was received, which  *)
(* the System page does not ask.                                           *)
SuccessState(results) ==
  IF page # "System" /\ results = {"none"} THEN "Empty" ELSE "none"

Show(l) ==
  \/ /\ Results(l) \cap Faults # {}
     /\ stateKind' = ErrorState(FirstFault(l))
     /\ writer' = l
     /\ UNCHANGED data
  \/ /\ Results(l) \subseteq Received
     /\ stateKind' = SuccessState(Results(l))
     /\ data' = [load |-> l, include_disabled |-> loads[l].include_disabled,
                 received |-> Results(l)]
     /\ writer' = l
  \/ /\ Results(l) \cap Faults = {} /\ "Cancelled" \in Results(l)
     /\ UNCHANGED <<stateKind, data, writer>>

StillLoading_UnlessSuccess(l) == loads[l].cancelled \/ Results(l) \cap Faults # {}

(* The finally block leaves the spinner of a cancelled load alone.         *)
StillLoading(l) == loads[l].cancelled

Resume(l) ==
  /\ Ended(l)
  /\ Show(l)
  /\ isLoading' = (isLoading /\ StillLoading(l))
  /\ loads' = [k \in DOMAIN loads \ {l} |-> loads[k]]
  /\ UNCHANGED <<page, includeDisabled, latest, disposed>>

Dispose_WithoutCancel ==
  /\ latest > 0 /\ ~disposed
  /\ disposed' = TRUE
  /\ UNCHANGED <<page, includeDisabled, isLoading, stateKind, data, latest, loads, writer>>

(* Leaving the page. *)
Dispose ==
  /\ latest > 0 /\ ~disposed
  /\ disposed' = TRUE
  /\ loads' = CancelLatest
  /\ UNCHANGED <<page, includeDisabled, isLoading, stateKind, data, latest, writer>>

-----------------------------------------------------------------------------
RequestStep(l, e) ==
  Headers(l, e) \/ Timeout(l, e) \/ Body(l, e) \/ ErrorBody(l, e) \/ ObserveCancellation(l, e)

Next ==
  \/ OnInitialized
  \/ Refresh
  \/ OnIncludeDisabledChanged
  \/ \E l \in DOMAIN loads : \E e \in DOMAIN loads[l].requests : RequestStep(l, e)
  \/ \E l \in DOMAIN loads : Resume(l)
  \/ Dispose

Spec == Init /\ [][Next]_vars

AllEndpoints == {"collection", "tree", "objects", "health", "modules"}
Live(l, e) == l \in DOMAIN loads /\ e \in DOMAIN loads[l].requests

(* What the browser guarantees by itself: queued continuations run, and    *)
(* the timer and the cancellation end the waits they watch over.           *)
RuntimeFairness ==
  /\ \A l \in 1..MaxLoads : WF_vars(l \in DOMAIN loads /\ Resume(l))
  /\ \A l \in 1..MaxLoads, e \in AllEndpoints :
       /\ WF_vars(Live(l, e) /\ Timeout(l, e))
       /\ WF_vars(Live(l, e) /\ ObserveCancellation(l, e))

(* What a load needs from outside as well: a response whose headers have   *)
(* arrived does not stall for ever in its body.                            *)
BodyFairness ==
  \A l \in 1..MaxLoads, e \in AllEndpoints :
    WF_vars(Live(l, e) /\ (Body(l, e) \/ ErrorBody(l, e)))

RuntimeSpec == Spec /\ RuntimeFairness
NetworkSpec == Spec /\ RuntimeFairness /\ BodyFairness

-----------------------------------------------------------------------------
(* Properties *)

TypeOK ==
  /\ page \in Pages
  /\ {includeDisabled, isLoading, disposed} \subseteq BOOLEAN
  /\ stateKind \in {"none", "Loading", "Empty", "NoConnection", "Error"}
  /\ latest \in 0..MaxLoads /\ writer \in 0..latest
  /\ data \in [load : 0..latest, include_disabled : BOOLEAN, received : SUBSET Received]
  /\ DOMAIN loads \subseteq 1..latest
  /\ \A l \in DOMAIN loads :
       loads[l] \in [cancelled : BOOLEAN, include_disabled : BOOLEAN,
                     requests : [ToSet(Endpoints) -> Pending \cup Outcomes]]

Open == latest > 0 /\ ~disposed

(* The latest load wins: what an open page shows was written by its latest *)
(* load and fits the position of the switch; no continuation of an earlier *)
(* load, whenever its response came, overwrites it.                        *)
LatestLoadWins ==
  Open => /\ writer = latest
          /\ data # NoData => /\ data.load = latest
                              /\ data.include_disabled = includeDisabled

(* When the spinner is off the page shows either received data or a panel  *)
(* that says why there is none: never an error beside old data, never an   *)
(* empty page without an explanation, never the Loading panel.             *)
PanelExplainsData ==
  Open /\ ~isLoading =>
    CASE stateKind = "none" -> data # NoData
      [] stateKind = "Empty" -> data.received = {"none"}
      [] stateKind \in {"NoConnection", "Error"} -> data = NoData
      [] OTHER -> FALSE

(* A load comes to an end, successful or not, and gives the controls back. *)
LoadSettles == isLoading ~> (~isLoading \/ disposed)

(* Closing a page frees its requests even when the backend stalls: the     *)
(* cancellation reaches each of them and the load's continuation ends.     *)
ClosedPageEnds == disposed ~> (DOMAIN loads = {})
=============================================================================
