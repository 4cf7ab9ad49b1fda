---------------------------- MODULE PageLoadProofs ----------------------------
(***************************************************************************)
(* Proofs about PageLoad, for every page and every number of loads.        *)
(***************************************************************************)
EXTENDS PageLoad, TLAPS

USE PageAssumption, BoundAssumption

Load ==
  [cancelled : BOOLEAN, include_disabled : BOOLEAN,
   requests : [ToSet(Endpoints) -> Pending \cup Outcomes]]

-----------------------------------------------------------------------------
(* The inductive invariant.  That the latest load wins rests on the button *)
(* and the switch being disabled while a load runs: an open page has at    *)
(* most one load, the latest, for the current position of the switch; it   *)
(* is not cancelled, so no request of it can end as cancelled, and its end *)
(* is always shown.  While it runs the page is blank.                      *)

NothingBeforeOpening == latest = 0 => DOMAIN loads = {} /\ ~disposed

OnlyLatestRuns ==
  Open => /\ isLoading => DOMAIN loads = {latest}
          /\ ~isLoading => DOMAIN loads = {}
          /\ \A l \in DOMAIN loads : /\ ~loads[l].cancelled
                                     /\ loads[l].include_disabled = includeDisabled

CancelledWhenAsked ==
  \A l \in DOMAIN loads : \A e \in DOMAIN loads[l].requests :
    loads[l].requests[e] = "Cancelled" => loads[l].cancelled

BlankWhileLoading == Open /\ isLoading => data = NoData /\ stateKind = "Loading"

IInv ==
  /\ TypeOK
  /\ NothingBeforeOpening
  /\ OnlyLatestRuns
  /\ CancelledWhenAsked
  /\ BlankWhileLoading
  /\ LatestLoadWins
  /\ PanelExplainsData

-----------------------------------------------------------------------------
(* Starting a load. *)

LEMMA CancelLatestFacts ==
  ASSUME TypeOK
  PROVE  /\ DOMAIN CancelLatest = DOMAIN loads
         /\ \A l \in DOMAIN loads :
              /\ CancelLatest[l] \in Load
              /\ CancelLatest[l].requests = loads[l].requests
              /\ loads[l].cancelled => CancelLatest[l].cancelled
<1>1. DOMAIN CancelLatest = DOMAIN loads
  BY DEF CancelLatest
<1>2. ASSUME NEW l \in DOMAIN loads
      PROVE  /\ CancelLatest[l] \in Load
             /\ CancelLatest[l].requests = loads[l].requests
             /\ loads[l].cancelled => CancelLatest[l].cancelled
  <2>1. loads[l] \in Load
    BY DEF TypeOK, Load
  <2>2. CancelLatest[l] = [loads[l] EXCEPT !.cancelled = @ \/ l = latest]
    BY DEF CancelLatest
  <2>3. loads[l].cancelled \in BOOLEAN
    BY <2>1 DEF Load
  <2>4. CASE l = latest
    <3>1. CancelLatest[l] = [loads[l] EXCEPT !.cancelled = TRUE]
      BY <2>2, <2>4
    <3>2. QED
      BY <2>1, <3>1 DEF Load
  <2>5. CASE l # latest
    <3>1. CancelLatest[l] = [loads[l] EXCEPT !.cancelled = loads[l].cancelled]
      BY <2>2, <2>3, <2>5, Zenon
    <3>2. QED
      BY <2>1, <3>1 DEF Load
  <2>6. QED
    BY <2>4, <2>5
<1>3. QED
  BY <1>1, <1>2

LEMMA NewLoadFacts ==
  ASSUME NEW b \in BOOLEAN
  PROVE  /\ NewLoad(b) \in Load
         /\ NewLoad(b).cancelled = FALSE
         /\ NewLoad(b).include_disabled = b
         /\ \A e \in DOMAIN NewLoad(b).requests : NewLoad(b).requests[e] = "headers"
BY DEF NewLoad, Load, Pending

(* A page that loads nothing begins its next load. *)
LEMMA ReloadKeepsIInv ==
  ASSUME IInv, NEW b \in BOOLEAN, Reload(b), DOMAIN loads = {}, ~disposed
  PROVE  IInv'
<1> USE DEF IInv
<1>0. /\ latest \in Nat /\ latest' = latest + 1 /\ latest' \in 0..MaxLoads
      /\ writer' = latest' /\ page' = page /\ disposed' = disposed
      /\ isLoading' = TRUE /\ stateKind' = "Loading" /\ data' = NoData
      /\ includeDisabled' = b
  BY DEF Reload, Reset, TypeOK
<1>1. DOMAIN loads' = {latest'} /\ loads'[latest'] = NewLoad(b)
  BY <1>0 DEF Reload
<1>2. NewLoad(b) \in Load
  BY NewLoadFacts
<1>3. TypeOK'
  <2>1. Load' = Load
    BY <1>0 DEF Load, Endpoints
  <2>2. \A l \in DOMAIN loads' : loads'[l] \in Load'
    BY <1>1, <1>2, <2>1
  <2>3. NoData \in [load : 0..latest', include_disabled : BOOLEAN, received : SUBSET Received]
    BY <1>0 DEF NoData
  <2>4. {includeDisabled', isLoading', disposed'} \subseteq BOOLEAN
    BY <1>0 DEF TypeOK
  <2>5. page' \in Pages /\ latest' \in 0..MaxLoads /\ writer' \in 0..latest'
        /\ DOMAIN loads' \subseteq 1..latest'
    BY <1>0, <1>1 DEF TypeOK
  <2>6. QED
    BY <1>0, <2>2, <2>3, <2>4, <2>5 DEF TypeOK, Load
<1>4. NothingBeforeOpening'
  BY <1>0 DEF NothingBeforeOpening
<1>5. OnlyLatestRuns'
  BY <1>0, <1>1, NewLoadFacts DEF OnlyLatestRuns
<1>6. CancelledWhenAsked'
  BY <1>1, NewLoadFacts DEF CancelledWhenAsked
<1>7. BlankWhileLoading'
  BY <1>0 DEF BlankWhileLoading
<1>8. LatestLoadWins' /\ PanelExplainsData'
  BY <1>0 DEF LatestLoadWins, PanelExplainsData
<1>9. QED
  BY <1>3, <1>4, <1>5, <1>6, <1>7, <1>8

-----------------------------------------------------------------------------
(* The outcome of a step of a request. *)
LEMMA RequestStepIs ==
  ASSUME TypeOK, NEW l \in DOMAIN loads, NEW e \in DOMAIN loads[l].requests,
         RequestStep(l, e)
  PROVE  \E outcome \in Pending \cup Outcomes :
           EndsWith(l, e, outcome) /\ (outcome = "Cancelled" => loads[l].cancelled)
<1> USE DEF Outcomes, Pending, Received, Faults, ApiErrors, BodyFaults
<1>1. CASE Headers(l, e)
  <2>1. PICK next \in {"body", "errorBody", "Connection", "Configuration"} :
          EndsWith(l, e, next)
    BY <1>1, Zenon DEF Headers
  <2>2. QED
    BY <2>1
<1>2. CASE Timeout(l, e)
  <2>1. EndsWith(l, e, TimedOut(l))
    BY <1>2, Zenon DEF Timeout
  <2>2. TimedOut(l) \in Outcomes /\ (TimedOut(l) = "Cancelled" => loads[l].cancelled)
    BY DEF TimedOut
  <2>3. QED
    BY <2>1, <2>2, Zenon
<1>3. CASE Body(l, e)
  <2>1. PICK outcome \in Received \cup {"InvalidResponse"} \cup BodyFaults :
          EndsWith(l, e, outcome)
    BY <1>3, Zenon DEF Body
  <2>2. QED
    BY <2>1
<1>4. CASE ErrorBody(l, e)
  <2>1. PICK outcome \in {"HttpStatus"} \cup BodyFaults : EndsWith(l, e, outcome)
    BY <1>4, Zenon DEF ErrorBody
  <2>2. QED
    BY <2>1
<1>5. CASE ObserveCancellation(l, e)
  <2>1. EndsWith(l, e, "Cancelled") /\ loads[l].cancelled
    BY <1>5, Zenon DEF ObserveCancellation
  <2>2. QED
    BY <2>1
<1>6. QED
  BY <1>1, <1>2, <1>3, <1>4, <1>5 DEF RequestStep

LEMMA RequestStepKeepsIInv ==
  ASSUME IInv, NEW l \in DOMAIN loads, NEW e \in DOMAIN loads[l].requests,
         RequestStep(l, e)
  PROVE  IInv'
<1> USE DEF IInv
<1>1. PICK outcome \in Pending \cup Outcomes :
        EndsWith(l, e, outcome) /\ (outcome = "Cancelled" => loads[l].cancelled)
  BY RequestStepIs
<1>2. /\ UNCHANGED <<page, includeDisabled, isLoading, stateKind, data, latest, disposed, writer>>
      /\ loads' = [loads EXCEPT ![l].requests[e] = outcome]
  BY <1>1 DEF EndsWith
<1>3. loads[l] \in Load
  BY DEF TypeOK, Load
<1>4. DOMAIN loads' = DOMAIN loads /\ \A k \in DOMAIN loads \ {l} : loads'[k] = loads[k]
  BY <1>2
<1>5. /\ loads'[l] \in Load
      /\ loads'[l].cancelled = loads[l].cancelled
      /\ loads'[l].include_disabled = loads[l].include_disabled
      /\ DOMAIN loads'[l].requests = DOMAIN loads[l].requests
      /\ loads'[l].requests[e] = outcome
      /\ \A d \in DOMAIN loads[l].requests \ {e} :
           loads'[l].requests[d] = loads[l].requests[d]
  BY <1>2, <1>3 DEF Load
<1>6. TypeOK'
  <2>1. Load' = Load
    BY <1>2 DEF Load, Endpoints
  <2>2. \A k \in DOMAIN loads' : loads'[k] \in Load'
    BY <1>4, <1>5, <2>1 DEF TypeOK, Load
  <2>3. QED
    BY <1>2, <1>4, <2>2 DEF TypeOK, Load
<1>7. OnlyLatestRuns'
  BY <1>2, <1>4, <1>5 DEF OnlyLatestRuns, Open
<1>8. CancelledWhenAsked'
  BY <1>1, <1>4, <1>5 DEF CancelledWhenAsked
<1>9. NothingBeforeOpening'
  BY <1>2, <1>4 DEF NothingBeforeOpening
<1>10. BlankWhileLoading' /\ LatestLoadWins'
  BY <1>2 DEF BlankWhileLoading, LatestLoadWins, Open
<1>11. PanelExplainsData'
  BY <1>2 DEF PanelExplainsData, Open
<1>12. QED
  BY <1>6, <1>7, <1>8, <1>9, <1>10, <1>11

-----------------------------------------------------------------------------
(* The end of a load. *)

LEMMA EndpointsNotEmpty == ASSUME TypeOK PROVE ToSet(Endpoints) # {}
<1>1. Endpoints[1] \in ToSet(Endpoints)
  BY DEF TypeOK, Endpoints, ToSet
<1>2. QED
  BY <1>1

(* The results of a load that has ended. *)
LEMMA ResultsFacts ==
  ASSUME IInv, NEW l \in DOMAIN loads, Ended(l)
  PROVE  /\ Results(l) \subseteq Outcomes /\ Results(l) # {}
         /\ "Cancelled" \in Results(l) => loads[l].cancelled
<1>1. DOMAIN loads[l].requests = ToSet(Endpoints)
  BY DEF IInv, TypeOK
<1>2. Results(l) \subseteq Outcomes
  BY DEF Ended, Results
<1>3. Results(l) # {}
  BY <1>1, EndpointsNotEmpty DEF Results, IInv
<1>4. "Cancelled" \in Results(l) => loads[l].cancelled
  BY DEF Results, IInv, CancelledWhenAsked
<1>5. QED
  BY <1>2, <1>3, <1>4

LEMMA ShownTypes ==
  ASSUME IInv, NEW l \in DOMAIN loads, Resume(l)
  PROVE  /\ stateKind' \in {"none", "Loading", "Empty", "NoConnection", "Error"}
         /\ writer' \in 0..latest
         /\ data' \in [load : 0..latest, include_disabled : BOOLEAN, received : SUBSET Received]
<1>0. l \in 0..latest /\ loads[l].include_disabled \in BOOLEAN
  BY DEF IInv, TypeOK
<1>1. Show(l)
  BY DEF Resume
<1>2. CASE UNCHANGED <<stateKind, data, writer>>
  BY <1>2 DEF IInv, TypeOK
<1>3. CASE stateKind' = ErrorState(FirstFault(l)) /\ writer' = l /\ UNCHANGED data
  BY <1>0, <1>3 DEF ErrorState, IInv, TypeOK
<1>4. CASE /\ Results(l) \subseteq Received
           /\ stateKind' = SuccessState(Results(l))
           /\ data' = [load |-> l, include_disabled |-> loads[l].include_disabled,
                       received |-> Results(l)]
           /\ writer' = l
  BY <1>0, <1>4 DEF SuccessState
<1>5. QED
  BY <1>1, <1>2, <1>3, <1>4 DEF Show

(* The load of an open page is its latest, and its end is shown. *)
LEMMA LatestIsShown ==
  ASSUME IInv, Open, NEW l \in DOMAIN loads, Resume(l)
  PROVE  /\ l = latest /\ DOMAIN loads = {latest} /\ isLoading /\ ~isLoading'
         /\ writer' = latest
         /\ \/ stateKind' \in {"NoConnection", "Error"} /\ data' = NoData
            \/ /\ data'.load = latest /\ data' # NoData
               /\ data'.include_disabled = includeDisabled
               /\ \/ stateKind' = "none"
                  \/ stateKind' = "Empty" /\ data'.received = {"none"}
<1>1. isLoading /\ DOMAIN loads = {latest} /\ l = latest
      /\ ~loads[l].cancelled /\ loads[l].include_disabled = includeDisabled
  BY DEF IInv, OnlyLatestRuns
<1>2. ~isLoading'
  BY <1>1 DEF Resume, StillLoading
<1>3. "Cancelled" \notin Results(l)
  BY <1>1, ResultsFacts DEF Resume
<1>4. data = NoData /\ latest \in Nat /\ latest # 0
  BY <1>1 DEF IInv, BlankWhileLoading, Open, TypeOK
<1>5. CASE stateKind' = ErrorState(FirstFault(l)) /\ writer' = l /\ UNCHANGED data
  BY <1>1, <1>2, <1>4, <1>5 DEF ErrorState
<1>6. CASE /\ stateKind' = SuccessState(Results(l))
           /\ data' = [load |-> l, include_disabled |-> loads[l].include_disabled,
                       received |-> Results(l)]
           /\ writer' = l
  <2>1. data'.load = latest /\ data'.include_disabled = includeDisabled
        /\ data'.received = Results(l)
    BY <1>1, <1>6
  <2>2. data' # NoData
    BY <1>4, <2>1 DEF NoData
  <2>3. stateKind' = "none" \/ (stateKind' = "Empty" /\ Results(l) = {"none"})
    BY <1>6 DEF SuccessState
  <2>4. QED
    BY <1>1, <1>2, <1>6, <2>1, <2>2, <2>3
<1>7. QED
  BY <1>3, <1>5, <1>6 DEF Resume, Show

LEMMA ResumeKeepsIInv ==
  ASSUME IInv, NEW l \in DOMAIN loads, Resume(l)
  PROVE  IInv'
<1>1. /\ UNCHANGED <<page, includeDisabled, latest, disposed>>
      /\ DOMAIN loads' = DOMAIN loads \ {l}
      /\ \A k \in DOMAIN loads' : loads'[k] = loads[k]
      /\ isLoading' \in BOOLEAN
  BY DEF Resume
<1>2. TypeOK'
  <2>1. Load' = Load
    BY <1>1 DEF Load, Endpoints
  <2>2. \A k \in DOMAIN loads' : loads'[k] \in Load'
    BY <1>1, <2>1 DEF IInv, TypeOK, Load
  <2>3. {includeDisabled', isLoading', disposed'} \subseteq BOOLEAN
    BY <1>1 DEF IInv, TypeOK
  <2>4. QED
    BY <1>1, <2>2, <2>3, ShownTypes DEF IInv, TypeOK, Load
<1>3. NothingBeforeOpening'
  BY <1>1 DEF IInv, NothingBeforeOpening
<1>4. CancelledWhenAsked'
  BY <1>1 DEF IInv, CancelledWhenAsked
<1>5. OnlyLatestRuns'
  BY <1>1, LatestIsShown DEF OnlyLatestRuns, Open
<1>6. BlankWhileLoading'
  BY <1>1, LatestIsShown DEF BlankWhileLoading, Open
<1>7. LatestLoadWins'
  BY <1>1, LatestIsShown DEF LatestLoadWins, Open
<1>8. PanelExplainsData'
  <2> SUFFICES ASSUME Open', ~isLoading'
               PROVE  CASE stateKind' = "none" -> data' # NoData
                        [] stateKind' = "Empty" -> data'.received = {"none"}
                        [] stateKind' \in {"NoConnection", "Error"} -> data' = NoData
                        [] OTHER -> FALSE
    BY DEF PanelExplainsData
  <2>1. Open
    BY <1>1 DEF Open
  <2>2. CASE stateKind' \in {"NoConnection", "Error"} /\ data' = NoData
    BY <2>2
  <2>3. CASE stateKind' = "none" /\ data' # NoData
    BY <2>3
  <2>4. CASE stateKind' = "Empty" /\ data'.received = {"none"}
    BY <2>4
  <2>5. QED
    BY <2>1, <2>2, <2>3, <2>4, LatestIsShown
<1>9. QED
  BY <1>2, <1>3, <1>4, <1>5, <1>6, <1>7, <1>8 DEF IInv

(* Leaving the page; nothing but the types is promised from then on. *)
LEMMA DisposeKeepsIInv ==
  ASSUME IInv, Dispose
  PROVE  IInv'
<1>1. /\ UNCHANGED <<page, includeDisabled, isLoading, stateKind, data, latest, writer>>
      /\ loads' = CancelLatest /\ disposed' = TRUE /\ latest > 0
  BY DEF Dispose
<1>2. TypeOK'
  <2>1. Load' = Load
    BY <1>1 DEF Load, Endpoints
  <2>2. \A k \in DOMAIN loads' : loads'[k] \in Load'
    BY <1>1, <2>1, CancelLatestFacts DEF IInv
  <2>3. DOMAIN loads' \subseteq 1..latest
    BY <1>1, CancelLatestFacts DEF IInv, TypeOK
  <2>4. QED
    BY <1>1, <2>2, <2>3 DEF IInv, TypeOK, Load
<1>3. ~Open' /\ latest' # 0
  BY <1>1 DEF Open, IInv, TypeOK
<1>4. CancelledWhenAsked'
  BY <1>1, CancelLatestFacts DEF IInv, CancelledWhenAsked
<1>5. QED
  BY <1>2, <1>3, <1>4 DEF IInv, NothingBeforeOpening, OnlyLatestRuns, BlankWhileLoading,
     LatestLoadWins, PanelExplainsData

-----------------------------------------------------------------------------
(* An open page has at most one load under way, and what it shows stays    *)
(* consistent, whatever its requests do and whenever it is left.           *)
THEOREM Safety == Spec => []IInv
<1>1. Init => IInv
  <2> SUFFICES ASSUME Init PROVE IInv
    OBVIOUS
  <2>1. DOMAIN loads = {} /\ latest = 0 /\ disposed = FALSE /\ writer = 0
    BY DEF Init
  <2>2. TypeOK
    <3>1. page \in Pages /\ {includeDisabled, isLoading, disposed} \subseteq BOOLEAN
      BY DEF Init
    <3>2. data \in [load : 0..latest, include_disabled : BOOLEAN, received : SUBSET Received]
      BY DEF Init, NoData
    <3>3. stateKind = "none" /\ latest \in 0..MaxLoads /\ writer \in 0..latest
      BY DEF Init
    <3>4. QED
      BY <2>1, <3>1, <3>2, <3>3 DEF TypeOK
  <2>3. QED
    BY <2>1, <2>2 DEF IInv, NothingBeforeOpening, OnlyLatestRuns, CancelledWhenAsked,
       BlankWhileLoading, LatestLoadWins, PanelExplainsData, Open
<1>2. IInv /\ [Next]_vars => IInv'
  <2> SUFFICES ASSUME IInv, [Next]_vars PROVE IInv'
    OBVIOUS
  <2>1. CASE OnInitialized
    BY <2>1, ReloadKeepsIInv DEF OnInitialized, IInv, NothingBeforeOpening
  <2>2. CASE Refresh
    BY <2>2, ReloadKeepsIInv DEF Refresh, CanClick, IInv, OnlyLatestRuns, Open, TypeOK
  <2>3. CASE OnIncludeDisabledChanged
    <3>1. (~includeDisabled) \in BOOLEAN
      OBVIOUS
    <3>2. Reload(~includeDisabled) /\ ~disposed /\ DOMAIN loads = {}
      BY <2>3 DEF OnIncludeDisabledChanged, CanClick, IInv, OnlyLatestRuns, Open
    <3>3. QED
      BY <3>1, <3>2, ReloadKeepsIInv
  <2>4. ASSUME NEW l \in DOMAIN loads, NEW e \in DOMAIN loads[l].requests, RequestStep(l, e)
        PROVE  IInv'
    BY <2>4, RequestStepKeepsIInv
  <2>5. ASSUME NEW l \in DOMAIN loads, Resume(l) PROVE IInv'
    BY <2>5, ResumeKeepsIInv
  <2>6. CASE Dispose
    BY <2>6, DisposeKeepsIInv
  <2>7. CASE UNCHANGED vars
    <3>1. TypeOK'
      BY <2>7 DEF vars, IInv, TypeOK, Endpoints
    <3>2. NothingBeforeOpening' /\ OnlyLatestRuns' /\ CancelledWhenAsked'
      BY <2>7 DEF vars, IInv, NothingBeforeOpening, OnlyLatestRuns, CancelledWhenAsked, Open
    <3>3. BlankWhileLoading' /\ LatestLoadWins' /\ PanelExplainsData'
      BY <2>7 DEF vars, IInv, BlankWhileLoading, LatestLoadWins, PanelExplainsData, Open
    <3>4. QED
      BY <3>1, <3>2, <3>3 DEF IInv
  <2>8. QED
    BY <2>1, <2>2, <2>3, <2>4, <2>5, <2>6, <2>7 DEF Next
<1>3. QED
  BY <1>1, <1>2, PTL DEF Spec

(* Type correctness of a page and its loads. *)
THEOREM TypeCorrect == Spec => []TypeOK
BY Safety, PTL DEF IInv

(* What an open page shows was written by its latest load and fits the     *)
(* switch, however its requests end.                                       *)
THEOREM LatestTheorem == Spec => []LatestLoadWins
BY Safety, PTL DEF IInv

(* When the spinner is off, the panel says why there is data or none. *)
THEOREM PanelTheorem == Spec => []PanelExplainsData
BY Safety, PTL DEF IInv
=============================================================================
