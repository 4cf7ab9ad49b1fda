---------------------------- MODULE AlarmLifecycle ----------------------------
(***************************************************************************)
(* The life of one alarm: AlarmRecord and apply_alarm_transition of        *)
(* scada_alarms (alarm_record.cpp, alarm_lifecycle.cpp).                   *)
(*                                                                         *)
(* apply_alarm_transition maps a record and a request to a new record and  *)
(* one AlarmTransitionRecord, or to the unchanged record and a failure     *)
(* code.  `alarm' is the record its owner holds; `transitions' are the     *)
(* transition records returned so far, which IAlarmTransitionRepository    *)
(* keeps for the alarm (external).  Titles, reasons, source ids and the    *)
(* wording of results are never looked at and are left out.                *)
(*                                                                         *)
(* A timestamp is a member of Times.  A request may carry one or leave it  *)
(* to now(); the code orders neither, so both are free.                    *)
(***************************************************************************)
EXTENDS Integers, Sequences, FiniteSets

CONSTANTS
  Actors,           \* non-empty actor names
  NoActor,          \* the empty string
  Times,            \* time points
  NoTime,           \* a default-constructed AlarmTimestamp
  MaxTransitions    \* bound: transitions in one behaviour

ASSUME ActorAssumption == NoActor \notin Actors
ASSUME TimeAssumption == Times \subseteq Nat /\ NoTime \notin Times
ASSUME BoundAssumption == MaxTransitions \in Nat

States == {"New", "Active", "Acknowledged", "Cleared", "Closed", "Shelved", "Suppressed"}

TransitionTypes == {"Activate", "Acknowledge", "Clear", "Close", "Shelve", "Unshelve",
                    "Suppress", "Unsuppress", "Reactivate"}

VARIABLES
  alarm,         \* AlarmRecord
  transitions    \* history: the transition records, in order

vars == <<alarm, transitions>>

Alarm ==
  [state : States, requires_acknowledgement : BOOLEAN, occurrence_count : Nat,
   created_at : Times, activated_at : Times,
   acknowledged_at : Times \cup {NoTime}, acknowledged_by : Actors \cup {NoActor},
   cleared_at : Times \cup {NoTime},
   closed_at : Times \cup {NoTime}, closed_by : Actors \cup {NoActor}]

Request ==
  [type : TransitionTypes, actor : Actors \cup {NoActor},
   timestamp : Times \cup {NoTime}, require_actor : BOOLEAN]

Transition ==
  [type : TransitionTypes, previous_state : States, new_state : States,
   timestamp : Times, actor : Actors \cup {NoActor}]

-----------------------------------------------------------------------------
(* make_alarm_record; whoever makes the record decides afterwards whether  *)
(* it requires acknowledgement.                                            *)
MakeAlarmRecord(now, requires_acknowledgement) ==
  [state |-> "New", requires_acknowledgement |-> requires_acknowledgement,
   occurrence_count |-> 1, created_at |-> now, activated_at |-> now,
   acknowledged_at |-> NoTime, acknowledged_by |-> NoActor,
   cleared_at |-> NoTime, closed_at |-> NoTime, closed_by |-> NoActor]

Init ==
  /\ \E now \in Times, required \in BOOLEAN : alarm = MakeAlarmRecord(now, required)
  /\ transitions = <<>>

-----------------------------------------------------------------------------
(* The transition table *)

(* AlarmRecord::is_active *)
IsActive == {"New", "Active", "Acknowledged"}

SourceStates_ReactivateAny(type) ==
  CASE type = "Activate" -> {"New"}
    [] type = "Acknowledge" -> {"New", "Active"}
    [] type \in {"Clear", "Shelve", "Suppress"} -> IsActive
    [] type = "Close" -> {"Cleared"}
    [] type = "Reactivate" -> {"Cleared", "Active"}
    [] type = "Unshelve" -> {"Shelved"}
    [] type = "Unsuppress" -> {"Suppressed"}

(* can_apply_alarm_transition: the states a transition may start from.     *)
SourceStates(type) ==
  CASE type = "Activate" -> {"New"}
    [] type = "Acknowledge" -> {"New", "Active"}
    [] type \in {"Clear", "Shelve", "Suppress"} -> IsActive
    [] type \in {"Close", "Reactivate"} -> {"Cleared"}
    [] type = "Unshelve" -> {"Shelved"}
    [] type = "Unsuppress" -> {"Suppressed"}

(* Transitions that start an active period. *)
Activating == {"Activate", "Unshelve", "Unsuppress", "Reactivate"}

(* target_state_for_transition *)
TargetState(type) ==
  CASE type \in Activating -> "Active"
    [] type = "Acknowledge" -> "Acknowledged"
    [] type = "Clear" -> "Cleared"
    [] type = "Close" -> "Closed"
    [] type = "Shelve" -> "Shelved"
    [] type = "Suppress" -> "Suppressed"

-----------------------------------------------------------------------------
(* apply_alarm_transition: what an accepted transition at time t changes   *)

Stamped_UnshelveKeeps(r, t) ==
  CASE r.type = "Reactivate" ->
         [alarm EXCEPT !.activated_at = t, !.occurrence_count = @ + 1]
    [] r.type = "Activate" -> [alarm EXCEPT !.activated_at = t]
    [] r.type = "Acknowledge" ->
         [alarm EXCEPT !.acknowledged_at = t, !.acknowledged_by = r.actor]
    [] r.type = "Clear" -> [alarm EXCEPT !.cleared_at = t]
    [] r.type = "Close" -> [alarm EXCEPT !.closed_at = t, !.closed_by = r.actor]
    [] r.type \in {"Shelve", "Suppress", "Unshelve", "Unsuppress"} -> alarm

(* The fields the transition type sets.  None is ever reset: a later       *)
(* transition of the same type overwrites it.                              *)
Stamped(r, t) ==
  CASE r.type = "Reactivate" ->
         [alarm EXCEPT !.activated_at = t, !.occurrence_count = @ + 1]
    [] r.type \in Activating \ {"Reactivate"} -> [alarm EXCEPT !.activated_at = t]
    [] r.type = "Acknowledge" ->
         [alarm EXCEPT !.acknowledged_at = t, !.acknowledged_by = r.actor]
    [] r.type = "Clear" -> [alarm EXCEPT !.cleared_at = t]
    [] r.type = "Close" -> [alarm EXCEPT !.closed_at = t, !.closed_by = r.actor]
    [] r.type \in {"Shelve", "Suppress"} -> alarm

Updated(r, t) == [Stamped(r, t) EXCEPT !.state = TargetState(r.type)]

TransitionRecord(r, t) ==
  [type |-> r.type, previous_state |-> alarm.state, new_state |-> TargetState(r.type),
   timestamp |-> t, actor |-> r.actor]

TransitionTimestamps_RequestOnly(r) == {r.timestamp}

(* The timestamp of the request, or now() when it has none. *)
TransitionTimestamps(r) == IF r.timestamp = NoTime THEN Times ELSE {r.timestamp}

-----------------------------------------------------------------------------
(* apply_alarm_transition: its checks, in the order the code makes them    *)

Closed == alarm.state = "Closed"
ActorMissing(r) == r.require_actor /\ r.actor = NoActor
NotRequired(r) == r.type = "Acknowledge" /\ ~alarm.requires_acknowledgement
Allowed(r) == alarm.state \in SourceStates(r.type)

(* Refusals return the record as it was. *)
RejectClosed(r) == Closed /\ UNCHANGED vars                  \* AlarmAlreadyClosed
RejectActor(r) == ~Closed /\ ActorMissing(r) /\ UNCHANGED vars     \* MissingActor
RejectAcknowledge(r) ==                               \* AcknowledgementNotRequired
  ~Closed /\ ~ActorMissing(r) /\ NotRequired(r) /\ UNCHANGED vars

RejectTransition(r) ==                                         \* InvalidTransition
  ~Closed /\ ~ActorMissing(r) /\ ~NotRequired(r) /\ ~Allowed(r) /\ UNCHANGED vars

Succeed(r) ==
  /\ ~Closed /\ ~ActorMissing(r) /\ ~NotRequired(r) /\ Allowed(r)
  /\ Len(transitions) < MaxTransitions
  /\ \E t \in TransitionTimestamps(r) :
       /\ alarm' = Updated(r, t)
       /\ transitions' = Append(transitions, TransitionRecord(r, t))

ApplyAlarmTransition(r) ==
  \/ RejectClosed(r)
  \/ RejectActor(r)
  \/ RejectAcknowledge(r)
  \/ RejectTransition(r)
  \/ Succeed(r)

Next == \E r \in Request : ApplyAlarmTransition(r)

Spec == Init /\ [][Next]_vars

-----------------------------------------------------------------------------
(* Properties *)

TypeOK ==
  /\ alarm \in Alarm
  /\ transitions \in Seq(Transition)

Steps == 1..Len(transitions)
StepsOf(types) == {i \in Steps : transitions[i].type \in types}

(* i is the latest step with one of the types. *)
IsLatest(i, types) == i \in StepsOf(types) /\ \A j \in StepsOf(types) : j <= i

(* The stored history and the record tell one story: the history starts at *)
(* New, each transition starts in the state the previous one ended in, and *)
(* the record is in the state the last one reached.                        *)
HistoryIsChain ==
  /\ transitions = <<>> => alarm.state = "New"
  /\ transitions # <<>> => /\ transitions[1].previous_state = "New"
                           /\ transitions[Len(transitions)].new_state = alarm.state
  /\ \A i \in Steps : i > 1 => transitions[i].previous_state = transitions[i - 1].new_state

(* The record's times and names are those of the latest transition that    *)
(* sets them, whatever came in between: an acknowledgement survives        *)
(* shelving, clearing and reactivation, and every return to Active,        *)
(* unshelving and unsuppressing included, restarts activated_at.           *)
FieldsFollowHistory ==
  /\ \/ StepsOf(Activating) = {} /\ alarm.activated_at = alarm.created_at
     \/ \E i \in Steps : /\ IsLatest(i, Activating)
                         /\ alarm.activated_at = transitions[i].timestamp
  /\ \/ /\ StepsOf({"Acknowledge"}) = {}
        /\ alarm.acknowledged_at = NoTime /\ alarm.acknowledged_by = NoActor
     \/ \E i \in Steps : /\ IsLatest(i, {"Acknowledge"})
                         /\ alarm.acknowledged_at = transitions[i].timestamp
                         /\ alarm.acknowledged_by = transitions[i].actor
  /\ \/ StepsOf({"Clear"}) = {} /\ alarm.cleared_at = NoTime
     \/ \E i \in Steps : /\ IsLatest(i, {"Clear"})
                         /\ alarm.cleared_at = transitions[i].timestamp

(* Occurrences are episodes: an alarm has been cleared once per completed  *)
(* occurrence, so the count is one more than the clears, less one while    *)
(* the last occurrence is over.  Unshelving and unsuppressing, which also  *)
(* lead to Active, start no occurrence.                                    *)
OccurrencesAreEpisodes ==
  LET over == alarm.state \in {"Cleared", "Closed"}
  IN  Cardinality(StepsOf({"Clear"})) = alarm.occurrence_count - (IF over THEN 0 ELSE 1)

(* An alarm is closed only out of Cleared, at most once, and its close is  *)
(* the end of its history; the record then carries both times.             *)
CloseEndsHistory ==
  /\ \A i \in StepsOf({"Close"}) :
       /\ i = Len(transitions) /\ i > 1
       /\ transitions[i - 1].type = "Clear"
       /\ alarm.closed_at = transitions[i].timestamp
       /\ alarm.closed_by = transitions[i].actor
       /\ alarm.cleared_at = transitions[i - 1].timestamp
  /\ StepsOf({"Close"}) = {} => ~Closed /\ alarm.closed_at = NoTime

(* An alarm that requires no acknowledgement is never acknowledged.        *)
AcknowledgedOnlyIfRequired ==
  ~alarm.requires_acknowledgement =>
    StepsOf({"Acknowledge"}) = {} /\ alarm.acknowledged_by = NoActor

(* A closed alarm never changes again, and a refused request leaves the    *)
(* record as it was: the record changes only together with one transition  *)
(* that is added to the history.                                           *)
ChangesAreRecorded ==
  [][/\ Closed => UNCHANGED alarm
     /\ alarm' # alarm => Len(transitions') = Len(transitions) + 1]_vars
=============================================================================
