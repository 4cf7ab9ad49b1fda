------------------------ MODULE AlarmLifecycleProofs ------------------------
(***************************************************************************)
(* Proofs about AlarmLifecycle, for any actors, any time points and any    *)
(* number of transitions.                                                  *)
(***************************************************************************)
EXTENDS AlarmLifecycle, FiniteSetTheorems, TLAPS

(* Appending keeps the type, the prefix and grows the length by one. *)
LEMMA AppendFacts ==
  ASSUME NEW S, NEW s \in Seq(S), NEW e \in S
  PROVE  /\ Append(s, e) \in Seq(S)
         /\ Len(Append(s, e)) = Len(s) + 1
         /\ Append(s, e)[Len(s) + 1] = e
         /\ \A i \in 1..Len(s) : Append(s, e)[i] = s[i]
  OBVIOUS

USE ActorAssumption, TimeAssumption, BoundAssumption

(* Every value of TransitionTimestamps is a time point. *)
LEMMA TimestampIsTime ==
  ASSUME NEW r \in Request, NEW t \in TransitionTimestamps(r)
  PROVE  t \in Times
BY DEF TransitionTimestamps, Request

(* The transition table stays inside the states. *)
LEMMA TableTypes ==
  ASSUME NEW type \in TransitionTypes
  PROVE  TargetState(type) \in States /\ SourceStates(type) \subseteq States
BY DEF TransitionTypes, TargetState, SourceStates, Activating, States, IsActive

(* A transition of each type sets the fields the code sets and no others.  *)
UpdatedAs(u, r, t) ==
  /\ u \in Alarm
  /\ u.state = TargetState(r.type)
  /\ u.requires_acknowledgement = alarm.requires_acknowledgement
  /\ u.created_at = alarm.created_at
  /\ u.occurrence_count = IF r.type = "Reactivate" THEN alarm.occurrence_count + 1
                                                   ELSE alarm.occurrence_count
  /\ u.activated_at = IF r.type \in Activating THEN t ELSE alarm.activated_at
  /\ u.acknowledged_at = IF r.type = "Acknowledge" THEN t ELSE alarm.acknowledged_at
  /\ u.acknowledged_by = IF r.type = "Acknowledge" THEN r.actor ELSE alarm.acknowledged_by
  /\ u.cleared_at = IF r.type = "Clear" THEN t ELSE alarm.cleared_at
  /\ u.closed_at = IF r.type = "Close" THEN t ELSE alarm.closed_at
  /\ u.closed_by = IF r.type = "Close" THEN r.actor ELSE alarm.closed_by

LEMMA UpdatedFields ==
  ASSUME alarm \in Alarm, NEW r \in Request, NEW t \in Times
  PROVE  UpdatedAs(Updated(r, t), r, t)
<1>1. r.type \in TransitionTypes /\ r.actor \in Actors \cup {NoActor}
  BY DEF Request
<1>2. TargetState(r.type) \in States
  BY <1>1, TableTypes
<1>3. CASE r.type = "Reactivate"
  <2>1. Stamped(r, t) = [alarm EXCEPT !.activated_at = t, !.occurrence_count = @ + 1]
    BY <1>3 DEF Stamped
  <2>2. alarm.occurrence_count + 1 \in Nat
    BY DEF Alarm
  <2>3. Updated(r, t) = [[alarm EXCEPT !.activated_at = t,
                                      !.occurrence_count = alarm.occurrence_count + 1]
                           EXCEPT !.state = TargetState(r.type)]
    BY <2>1 DEF Updated
  <2> DEFINE k == alarm.occurrence_count + 1
             u == Updated(r, t)
  <2> HIDE DEF k, u
  <2>4. k \in Nat /\ u = [[alarm EXCEPT !.activated_at = t, !.occurrence_count = k]
                            EXCEPT !.state = TargetState(r.type)]
    BY <2>2, <2>3 DEF k, u
  <2>5. u.occurrence_count = k /\ u.state = TargetState(r.type)
    BY <1>2, <2>4 DEF Alarm
  <2>6. UpdatedAs(u, r, t)
    BY <1>2, <1>3, <2>4, <2>5 DEF UpdatedAs, Activating, Alarm, k
  <2>7. QED
    BY <2>6 DEF u
<1>4. CASE r.type \in Activating \ {"Reactivate"}
  BY <1>2, <1>4 DEF UpdatedAs, Updated, Stamped, Activating, Alarm
<1>5. CASE r.type = "Acknowledge"
  BY <1>1, <1>2, <1>5 DEF UpdatedAs, Updated, Stamped, Activating, Alarm
<1>6. CASE r.type = "Clear"
  BY <1>2, <1>6 DEF UpdatedAs, Updated, Stamped, Activating, Alarm
<1>7. CASE r.type = "Close"
  BY <1>1, <1>2, <1>7 DEF UpdatedAs, Updated, Stamped, Activating, Alarm
<1>8. CASE r.type \in {"Shelve", "Suppress"}
  BY <1>2, <1>8 DEF UpdatedAs, Updated, Stamped, Activating, Alarm
<1>9. \/ r.type = "Reactivate" \/ r.type \in Activating \ {"Reactivate"}
      \/ r.type = "Acknowledge" \/ r.type = "Clear" \/ r.type = "Close"
      \/ r.type \in {"Shelve", "Suppress"}
  BY <1>1 DEF TransitionTypes, Activating
<1>10. QED
  BY <1>3, <1>4, <1>5, <1>6, <1>7, <1>8, <1>9

(* Every field of the record and of the history keeps its type. *)
THEOREM TypeCorrect == Spec => []TypeOK
<1>1. Init => TypeOK
  BY DEF Init, TypeOK, MakeAlarmRecord, Alarm, States
<1>2. TypeOK /\ [Next]_vars => TypeOK'
  <2> SUFFICES ASSUME TypeOK, [Next]_vars PROVE TypeOK'
    OBVIOUS
  <2>1. ASSUME NEW r \in Request, Succeed(r) PROVE TypeOK'
    <3>1. PICK t \in TransitionTimestamps(r) :
            /\ alarm' = Updated(r, t)
            /\ transitions' = Append(transitions, TransitionRecord(r, t))
      BY <2>1 DEF Succeed
    <3>2. t \in Times
      BY TimestampIsTime
    <3>3. alarm' \in Alarm
      BY <3>1, <3>2, UpdatedFields DEF TypeOK, UpdatedAs
    <3>4. TransitionRecord(r, t) \in Transition
      <4>1. r.type \in TransitionTypes /\ r.actor \in Actors \cup {NoActor}
        BY DEF Request
      <4>2. TargetState(r.type) \in States /\ alarm.state \in States
        BY <4>1, TableTypes DEF TypeOK, Alarm
      <4>3. QED
        BY <3>2, <4>1, <4>2 DEF TransitionRecord, Transition
    <3>5. transitions' \in Seq(Transition)
      BY <3>1, <3>4, AppendFacts DEF TypeOK
    <3>6. QED
      BY <3>3, <3>5 DEF TypeOK
  <2>2. CASE UNCHANGED vars
    BY <2>2 DEF vars, TypeOK
  <2>3. QED
    BY <2>1, <2>2 DEF Next, ApplyAlarmTransition, RejectClosed, RejectActor,
                      RejectAcknowledge, RejectTransition
<1>3. QED
  BY <1>1, <1>2, PTL DEF Spec

-----------------------------------------------------------------------------
(* The inductive invariant.  HistoryIsChain ties the record's state to the *)
(* last transition; StepsFollowTable says every recorded transition is an  *)
(* edge of the table and, with the chain, that the transition before a     *)
(* Close is a Clear and that nothing follows a Close.                      *)

StepsFollowTable ==
  \A i \in Steps : /\ transitions[i].previous_state \in SourceStates(transitions[i].type)
                   /\ transitions[i].new_state = TargetState(transitions[i].type)

IInv ==
  /\ HistoryIsChain
  /\ StepsFollowTable
  /\ FieldsFollowHistory
  /\ CloseEndsHistory
  /\ AcknowledgedOnlyIfRequired

(* What an accepted transition adds. *)
LEMMA SucceedFacts ==
  ASSUME TypeOK, NEW r \in Request, Succeed(r)
  PROVE  \E t \in Times :
           /\ alarm' = Updated(r, t)
           /\ Len(transitions) \in Nat
           /\ Len(transitions') = Len(transitions) + 1
           /\ \A i \in Steps : transitions'[i] = transitions[i]
           /\ transitions'[Len(transitions) + 1] = TransitionRecord(r, t)
           /\ alarm.state \in SourceStates(r.type)
           /\ alarm.state # "Closed"
           /\ r.type = "Acknowledge" => alarm.requires_acknowledgement
<1>1. PICK t \in TransitionTimestamps(r) :
        /\ alarm' = Updated(r, t)
        /\ transitions' = Append(transitions, TransitionRecord(r, t))
  BY DEF Succeed
<1>2. t \in Times
  BY TimestampIsTime
<1>3. TransitionRecord(r, t) \in Transition
  <2>1. r.type \in TransitionTypes /\ r.actor \in Actors \cup {NoActor}
    BY DEF Request
  <2>2. TargetState(r.type) \in States /\ alarm.state \in States
    BY <2>1, TableTypes DEF TypeOK, Alarm
  <2>3. QED
    BY <1>2, <2>1, <2>2 DEF TransitionRecord, Transition
<1>4. /\ Len(transitions) \in Nat /\ Len(transitions') = Len(transitions) + 1
      /\ \A i \in Steps : transitions'[i] = transitions[i]
      /\ transitions'[Len(transitions) + 1] = TransitionRecord(r, t)
  BY <1>1, <1>3, AppendFacts DEF TypeOK, Steps
<1>5. /\ alarm.state \in SourceStates(r.type) /\ alarm.state # "Closed"
      /\ r.type = "Acknowledge" => alarm.requires_acknowledgement
  BY DEF Succeed, Allowed, Closed, NotRequired
<1>6. QED
  BY <1>1, <1>2, <1>4, <1>5

(* The latest step of some types, before and after a transition of type x  *)
(* is added as step n + 1.                                                 *)
LEMMA LatestAfterAppend ==
  ASSUME NEW types, NEW n \in Nat, n = Len(transitions), Len(transitions') = n + 1,
         \A i \in Steps : transitions'[i] = transitions[i]
  PROVE  /\ transitions'[n + 1].type \in types => IsLatest(n + 1, types)'
         /\ transitions'[n + 1].type \notin types =>
              \A i \in Steps : IsLatest(i, types) => IsLatest(i, types)'
         /\ transitions'[n + 1].type \notin types /\ StepsOf(types) = {} => StepsOf(types)' = {}
         /\ StepsOf(types)' \subseteq StepsOf(types) \cup {n + 1}
         /\ Steps' = Steps \cup {n + 1}
<1>1. Steps' = Steps \cup {n + 1} /\ n + 1 \notin Steps
  BY DEF Steps
<1>2. StepsOf(types)' = {i \in Steps' : transitions'[i].type \in types}
  BY DEF StepsOf
<1>3. \A i \in Steps : i \in StepsOf(types)' <=> i \in StepsOf(types)
  BY <1>1, <1>2 DEF StepsOf
<1>4. StepsOf(types)' \subseteq StepsOf(types) \cup {n + 1}
  BY <1>1, <1>2, <1>3
<1>5. transitions'[n + 1].type \notin types => StepsOf(types)' \subseteq StepsOf(types)
  BY <1>1, <1>2, <1>3
<1>6. \A i \in Steps : i <= n + 1
  BY DEF Steps
<1>7. transitions'[n + 1].type \in types => IsLatest(n + 1, types)'
  BY <1>1, <1>2, <1>4, <1>6 DEF IsLatest, StepsOf
<1>8. transitions'[n + 1].type \notin types =>
        \A i \in Steps : IsLatest(i, types) => IsLatest(i, types)'
  BY <1>3, <1>5 DEF IsLatest
<1>9. QED
  BY <1>1, <1>4, <1>5, <1>7, <1>8

(* A field that only transitions of some types set equals the value the    *)
(* latest of them gave it, before and after another transition.            *)
FieldIs(types, value, default) ==
  \/ StepsOf(types) = {} /\ value = default
  \/ \E i \in Steps : IsLatest(i, types) /\ value = transitions[i].timestamp

LEMMA FieldAfterAppend ==
  ASSUME NEW types, NEW n \in Nat, n = Len(transitions), Len(transitions') = n + 1,
         \A i \in Steps : transitions'[i] = transitions[i],
         NEW value, NEW default,
         NEW new, new = IF transitions'[n + 1].type \in types
                        THEN transitions'[n + 1].timestamp ELSE value,
         FieldIs(types, value, default)
  PROVE  FieldIs(types, new, default)'
<1>1. Steps' = Steps \cup {n + 1}
  BY LatestAfterAppend
<1>2. CASE transitions'[n + 1].type \in types
  BY <1>1, <1>2, LatestAfterAppend DEF FieldIs
<1>3. CASE transitions'[n + 1].type \notin types
  <2>1. CASE StepsOf(types) = {} /\ value = default
    BY <1>3, <2>1, LatestAfterAppend DEF FieldIs
  <2>2. CASE \E i \in Steps : IsLatest(i, types) /\ value = transitions[i].timestamp
    <3>1. PICK i \in Steps : IsLatest(i, types) /\ value = transitions[i].timestamp
      BY <2>2
    <3>2. IsLatest(i, types)' /\ i \in Steps' /\ new = transitions'[i].timestamp
      BY <1>1, <1>3, <3>1, LatestAfterAppend
    <3>3. QED
      BY <3>2 DEF FieldIs
  <2>3. QED
    BY <2>1, <2>2 DEF FieldIs
<1>4. QED
  BY <1>2, <1>3

(* One accepted transition preserves every conjunct. *)
LEMMA SucceedPreserves ==
  ASSUME TypeOK, IInv, NEW r \in Request, Succeed(r)
  PROVE  IInv'
<1>0. PICK n \in Nat : n = Len(transitions)
  BY DEF TypeOK
<1>1. PICK t \in Times :
        /\ alarm' = Updated(r, t)
        /\ n \in Nat
        /\ Len(transitions') = n + 1
        /\ \A i \in Steps : transitions'[i] = transitions[i]
        /\ transitions'[n + 1] = TransitionRecord(r, t)
        /\ alarm.state \in SourceStates(r.type)
        /\ alarm.state # "Closed"
        /\ r.type = "Acknowledge" => alarm.requires_acknowledgement
  BY <1>0, SucceedFacts
<1>2. /\ transitions'[n + 1].type = r.type
      /\ transitions'[n + 1].previous_state = alarm.state
      /\ transitions'[n + 1].new_state = TargetState(r.type)
      /\ transitions'[n + 1].timestamp = t
      /\ transitions'[n + 1].actor = r.actor
  BY <1>1 DEF TransitionRecord
<1>3. /\ alarm'.state = TargetState(r.type)
      /\ alarm'.requires_acknowledgement = alarm.requires_acknowledgement
      /\ alarm'.created_at = alarm.created_at
      /\ alarm'.activated_at = IF r.type \in Activating THEN t ELSE alarm.activated_at
      /\ alarm'.acknowledged_at = IF r.type = "Acknowledge" THEN t ELSE alarm.acknowledged_at
      /\ alarm'.acknowledged_by =
           IF r.type = "Acknowledge" THEN r.actor ELSE alarm.acknowledged_by
      /\ alarm'.cleared_at = IF r.type = "Clear" THEN t ELSE alarm.cleared_at
      /\ alarm'.closed_at = IF r.type = "Close" THEN t ELSE alarm.closed_at
      /\ alarm'.closed_by = IF r.type = "Close" THEN r.actor ELSE alarm.closed_by
  BY <1>1, UpdatedFields DEF TypeOK, UpdatedAs
<1>4. /\ Steps' = Steps \cup {n + 1} /\ n + 1 \notin Steps
      /\ \A i \in Steps : i \in 1..n /\ transitions'[i] = transitions[i]
  BY <1>0, <1>1 DEF Steps
<1>5. transitions # <<>> <=> n >= 1
  BY <1>0 DEF TypeOK
<1>6. r.type \in TransitionTypes
  BY DEF Request
<1>7. HistoryIsChain'
  <2>1. transitions' # <<>>
    BY <1>1
  <2>2. transitions'[Len(transitions')].new_state = alarm'.state
    BY <1>1, <1>2, <1>3
  <2>3. transitions'[1].previous_state = "New"
    <3>1. CASE n = 0
      BY <1>1, <1>2, <1>5, <3>1 DEF IInv, HistoryIsChain
    <3>2. CASE n >= 1
      <4>1. 1 \in Steps
        BY <1>0, <1>1, <3>2 DEF Steps
      <4>2. transitions'[1] = transitions[1]
        BY <1>1, <4>1
      <4>3. QED
        BY <1>5, <3>2, <4>2 DEF IInv, HistoryIsChain
    <3>3. QED
      BY <1>1, <3>1, <3>2
  <2>4. ASSUME NEW i \in Steps', i > 1
        PROVE  transitions'[i].previous_state = transitions'[i - 1].new_state
    <3>1. CASE i = n + 1
      <4>1. n \in Steps /\ n >= 1
        BY <1>0, <1>1, <2>4, <3>1 DEF Steps
      <4>2. transitions'[n] = transitions[n] /\ transitions[n].new_state = alarm.state
        BY <1>0, <1>1, <1>5, <4>1 DEF IInv, HistoryIsChain
      <4>3. i - 1 = n
        BY <1>1, <3>1
      <4>4. QED
        BY <1>2, <3>1, <4>2, <4>3
    <3>2. CASE i \in Steps
      <4>1. i - 1 \in Steps
        BY <2>4, <3>2 DEF Steps
      <4>2. transitions'[i] = transitions[i] /\ transitions'[i - 1] = transitions[i - 1]
        BY <1>1, <3>2, <4>1
      <4>3. transitions[i].previous_state = transitions[i - 1].new_state
        BY <2>4, <3>2 DEF IInv, HistoryIsChain
      <4>4. QED
        BY <4>2, <4>3
    <3>3. QED
      BY <1>4, <3>1, <3>2
  <2>5. QED
    BY <2>1, <2>2, <2>3, <2>4 DEF HistoryIsChain
<1>8. StepsFollowTable'
  <2>1. ASSUME NEW i \in Steps'
        PROVE  /\ transitions'[i].previous_state \in SourceStates(transitions'[i].type)
               /\ transitions'[i].new_state = TargetState(transitions'[i].type)
    <3>1. CASE i = n + 1
      BY <1>1, <1>2, <3>1
    <3>2. CASE i \in Steps
      <4>1. transitions'[i] = transitions[i]
        BY <1>1, <3>2
      <4>2. QED
        BY <3>2, <4>1 DEF IInv, StepsFollowTable
    <3>3. QED
      BY <1>4, <3>1, <3>2
  <2>2. QED
    BY <2>1 DEF StepsFollowTable
<1>9. FieldsFollowHistory'
  <2>0. n = Len(transitions) /\ n \in Nat /\ Len(transitions') = n + 1
    BY <1>0, <1>1
  <2>u. \A i \in Steps : transitions'[i] = transitions[i]
    BY <1>1
  <2>1. \/ StepsOf(Activating)' = {} /\ alarm'.activated_at = alarm.created_at
        \/ \E i \in Steps' : /\ IsLatest(i, Activating)'
                             /\ alarm'.activated_at = transitions'[i].timestamp
    <3>1. PICK old, new, default :
            old = alarm.activated_at /\ new = alarm'.activated_at /\ default = alarm.created_at
      OBVIOUS
    <3>2. FieldIs(Activating, old, default)
      BY <3>1 DEF IInv, FieldsFollowHistory, FieldIs
    <3>3. new = IF transitions'[n + 1].type \in Activating
                THEN transitions'[n + 1].timestamp ELSE old
      BY <1>2, <1>3, <3>1
    <3>4. FieldIs(Activating, new, default)'
      BY <2>0, <2>u, <3>2, <3>3, FieldAfterAppend
    <3>5. QED
      BY <3>1, <3>4 DEF FieldIs
  <2>2. \/ StepsOf({"Clear"})' = {} /\ alarm'.cleared_at = NoTime
        \/ \E i \in Steps' : /\ IsLatest(i, {"Clear"})'
                             /\ alarm'.cleared_at = transitions'[i].timestamp
    <3>1. PICK old, new, default :
            old = alarm.cleared_at /\ new = alarm'.cleared_at /\ default = NoTime
      OBVIOUS
    <3>2. FieldIs({"Clear"}, old, default)
      BY <3>1 DEF IInv, FieldsFollowHistory, FieldIs
    <3>3. new = IF transitions'[n + 1].type \in {"Clear"}
                THEN transitions'[n + 1].timestamp ELSE old
      BY <1>2, <1>3, <3>1
    <3>4. FieldIs({"Clear"}, new, default)'
      BY <2>0, <2>u, <3>2, <3>3, FieldAfterAppend
    <3>5. QED
      BY <3>1, <3>4 DEF FieldIs
  <2>3. \/ /\ StepsOf({"Acknowledge"})' = {}
           /\ alarm'.acknowledged_at = NoTime /\ alarm'.acknowledged_by = NoActor
        \/ \E i \in Steps' : /\ IsLatest(i, {"Acknowledge"})'
                             /\ alarm'.acknowledged_at = transitions'[i].timestamp
                             /\ alarm'.acknowledged_by = transitions'[i].actor
    <3>1. CASE r.type = "Acknowledge"
      <4>1. transitions'[n + 1].type \in {"Acknowledge"} /\ n + 1 \in Steps'
        BY <1>2, <1>4, <3>1
      <4>2. IsLatest(n + 1, {"Acknowledge"})'
        BY <2>u, <2>0, <4>1, LatestAfterAppend
      <4>3. /\ alarm'.acknowledged_at = transitions'[n + 1].timestamp
            /\ alarm'.acknowledged_by = transitions'[n + 1].actor
        BY <1>2, <1>3, <3>1
      <4>4. QED
        BY <4>1, <4>2, <4>3
    <3>2. CASE r.type # "Acknowledge"
      <4>1. /\ alarm'.acknowledged_at = alarm.acknowledged_at
            /\ alarm'.acknowledged_by = alarm.acknowledged_by
        BY <1>3, <3>2
      <4>2. transitions'[n + 1].type \notin {"Acknowledge"}
        BY <1>2, <3>2
      <4>3. CASE /\ StepsOf({"Acknowledge"}) = {}
                 /\ alarm.acknowledged_at = NoTime /\ alarm.acknowledged_by = NoActor
        BY <1>1, <2>0, <4>1, <4>2, <4>3, LatestAfterAppend
      <4>4. CASE \E i \in Steps : /\ IsLatest(i, {"Acknowledge"})
                                  /\ alarm.acknowledged_at = transitions[i].timestamp
                                  /\ alarm.acknowledged_by = transitions[i].actor
        <5>1. PICK i \in Steps : /\ IsLatest(i, {"Acknowledge"})
                                 /\ alarm.acknowledged_at = transitions[i].timestamp
                                 /\ alarm.acknowledged_by = transitions[i].actor
          BY <4>4
        <5>2. IsLatest(i, {"Acknowledge"})' /\ i \in Steps' /\ transitions'[i] = transitions[i]
          BY <1>1, <2>0, <4>2, <5>1, LatestAfterAppend
        <5>3. QED
          BY <4>1, <5>1, <5>2
      <4>5. QED
        BY <4>3, <4>4 DEF IInv, FieldsFollowHistory
    <3>3. QED
      BY <3>1, <3>2
  <2>4. QED
    BY <1>3, <2>1, <2>2, <2>3 DEF FieldsFollowHistory
<1>10. StepsOf({"Close"}) = {}
  <2>1. ASSUME NEW i \in StepsOf({"Close"}) PROVE FALSE
    <3>1. i \in Steps /\ i = Len(transitions) /\ transitions[i].type = "Close"
      BY <2>1 DEF IInv, CloseEndsHistory, StepsOf
    <3>2. transitions[i].new_state = "Closed"
      BY <3>1 DEF IInv, StepsFollowTable, TargetState, Activating
    <3>3. transitions # <<>>
      BY <3>1 DEF Steps, TypeOK
    <3>4. alarm.state = "Closed"
      BY <3>1, <3>2, <3>3 DEF IInv, HistoryIsChain
    <3>5. QED
      BY <1>1, <3>4
  <2>2. QED
    BY <2>1
<1>11. CloseEndsHistory'
  <2>0. n = Len(transitions) /\ n \in Nat /\ Len(transitions') = n + 1
    BY <1>0, <1>1
  <2>1. StepsOf({"Close"})' \subseteq {n + 1}
    BY <1>1, <1>10, <2>0, LatestAfterAppend
  <2>2. CASE r.type = "Close"
    <3>1. alarm.state = "Cleared"
      BY <1>1, <2>2 DEF SourceStates
    <3>2. n >= 1
      BY <1>5, <3>1, <1>1 DEF IInv, HistoryIsChain
    <3>3. n \in Steps /\ transitions[n].new_state = "Cleared"
      BY <1>5, <2>0, <3>1, <3>2 DEF IInv, HistoryIsChain, Steps
    <3>4. transitions[n].type \in TransitionTypes
      <4>1. transitions[n] \in Transition
        BY <2>0, <3>3 DEF TypeOK, Steps
      <4>2. QED
        BY <4>1 DEF Transition
    <3>5. transitions[n].type = "Clear"
      BY <3>3, <3>4 DEF IInv, StepsFollowTable, TargetState, Activating, TransitionTypes
    <3>6. \E i \in Steps : IsLatest(i, {"Clear"}) /\ alarm.cleared_at = transitions[i].timestamp
      <4>1. n \in StepsOf({"Clear"})
        BY <3>3, <3>5 DEF StepsOf
      <4>2. QED
        BY <4>1 DEF IInv, FieldsFollowHistory
    <3>7. alarm.cleared_at = transitions[n].timestamp
      <4>1. PICK i \in Steps : IsLatest(i, {"Clear"}) /\ alarm.cleared_at = transitions[i].timestamp
        BY <3>6
      <4>2. n \in StepsOf({"Clear"})
        BY <3>3, <3>5 DEF StepsOf
      <4>3. n <= i /\ i \in 1..n
        BY <1>4, <4>1, <4>2 DEF IsLatest
      <4>4. i = n
        BY <2>0, <4>3
      <4>5. QED
        BY <4>1, <4>4
    <3>8. transitions'[n] = transitions[n] /\ (n + 1) - 1 = n /\ n + 1 > 1
      BY <1>1, <2>0, <3>2, <3>3
    <3>9. /\ alarm'.closed_at = t /\ alarm'.closed_by = r.actor
          /\ alarm'.cleared_at = alarm.cleared_at
      BY <1>3, <2>2
    <3>10. ASSUME NEW i \in StepsOf({"Close"})'
           PROVE  /\ i = Len(transitions') /\ i > 1
                  /\ transitions'[i - 1].type = "Clear"
                  /\ alarm'.closed_at = transitions'[i].timestamp
                  /\ alarm'.closed_by = transitions'[i].actor
                  /\ alarm'.cleared_at = transitions'[i - 1].timestamp
      <4>1. i = n + 1
        BY <2>1
      <4>2. QED
        BY <1>2, <2>0, <3>5, <3>7, <3>8, <3>9, <4>1
    <3>11. n + 1 \in StepsOf({"Close"})'
      BY <1>2, <1>4, <2>2 DEF StepsOf
    <3>12. QED
      BY <3>10, <3>11 DEF CloseEndsHistory
  <2>3. CASE r.type # "Close"
    <3>1. StepsOf({"Close"})' = {}
      BY <1>1, <1>2, <1>10, <2>0, <2>3, LatestAfterAppend
    <3>2. alarm'.state # "Closed"
      BY <1>3, <1>6, <2>3 DEF TargetState, Activating, TransitionTypes
    <3>3. alarm'.closed_at = NoTime
      BY <1>3, <1>10, <2>3 DEF IInv, CloseEndsHistory
    <3>4. QED
      BY <3>1, <3>2, <3>3 DEF CloseEndsHistory, Closed
  <2>4. QED
    BY <2>2, <2>3
<1>12. AcknowledgedOnlyIfRequired'
  <2>0. n = Len(transitions) /\ n \in Nat /\ Len(transitions') = n + 1
    BY <1>0, <1>1
  <2>1. ASSUME ~alarm.requires_acknowledgement
        PROVE  StepsOf({"Acknowledge"})' = {} /\ alarm'.acknowledged_by = NoActor
    <3>1. r.type # "Acknowledge"
      BY <1>1, <2>1
    <3>2. StepsOf({"Acknowledge"}) = {} /\ alarm.acknowledged_by = NoActor
      BY <2>1 DEF IInv, AcknowledgedOnlyIfRequired
    <3>3. StepsOf({"Acknowledge"})' = {}
      BY <1>1, <1>2, <2>0, <3>1, <3>2, LatestAfterAppend
    <3>4. QED
      BY <1>3, <3>1, <3>2, <3>3
  <2>2. QED
    BY <1>3, <2>1 DEF AcknowledgedOnlyIfRequired
<1>13. QED
  BY <1>7, <1>8, <1>9, <1>11, <1>12 DEF IInv

(* The inductive invariant, and with it each conjunct, holds in every state. *)
THEOREM Safety == Spec => []IInv
<1>1. Init => IInv
  <2> SUFFICES ASSUME Init PROVE IInv
    OBVIOUS
  <2>1. PICK now \in Times, required \in BOOLEAN : alarm = MakeAlarmRecord(now, required)
    BY DEF Init
  <2>2. /\ alarm.state = "New" /\ alarm.activated_at = alarm.created_at
        /\ alarm.acknowledged_at = NoTime /\ alarm.acknowledged_by = NoActor
        /\ alarm.cleared_at = NoTime /\ alarm.closed_at = NoTime
    BY <2>1 DEF MakeAlarmRecord
  <2>3. Steps = {} /\ transitions = <<>>
    BY DEF Init, Steps
  <2>4. \A types : StepsOf(types) = {}
    BY <2>3 DEF StepsOf
  <2>5. HistoryIsChain /\ StepsFollowTable
    BY <2>2, <2>3 DEF HistoryIsChain, StepsFollowTable
  <2>6. FieldsFollowHistory
    BY <2>2, <2>4 DEF FieldsFollowHistory
  <2>7. CloseEndsHistory /\ AcknowledgedOnlyIfRequired
    BY <2>2, <2>4 DEF CloseEndsHistory, AcknowledgedOnlyIfRequired, Closed
  <2>8. QED
    BY <2>5, <2>6, <2>7 DEF IInv
<1>2. TypeOK /\ IInv /\ [Next]_vars => IInv'
  <2>1. ASSUME TypeOK, IInv, NEW r \in Request, Succeed(r) PROVE IInv'
    BY <2>1, SucceedPreserves
  <2>2. ASSUME IInv, UNCHANGED vars PROVE IInv'
    BY <2>2 DEF vars, IInv, HistoryIsChain, StepsFollowTable, FieldsFollowHistory,
                CloseEndsHistory, AcknowledgedOnlyIfRequired, Steps, StepsOf, IsLatest, Closed
  <2>3. QED
    BY <2>1, <2>2 DEF Next, ApplyAlarmTransition, RejectClosed, RejectActor,
                      RejectAcknowledge, RejectTransition
<1>3. QED
  BY <1>1, <1>2, TypeCorrect, PTL DEF Spec

(* The stored history is a chain that ends in the record's state. *)
THEOREM ChainTheorem == Spec => []HistoryIsChain
<1>1. IInv => HistoryIsChain
  BY DEF IInv
<1>2. QED
  BY <1>1, Safety, PTL

(* The record's times and names are those of the latest transitions. *)
THEOREM FieldsTheorem == Spec => []FieldsFollowHistory
<1>1. IInv => FieldsFollowHistory
  BY DEF IInv
<1>2. QED
  BY <1>1, Safety, PTL

(* A close follows a clear, and nothing follows a close. *)
THEOREM CloseTheorem == Spec => []CloseEndsHistory
<1>1. IInv => CloseEndsHistory
  BY DEF IInv
<1>2. QED
  BY <1>1, Safety, PTL

(* An alarm that requires no acknowledgement never carries one. *)
THEOREM AcknowledgeTheorem == Spec => []AcknowledgedOnlyIfRequired
<1>1. IInv => AcknowledgedOnlyIfRequired
  BY DEF IInv
<1>2. QED
  BY <1>1, Safety, PTL

(* A closed alarm never changes, and no change goes unrecorded. *)
THEOREM ChangesTheorem == Spec => ChangesAreRecorded
<1>1. ASSUME TypeOK, [Next]_vars
      PROVE  [/\ Closed => UNCHANGED alarm
              /\ alarm' # alarm => Len(transitions') = Len(transitions) + 1]_vars
  <2>1. ASSUME NEW r \in Request, Succeed(r)
        PROVE  ~Closed /\ Len(transitions') = Len(transitions) + 1
    BY <1>1, <2>1, SucceedFacts DEF Closed
  <2>2. QED
    BY <1>1, <2>1 DEF Next, ApplyAlarmTransition, RejectClosed, RejectActor,
                      RejectAcknowledge, RejectTransition
<1>2. QED
  BY <1>1, TypeCorrect, PTL DEF Spec, ChangesAreRecorded

-----------------------------------------------------------------------------
(* Occurrences.  The property is inductive by itself: the clears are       *)
(* counted by the cardinality of a set of steps, which an accepted         *)
(* transition leaves alone or extends by the new step.                     *)

LEMMA ClearsAreFinite ==
  ASSUME TypeOK
  PROVE  IsFiniteSet(StepsOf({"Clear"})) /\ Cardinality(StepsOf({"Clear"})) \in Nat
<1>1. Len(transitions) \in Int
  BY DEF TypeOK
<1>2. IsFiniteSet(Steps)
  BY <1>1, FS_Interval DEF Steps
<1>3. StepsOf({"Clear"}) \in SUBSET Steps
  BY DEF StepsOf
<1>4. IsFiniteSet(StepsOf({"Clear"}))
  BY <1>2, <1>3, FS_Subset
<1>5. QED
  BY <1>4, FS_CardinalityType

LEMMA SucceedCountsOccurrences ==
  ASSUME TypeOK, OccurrencesAreEpisodes, NEW r \in Request, Succeed(r)
  PROVE  OccurrencesAreEpisodes'
<1> DEFINE clears == StepsOf({"Clear"})
           over == alarm.state \in {"Cleared", "Closed"}
           k == alarm.occurrence_count
<1>0. PICK n \in Nat : n = Len(transitions)
  BY DEF TypeOK
<1>1. PICK t \in Times :
        /\ alarm' = Updated(r, t)
        /\ Len(transitions') = n + 1
        /\ \A i \in Steps : transitions'[i] = transitions[i]
        /\ transitions'[n + 1] = TransitionRecord(r, t)
        /\ alarm.state \in SourceStates(r.type)
  BY <1>0, SucceedFacts
<1>2. transitions'[n + 1].type = r.type /\ r.type \in TransitionTypes
  BY <1>1 DEF TransitionRecord, Request
<1>3. /\ alarm'.state = TargetState(r.type)
      /\ alarm'.occurrence_count = IF r.type = "Reactivate" THEN k + 1 ELSE k
  BY <1>1, UpdatedFields DEF TypeOK, UpdatedAs
<1>4. /\ Steps' = Steps \cup {n + 1} /\ n + 1 \notin Steps
  BY <1>0, <1>1 DEF Steps
<1>5. clears' = IF r.type = "Clear" THEN clears \cup {n + 1} ELSE clears
  BY <1>1, <1>2, <1>4 DEF StepsOf
<1>6. n + 1 \notin clears
  BY <1>4 DEF StepsOf
<1>7. IsFiniteSet(clears) /\ Cardinality(clears) \in Nat /\ k \in Nat
  BY ClearsAreFinite DEF TypeOK, Alarm
<1>8. Cardinality(clears) = k - (IF over THEN 0 ELSE 1)
  BY DEF OccurrencesAreEpisodes
<1> HIDE DEF clears, k
<1>9. Cardinality(clears') = IF r.type = "Clear" THEN Cardinality(clears) + 1
                                                 ELSE Cardinality(clears)
  <2>1. Cardinality(clears \cup {n + 1}) = Cardinality(clears) + 1
    BY <1>6, <1>7, FS_AddElement
  <2>2. QED
    BY <1>5, <2>1
<1>10. /\ r.type = "Clear" => ~over /\ over'
       /\ r.type = "Reactivate" => over /\ ~over'
       /\ r.type \notin {"Clear", "Reactivate"} => over' = over
  BY <1>1, <1>2, <1>3 DEF TransitionTypes, SourceStates, TargetState, Activating, IsActive
<1> HIDE DEF over
<1>11. Cardinality(clears') = alarm'.occurrence_count - (IF over' THEN 0 ELSE 1)
  BY <1>3, <1>7, <1>8, <1>9, <1>10
<1>12. QED
  BY <1>11 DEF OccurrencesAreEpisodes, clears, over

(* An alarm has been cleared once per completed occurrence. *)
THEOREM OccurrencesTheorem == Spec => []OccurrencesAreEpisodes
<1>1. Init => OccurrencesAreEpisodes
  <2> SUFFICES ASSUME Init PROVE OccurrencesAreEpisodes
    OBVIOUS
  <2>1. alarm.state = "New" /\ alarm.occurrence_count = 1
    BY DEF Init, MakeAlarmRecord
  <2>2. StepsOf({"Clear"}) = {}
    BY DEF Init, Steps, StepsOf
  <2>3. QED
    BY <2>1, <2>2, FS_EmptySet DEF OccurrencesAreEpisodes
<1>2. TypeOK /\ OccurrencesAreEpisodes /\ [Next]_vars => OccurrencesAreEpisodes'
  <2>1. ASSUME TypeOK, OccurrencesAreEpisodes, NEW r \in Request, Succeed(r)
        PROVE  OccurrencesAreEpisodes'
    BY <2>1, SucceedCountsOccurrences
  <2>2. ASSUME OccurrencesAreEpisodes, UNCHANGED vars PROVE OccurrencesAreEpisodes'
    BY <2>2 DEF vars, OccurrencesAreEpisodes, StepsOf, Steps
  <2>3. QED
    BY <2>1, <2>2 DEF Next, ApplyAlarmTransition, RejectClosed, RejectActor,
                      RejectAcknowledge, RejectTransition
<1>3. QED
  BY <1>1, <1>2, TypeCorrect, PTL DEF Spec
=============================================================================
