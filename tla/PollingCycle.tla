----------------------------- MODULE PollingCycle -----------------------------
(***************************************************************************)
(* One execution of a polling group: PollingScheduler::execute_group_once  *)
(* of scada_polling, over the driver registry and the simulator driver of  *)
(* scada_protocols.                                                        *)
(*                                                                         *)
(* Pollers are callers of execute_group_once.  A call is synchronous, but  *)
(* the scheduler is const, the registry hands out shared_ptr copies and    *)
(* the simulator counts its reads in an atomic: calls may overlap, and the *)
(* registry may change between the lookup of a driver and its reads.  The  *)
(* registry itself has no lock, so that its operations and lookups exclude *)
(* one another is the caller's duty and assumed here.                      *)
(*                                                                         *)
(* A step is one call into the registry or the driver, with the local work *)
(* around it.  A driver is the simulator or external: of an implementation *)
(* of IProtocolDriver outside the repository only the signature is known,  *)
(* so that it may fail any read and answer a batch with any number of      *)
(* items.  What a group requires apart from its tasks (identity, timing)   *)
(* is in its flag `ready', what a task requires apart from its address in  *)
(* `is_enabled'.  Qualities, latencies and messages follow `success'.      *)
(***************************************************************************)
EXTENDS Integers, Sequences, FiniteSets

CONSTANTS
  Pollers,       \* callers of execute_group_once
  Protocols,     \* the values of DeviceProtocol that occur
  Simulators,    \* instances of SimulatorProtocolDriver
  Externals,     \* instances of other drivers
  ExternalProtocol,      \* [Externals -> Protocols]: their protocol()
  ExternalBatchSize,     \* [Externals -> Nat]: max_batch_size, 0 without batch read
  Default,       \* the simulator of create_default_protocol_driver_registry
  Group,         \* the polling groups, by their id
  Options,       \* the PollingSchedulerOptions calls are made with
  MaxCycles      \* bound: executions of one poller

Drivers == Simulators \cup Externals
NoDriver == "nullptr"
NoGroup == "none"

Tasks == [tag : STRING, is_enabled : BOOLEAN, has_address : BOOLEAN]
PollingGroup == [protocol : Protocols, mode : {"Sequential", "Batch"}, max_batch_size : Nat,
                 ready : BOOLEAN, tasks : Seq(Tasks)]
PollingSchedulerOptions ==
  [allow_batch_read : BOOLEAN, check_connection_before_polling : BOOLEAN]

ASSUME DriverAssumption ==
  /\ "Simulator" \in Protocols /\ Default \in Simulators
  /\ Simulators \cap Externals = {} /\ NoDriver \notin Drivers
  /\ ExternalProtocol \in [Externals -> Protocols]
  /\ ExternalBatchSize \in [Externals -> Nat]
ASSUME GroupAssumption ==
  /\ NoGroup \notin DOMAIN Group
  /\ \A id \in DOMAIN Group : Group[id] \in PollingGroup
ASSUME BoundAssumption == MaxCycles \in Nat /\ Options \subseteq PollingSchedulerOptions

VARIABLES
  drivers,        \* drivers_ of the registry
  read_counter,   \* read_counter_ of every simulator
  cycle,          \* the current or last execution of every poller: its locals
  cycles          \* bound: executions begun by every poller

vars == <<drivers, read_counter, cycle, cycles>>

Statuses == {"NotStarted", "Skipped", "Succeeded", "Failed", "PartialSuccess"}

(* `items' are the driver's answers; `read' in a task's result is history:  *)
(* the answer it was made from, of which the code keeps success and quality *)
Cycle(at, group, connection, options, driver) ==
  [at |-> at, group |-> group, connection |-> connection, options |-> options,
   driver |-> driver, tasks |-> <<>>, request |-> <<>>, items |-> <<>>,
   task_results |-> <<>>, status |-> "NotStarted"]

Init ==
  /\ drivers = [protocol \in Protocols |-> IF protocol = "Simulator" THEN Default ELSE NoDriver]
  /\ read_counter = [driver \in Simulators |-> 0]
  /\ cycle = [p \in Pollers |->
                Cycle("idle", NoGroup, "Simulator",
                      [allow_batch_read |-> TRUE, check_connection_before_polling |-> FALSE],
                      NoDriver)]
  /\ cycles = [p \in Pollers |-> 0]

-----------------------------------------------------------------------------
(* The registry *)

ProtocolOf(driver) ==
  IF driver \in Simulators THEN "Simulator" ELSE ExternalProtocol[driver]

Replaced_UnderSimulator(driver) == [drivers EXCEPT !["Simulator"] = driver]

Replaced(driver) == [drivers EXCEPT ![ProtocolOf(driver)] = driver]

(* A protocol that has a driver keeps it.                                  *)
RegisterDriver(driver) ==
  /\ drivers[ProtocolOf(driver)] = NoDriver
  /\ drivers' = Replaced(driver)
  /\ UNCHANGED <<read_counter, cycle, cycles>>

ReplaceDriver(driver) ==
  /\ drivers' = Replaced(driver)
  /\ UNCHANGED <<read_counter, cycle, cycles>>

UnregisterDriver(protocol) ==
  /\ drivers' = [drivers EXCEPT ![protocol] = NoDriver]
  /\ UNCHANGED <<read_counter, cycle, cycles>>

ClearDrivers ==
  /\ drivers' = [protocol \in Protocols |-> NoDriver]
  /\ UNCHANGED <<read_counter, cycle, cycles>>

-----------------------------------------------------------------------------
(* What the scheduler decides from the group and the driver's capabilities *)

IsEnabledForPolling(task) == task.is_enabled /\ task.has_address

(* enabled_tasks(), in the order of the group.                             *)
EnabledTasks(group) ==
  LET enabled[i \in 0..Len(group.tasks)] ==
        IF i = 0 THEN <<>>
        ELSE IF IsEnabledForPolling(group.tasks[i])
          THEN Append(enabled[i - 1], group.tasks[i])
          ELSE enabled[i - 1]
  IN enabled[Len(group.tasks)]

CanPoll(group) == group.ready /\ EnabledTasks(group) # <<>>

(* Zero stands for a driver without batch read.                            *)
MaxBatchSize(driver) == IF driver \in Simulators THEN 1024 ELSE ExternalBatchSize[driver]

CanUseBatch(group, driver, options) ==
  LET size == Len(EnabledTasks(group))
  IN /\ options.allow_batch_read
     /\ group.mode = "Batch" /\ size > 1
     /\ MaxBatchSize(driver) > 1
     /\ size <= group.max_batch_size /\ size <= MaxBatchSize(driver)

ProtocolMatches(group, connection) == connection = group.protocol

Request_AllTasks(group) == group.tasks

(* make_batch_read_request and the loop over make_read_request             *)
Request(group) == EnabledTasks(group)

Selected_LooksUpAgain(c) ==
  LET group == Group[c.group]
      use == CanUseBatch(group, c.driver, c.options)
  IN [c EXCEPT !.at = IF use THEN "batch" ELSE "sequence",
               !.driver = IF drivers[group.protocol] = NoDriver THEN @
                          ELSE drivers[group.protocol],
               !.tasks = EnabledTasks(group),
               !.request = Request(group)]

Selected(c) ==
  LET group == Group[c.group]
      use == CanUseBatch(group, c.driver, c.options)
  IN [c EXCEPT !.at = IF use THEN "batch" ELSE "sequence",
               !.tasks = EnabledTasks(group),
               !.request = Request(group)]

-----------------------------------------------------------------------------
(* The results of the tasks and of the group *)

Unread == [tag |-> NoGroup, success |-> FALSE, sequence |-> 0]

MakeTaskResult(task, read) ==
  [tag |-> task.tag, success |-> read.success, read |-> read]
MakeFailedTaskResult(task) ==
  [tag |-> task.tag, success |-> FALSE, read |-> Unread]

Paired(tasks, items, n) ==
  [i \in 1..n |-> IF i <= Len(items) THEN MakeTaskResult(tasks[i], items[i])
                                     ELSE MakeFailedTaskResult(tasks[i])]

TaskResults_NoPadding(tasks, items) ==
  Paired(tasks, items, IF Len(items) < Len(tasks) THEN Len(items) ELSE Len(tasks))

(* By position: items past the tasks are ignored, tasks past the items have *)
(* failed.                                                                  *)
TaskResults(tasks, items) == Paired(tasks, items, Len(tasks))

FinalizeGroupResult(results) ==
  LET succeeded == {i \in DOMAIN results : results[i].success}
  IN CASE results = <<>> -> "Skipped"
       [] succeeded = DOMAIN results -> "Succeeded"
       [] succeeded = {} -> "Failed"
       [] OTHER -> "PartialSuccess"

Finished(c) ==
  LET results == TaskResults(c.tasks, c.items)
  IN [c EXCEPT !.at = "done", !.task_results = results,
               !.status = FinalizeGroupResult(results)]

Ended(c, status) == [c EXCEPT !.at = "done", !.status = status]

AfterRead(c) == IF Len(c.items) = Len(c.request) THEN Finished(c) ELSE c

-----------------------------------------------------------------------------
(* execute_group_once: up to the first call of the driver *)

Begin(p, id, connection, options, driver, Continue(_)) ==
  /\ cycle[p].at \in {"idle", "done"} /\ cycles[p] < MaxCycles
  /\ cycles' = [cycles EXCEPT ![p] = @ + 1]
  /\ cycle' = [cycle EXCEPT ![p] =
                 Continue(Cycle("check", id, connection, options, driver))]
  /\ UNCHANGED <<drivers, read_counter>>

Skip(p, id, connection, options) ==
  LET Skipped(c) == Ended(c, "Skipped")
  IN /\ ~CanPoll(Group[id])
     /\ Begin(p, id, connection, options, NoDriver, Skipped)

Refuse(p, id, connection, options) ==
  LET Failed(c) == Ended(c, "Failed")
  IN /\ CanPoll(Group[id])
     /\ \/ ~ProtocolMatches(Group[id], connection)
        \/ drivers[Group[id].protocol] = NoDriver
     /\ Begin(p, id, connection, options, NoDriver, Failed)

Start(p, id, connection, options) ==
  LET driver == drivers[Group[id].protocol]
      Next(c) == IF options.check_connection_before_polling THEN c ELSE Selected(c)
  IN /\ CanPoll(Group[id]) /\ ProtocolMatches(Group[id], connection)
     /\ driver # NoDriver
     /\ Begin(p, id, connection, options, driver, Next)

ExecuteGroupOnce(p, id, connection, options) ==
  \/ Skip(p, id, connection, options)
  \/ Refuse(p, id, connection, options)
  \/ Start(p, id, connection, options)

(* The driver's answer to check_connection                                 *)
CheckConnection(p) ==
  LET c == cycle[p]
  IN /\ c.at = "check"
     /\ \E success \in BOOLEAN :
          /\ c.driver \in Simulators => success = (c.connection = "Simulator")
          /\ cycle' = [cycle EXCEPT ![p] = IF success THEN Selected(c) ELSE Ended(c, "Failed")]
     /\ UNCHANGED <<drivers, read_counter, cycles>>

-----------------------------------------------------------------------------
(* The reads *)

NextSequence_NotCounted(driver) == 1
NextSequence(driver) == read_counter[driver] + 1

SimulatorRead(item, connection, sequence) ==
  IF connection = "Simulator" /\ item.has_address
    THEN [tag |-> item.tag, success |-> TRUE, sequence |-> sequence]
    ELSE [tag |-> item.tag, success |-> FALSE, sequence |-> 0]

(* One read of the simulator, called by the scheduler or by read_batch,     *)
(* which answers nothing on a connection of another protocol.               *)
Read(p) ==
  LET c == cycle[p]
      item == SimulatorRead(c.request[Len(c.items) + 1], c.connection, NextSequence(c.driver))
  IN /\ c.at \in {"batch", "sequence"} /\ c.driver \in Simulators
     /\ cycle' = [cycle EXCEPT ![p] =
                    IF c.at = "batch" /\ c.connection # "Simulator"
                      THEN Finished(c)
                      ELSE AfterRead([c EXCEPT !.items = Append(@, item)])]
     /\ read_counter' = IF item.success
                          THEN [read_counter EXCEPT ![c.driver] = item.sequence]
                          ELSE read_counter
     /\ UNCHANGED <<drivers, cycles>>

Answers(c) ==
  IF c.at = "sequence"
    THEN {Append(c.items, [tag |-> c.request[Len(c.items) + 1].tag, success |-> success,
                           sequence |-> 0]) : success \in BOOLEAN}
    ELSE {[i \in DOMAIN answer |-> [tag |-> NoGroup, success |-> answer[i], sequence |-> 0]] :
            answer \in UNION {[1..n -> BOOLEAN] : n \in 0..Len(c.request) + 1}}

(* A read or a batch of an external driver                                 *)
ReadExternal(p) ==
  LET c == cycle[p]
  IN /\ c.at \in {"batch", "sequence"} /\ c.driver \in Externals
     /\ \E items \in Answers(c) :
          LET read == [c EXCEPT !.items = items]
          IN cycle' = [cycle EXCEPT ![p] =
                         IF c.at = "batch" THEN Finished(read) ELSE AfterRead(read)]
     /\ UNCHANGED <<drivers, read_counter, cycles>>

-----------------------------------------------------------------------------
ChangeRegistry ==
  \/ \E driver \in Drivers : RegisterDriver(driver) \/ ReplaceDriver(driver)
  \/ \E protocol \in Protocols : UnregisterDriver(protocol)
  \/ ClearDrivers

Poll(p) ==
  \/ \E id \in DOMAIN Group, connection \in Protocols, options \in Options :
       ExecuteGroupOnce(p, id, connection, options)
  \/ CheckConnection(p)
  \/ Read(p)
  \/ ReadExternal(p)

Next == ChangeRegistry \/ \E p \in Pollers : Poll(p)

Spec == Init /\ [][Next]_vars

-----------------------------------------------------------------------------
(* Properties *)

Item == [tag : STRING \cup {NoGroup}, success : BOOLEAN, sequence : Nat]
Result == [tag : STRING, success : BOOLEAN, read : Item]

(* The registry holds every driver under its own protocol, and a cycle's    *)
(* state is one execute_group_once can be in.                               *)
TypeOK ==
  /\ drivers \in [Protocols -> Drivers \cup {NoDriver}]
  /\ \A protocol \in Protocols :
       drivers[protocol] # NoDriver => ProtocolOf(drivers[protocol]) = protocol
  /\ read_counter \in [Simulators -> Nat]
  /\ cycles \in [Pollers -> 0..MaxCycles]
  /\ \A p \in Pollers :
       LET c == cycle[p]
       IN /\ c.at \in {"idle", "check", "batch", "sequence", "done"}
          /\ c.at \in {"check", "batch", "sequence"} => c.driver \in Drivers
          /\ c.status \in Statuses
          /\ c.at = "done" <=> c.status # "NotStarted"
          /\ c.task_results \in Seq(Result)

HasRead(c) == c.at = "done" /\ c.tasks # <<>>

(* The results of a cycle that read are those of the group's enabled tasks, *)
(* one for each and in their order, and with the simulator each is made     *)
(* from the answer for its own tag: requests, answers and tasks are paired  *)
(* by position only (polling_scheduler.cpp:106).                            *)
ResultsFollowTasks ==
  \A p \in Pollers :
    LET c == cycle[p]
        tasks == EnabledTasks(Group[c.group])
    IN HasRead(c) =>
         /\ Len(c.task_results) = Len(tasks)
         /\ \A i \in DOMAIN tasks :
              /\ c.task_results[i].tag = tasks[i].tag
              /\ c.driver \in Simulators => c.task_results[i].read.tag = tasks[i].tag

(* The status tells what the driver did for the enabled tasks of the group: *)
(* Succeeded only when each of them was answered with success, Failed only  *)
(* when none was, whatever number of items a batch answer had.              *)
StatusTellsReads ==
  \A p \in Pollers :
    LET c == cycle[p]
        tasks == EnabledTasks(Group[c.group])
        answered == {i \in DOMAIN tasks : i <= Len(c.items) /\ c.items[i].success}
    IN HasRead(c) =>
         /\ c.status = "Succeeded" <=> answered = DOMAIN tasks
         /\ c.status = "Failed" <=> answered = {}
         /\ c.status = "PartialSuccess" <=> answered \notin {{}, DOMAIN tasks}

Successes(p) == {i \in DOMAIN cycle[p].items : cycle[p].items[i].success}

(* A simulator's counter never serves two reads: two answers of it, of one  *)
(* poller or of two, differ, and those of one cycle grow in task order,     *)
(* however batches and sequences overlap.                                   *)
ReadsFresh ==
  \A p, q \in Pollers : \A i \in Successes(p), j \in Successes(q) :
    (cycle[p].driver = cycle[q].driver /\ cycle[p].driver \in Simulators) =>
      LET m == cycle[p].items[i].sequence
          n == cycle[q].items[j].sequence
      IN /\ m <= read_counter[cycle[p].driver]
         /\ m = n => p = q /\ i = j
         /\ (p = q /\ i < j) => m < n

Polling(c) == c.at \in {"check", "batch", "sequence"}

Fits(c) ==
  /\ ProtocolOf(c.driver) = Group[c.group].protocol
  /\ c.connection = Group[c.group].protocol
  /\ c.at = "batch" => /\ 1 < Len(c.request)
                       /\ Len(c.request) <= MaxBatchSize(c.driver)
                       /\ Len(c.request) <= Group[c.group].max_batch_size

(* The connection check, the capabilities asked and the reads of one       *)
(* execution all go to one driver, whatever the registry replaces or drops *)
(* in between: it is of the protocol of group and connection, and a batch  *)
(* it is given is one that it and the group can take                       *)
(* (polling_scheduler.cpp:45).                                             *)
OneDriverPerCycle ==
  [][\A p \in Pollers :
       Polling(cycle[p]) => Fits(cycle[p]) /\ cycle'[p].driver = cycle[p].driver]_vars
=============================================================================
