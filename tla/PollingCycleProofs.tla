-------------------------- MODULE PollingCycleProofs --------------------------
(***************************************************************************)
(* Proofs about PollingCycle, for every number of pollers, simulators and  *)
(* external drivers, every group of tasks and every registry change.       *)
(***************************************************************************)
EXTENDS PollingCycle, WellFoundedInduction, TLAPS

-----------------------------------------------------------------------------
(* Induction on the naturals, said of a set so that the provers can use it:*)
(* the least number outside the set has a predecessor inside.              *)
LEMMA SetInduction ==
  ASSUME NEW S, 0 \in S, \A n \in Nat : n \in S => n + 1 \in S
  PROVE  Nat \subseteq S
<1> DEFINE T == Nat \ S
<1>1. SUFFICES ASSUME T # {} PROVE FALSE
  OBVIOUS
<1>2. PICK x \in T : \A y \in T : ~(<<y, x>> \in OpToRel(<, Nat))
  BY <1>1, NatLessThanWellFounded, WFMin, Zenon
<1>3. x \in Nat /\ x # 0
  OBVIOUS
<1>4. x - 1 \in Nat /\ x - 1 \in T
  BY <1>3
<1>5. <<x - 1, x>> \in OpToRel(<, Nat)
  <2>1. <<x - 1, x>> \in Nat \X Nat /\ x - 1 < x
    BY <1>3, <1>4
  <2>2. QED
    BY <2>1, Zenon DEF OpToRel
<1>6. QED
  BY <1>2, <1>4, <1>5, Zenon

(* enabled_tasks() of a group is a sequence of enabled tasks: that the     *)
(* recursion it is defined by has a solution, and that the solution has    *)
(* the type, are both by induction on the tasks passed.                    *)
LEMMA EnabledTasksFacts ==
  ASSUME NEW group \in PollingGroup
  PROVE  /\ EnabledTasks(group) \in Seq(Tasks)
         /\ \A i \in 1..Len(EnabledTasks(group)) : IsEnabledForPolling(EnabledTasks(group)[i])
<1> DEFINE tasks == group.tasks
           size == Len(tasks)
           Kept == {t \in Tasks : IsEnabledForPolling(t)}
           Step(f, i) == IF i = 0 THEN <<>>
                         ELSE IF IsEnabledForPolling(tasks[i])
                           THEN Append(f[i - 1], tasks[i])
                           ELSE f[i - 1]
<1>1. tasks \in Seq(Tasks) /\ size \in Nat
  BY DEF PollingGroup
<1> HIDE DEF tasks, size
<1>2. \A i \in 1..size : tasks[i] \in Tasks
  BY <1>1 DEF size
<1>3. \A f, i : i = 0 => Step(f, i) = <<>>
  OBVIOUS
<1>4. \A f : \A i \in Nat \ {0} :
        Step(f, i) = IF IsEnabledForPolling(tasks[i]) THEN Append(f[i - 1], tasks[i]) ELSE f[i - 1]
  OBVIOUS
<1> HIDE DEF Step
<1> DEFINE Solves(f, n) == f = [i \in 0..n |-> Step(f, i)]
           Solvable == {n \in Nat : \E f : Solves(f, n)}
<1>5. 0 \in Solvable
  <2> DEFINE f == [i \in 0..0 |-> <<>>]
  <2>1. f = [i \in 0..0 |-> Step(f, i)]
    BY <1>3
  <2>2. QED
    BY <2>1
<1>6. ASSUME NEW n \in Nat, n \in Solvable PROVE n + 1 \in Solvable
  <2>1. PICK f : f = [i \in 0..n |-> Step(f, i)]
    BY <1>6
  <2> DEFINE g == [i \in 0..(n + 1) |-> IF i = n + 1 THEN Step(f, n + 1) ELSE f[i]]
  <2>2. \A i \in 0..n : g[i] = f[i]
    OBVIOUS
  <2>3. \A i \in 0..(n + 1) : Step(g, i) = Step(f, i)
    <3> TAKE i \in 0..(n + 1)
    <3>1. CASE i = 0
      BY <1>3, <3>1
    <3>2. CASE i # 0
      <4>1. i \in Nat \ {0} /\ g[i - 1] = f[i - 1]
        BY <2>2, <3>2
      <4> HIDE DEF g
      <4>2. QED
        BY <1>4, <4>1
    <3>3. QED
      BY <3>1, <3>2
  <2>4. \A i \in 0..n : f[i] = Step(f, i)
    BY <2>1
  <2>5. \A i \in 0..(n + 1) : g[i] = Step(g, i)
    BY <2>2, <2>3, <2>4
  <2>6. g = [i \in 0..(n + 1) |-> Step(g, i)]
    <3>1. g = [i \in 0..(n + 1) |-> g[i]]
      OBVIOUS
    <3> HIDE DEF g
    <3>2. QED
      BY <2>5, <3>1
  <2> HIDE DEF g
  <2>7. Solves(g, n + 1)
    BY <2>6
  <2> HIDE DEF Solves
  <2>8. QED
    BY <2>7
<1>7. Nat \subseteq Solvable
  <2> HIDE DEF Solvable
  <2>1. QED
    BY <1>5, <1>6, SetInduction
<1>8. \E f : Solves(f, size)
  BY <1>1, <1>7
<1> DEFINE enabled == CHOOSE f : Solves(f, size)
<1>9. enabled = [i \in 0..size |-> Step(enabled, i)]
  BY <1>8, Zenon
<1>10. EnabledTasks(group) = enabled[size]
  BY Zenon DEF EnabledTasks, Step, tasks, size
<1> HIDE DEF enabled
<1> DEFINE Typed == {n \in Nat : n <= size => enabled[n] \in Seq(Kept)}
<1>11. 0 \in Typed
  <2>1. enabled[0] = <<>>
    BY <1>1, <1>3, <1>9
  <2>2. <<>> \in Seq(Kept)
    OBVIOUS
  <2> HIDE DEF Kept
  <2>3. QED
    BY <2>1, <2>2
<1>12. ASSUME NEW n \in Nat, n \in Typed PROVE n + 1 \in Typed
  <2> SUFFICES ASSUME n + 1 <= size PROVE enabled[n + 1] \in Seq(Kept)
    OBVIOUS
  <2>1. enabled[n] \in Seq(Kept)
    BY <1>1, <1>12
  <2>2. n + 1 \in 0..size /\ n + 1 \in Nat \ {0} /\ (n + 1) - 1 = n
    BY <1>1
  <2>3. enabled[n + 1] = Step(enabled, n + 1)
    BY <1>9, <2>2
  <2>4. enabled[n + 1] = IF IsEnabledForPolling(tasks[n + 1])
                           THEN Append(enabled[n], tasks[n + 1]) ELSE enabled[n]
    BY <1>4, <2>2, <2>3
  <2>5. CASE IsEnabledForPolling(tasks[n + 1])
    <3>1. tasks[n + 1] \in Kept
      BY <1>1, <1>2, <2>2, <2>5
    <3> HIDE DEF Kept
    <3>2. Append(enabled[n], tasks[n + 1]) \in Seq(Kept)
      BY <2>1, <3>1
    <3>3. QED
      BY <2>4, <2>5, <3>2
  <2>6. CASE ~IsEnabledForPolling(tasks[n + 1])
    BY <2>1, <2>4, <2>6
  <2>7. QED
    BY <2>5, <2>6
<1>13. Nat \subseteq Typed
  <2> HIDE DEF Typed
  <2>1. QED
    BY <1>11, <1>12, SetInduction
<1>14. EnabledTasks(group) \in Seq(Kept)
  BY <1>1, <1>10, <1>13
<1>15. QED
  BY <1>14
-----------------------------------------------------------------------------
(* The results of a cycle: one for each task, whatever was answered, and a *)
(* status that says how many of them succeeded.                            *)

LEMMA TaskResultsFacts ==
  ASSUME NEW tasks \in Seq(Tasks), NEW items \in Seq(Item)
  PROVE  /\ TaskResults(tasks, items) \in Seq(Result)
         /\ Len(TaskResults(tasks, items)) = Len(tasks)
         /\ \A i \in 1..Len(tasks) :
              /\ TaskResults(tasks, items)[i].tag = tasks[i].tag
              /\ i <= Len(items) => /\ TaskResults(tasks, items)[i].read = items[i]
                                    /\ TaskResults(tasks, items)[i].success = items[i].success
              /\ i > Len(items) => ~TaskResults(tasks, items)[i].success
<1> DEFINE r == TaskResults(tasks, items)
           n == Len(tasks)
<1>0. n \in Nat /\ Len(items) \in Nat
  OBVIOUS
<1>1. r = [i \in 1..n |-> IF i <= Len(items) THEN MakeTaskResult(tasks[i], items[i])
                                             ELSE MakeFailedTaskResult(tasks[i])]
  BY DEF TaskResults, Paired
<1> HIDE DEF r
<1>2. Unread \in Item /\ Unread.success = FALSE
  BY DEF Unread, Item
<1>3. ASSUME NEW i \in 1..n
      PROVE  /\ r[i] \in Result
             /\ r[i].tag = tasks[i].tag
             /\ i <= Len(items) => r[i].read = items[i] /\ r[i].success = items[i].success
             /\ i > Len(items) => ~r[i].success
  <2>0. tasks[i] \in Tasks
    BY <1>0
  <2>1. tasks[i].tag \in STRING
    BY <2>0, Zenon DEF Tasks
  <2>2. CASE i <= Len(items)
    <3>1. items[i] \in Item
      BY <1>0, <2>2
    <3>2. r[i] = [tag |-> tasks[i].tag, success |-> items[i].success, read |-> items[i]]
      BY <1>1, <2>2 DEF MakeTaskResult
    <3>3. r[i] \in Result
      BY <2>1, <3>1, <3>2 DEF Result, Item
    <3>4. QED
      BY <1>0, <2>2, <3>2, <3>3
  <2>3. CASE i > Len(items)
    <3>1. r[i] = [tag |-> tasks[i].tag, success |-> FALSE, read |-> Unread]
      BY <1>0, <1>1, <2>3 DEF MakeFailedTaskResult
    <3>2. r[i] \in Result
      BY <1>2, <2>1, <3>1 DEF Result, Item
    <3>3. r[i].tag = tasks[i].tag /\ ~r[i].success /\ ~(i <= Len(items))
      BY <1>0, <2>3, <3>1
    <3>4. QED
      BY <3>2, <3>3
  <2>4. QED
    BY <1>0, <2>2, <2>3
<1>4. r \in [1..n -> Result]
  BY <1>1, <1>3
<1>5. r \in Seq(Result) /\ Len(r) = n
  BY <1>0, <1>4
<1>6. QED
  BY <1>3, <1>5 DEF r

Succeeded(results) == {i \in DOMAIN results : results[i].success}

LEMMA FinalizeFacts ==
  ASSUME NEW results \in Seq(Result), results # <<>>
  PROVE  /\ FinalizeGroupResult(results) \in Statuses \ {"NotStarted"}
         /\ FinalizeGroupResult(results) = "Succeeded" <=> Succeeded(results) = DOMAIN results
         /\ FinalizeGroupResult(results) = "Failed" <=> Succeeded(results) = {}
         /\ FinalizeGroupResult(results) = "PartialSuccess"
              <=> Succeeded(results) \notin {{}, DOMAIN results}
<1>1. DOMAIN results # {}
  <2>1. DOMAIN results = 1..Len(results) /\ Len(results) \in Nat /\ Len(results) # 0
    OBVIOUS
  <2>2. 1 \in DOMAIN results
    BY <2>1
  <2>3. QED
    BY <2>2
<1>2. FinalizeGroupResult(results) =
        CASE results = <<>> -> "Skipped"
          [] Succeeded(results) = DOMAIN results -> "Succeeded"
          [] Succeeded(results) = {} -> "Failed"
          [] OTHER -> "PartialSuccess"
  BY DEF FinalizeGroupResult, Succeeded
<1> HIDE DEF Succeeded
<1>3. CASE Succeeded(results) = DOMAIN results
  BY <1>1, <1>2, <1>3 DEF Statuses
<1>4. CASE Succeeded(results) = {}
  BY <1>1, <1>2, <1>4 DEF Statuses
<1>5. CASE Succeeded(results) \notin {{}, DOMAIN results}
  BY <1>1, <1>2, <1>5 DEF Statuses
<1>6. QED
  BY <1>3, <1>4, <1>5

-----------------------------------------------------------------------------
(* The inductive invariant, cycle by cycle: what is asked are the enabled  *)
(* tasks of the group, at least one; the answers of a simulator are those  *)
(* of the first tasks, all of them once the cycle is done, because a       *)
(* simulator is only ever asked over a connection of its own protocol; and *)
(* a finished cycle that read has the results of these tasks and answers.  *)

CycleRecord ==
  [at : {"idle", "check", "batch", "sequence", "done"}, group : DOMAIN Group \cup {NoGroup},
   connection : Protocols, options : PollingSchedulerOptions,
   driver : Drivers \cup {NoDriver}, tasks : Seq(Tasks), request : Seq(Tasks),
   items : Seq(Item), task_results : Seq(Result), status : Statuses]

NothingRead(c) == c.tasks = <<>> /\ c.items = <<>> /\ c.task_results = <<>>

AsksEnabledTasks(c) ==
  c.group \in DOMAIN Group /\ c.tasks = EnabledTasks(Group[c.group]) /\ c.tasks # <<>>

ItemsFollowTasks(c) ==
  c.driver \in Simulators =>
    /\ Len(c.items) <= Len(c.tasks)
    /\ \A i \in 1..Len(c.items) : c.items[i].tag = c.tasks[i].tag

OwnConnection(c) == c.driver \in Simulators => c.connection = "Simulator"

CycleOK(c) ==
  /\ c \in CycleRecord
  /\ OwnConnection(c)
  /\ Polling(c) => Fits(c)
  /\ c.at = "idle" => NothingRead(c) /\ c.status = "NotStarted"
  /\ c.at = "check" => /\ NothingRead(c) /\ c.status = "NotStarted" /\ c.driver \in Drivers
                       /\ c.group \in DOMAIN Group /\ CanPoll(Group[c.group])
  /\ c.at \in {"batch", "sequence"} =>
       /\ c.status = "NotStarted" /\ c.driver \in Drivers /\ c.task_results = <<>>
       /\ AsksEnabledTasks(c) /\ c.request = c.tasks
       /\ Len(c.items) < Len(c.request)
  /\ c.at = "done" =>
       /\ c.status # "NotStarted"
       /\ \/ NothingRead(c)
          \/ /\ AsksEnabledTasks(c)
             /\ c.driver \in Simulators => Len(c.items) = Len(c.tasks)
             /\ c.task_results = TaskResults(c.tasks, c.items)
             /\ c.status = FinalizeGroupResult(c.task_results)
  /\ ItemsFollowTasks(c)

LEMMA NewCycleOK ==
  ASSUME NEW id \in DOMAIN Group \cup {NoGroup}, NEW connection \in Protocols,
         NEW options \in PollingSchedulerOptions, NEW driver \in Drivers \cup {NoDriver},
         NEW at \in {"idle", "check"}, driver \in Simulators => connection = "Simulator",
         at = "check" => /\ driver \in Drivers /\ id \in DOMAIN Group /\ CanPoll(Group[id])
                         /\ ProtocolOf(driver) = Group[id].protocol
                         /\ connection = Group[id].protocol
  PROVE  CycleOK(Cycle(at, id, connection, options, driver))
<1> DEFINE c == Cycle(at, id, connection, options, driver)
<1>1. c \in CycleRecord
  BY DEF Cycle, CycleRecord, Statuses
<1>2. /\ NothingRead(c) /\ c.status = "NotStarted" /\ c.at = at /\ c.driver = driver
      /\ c.group = id /\ c.connection = connection
  BY DEF Cycle, NothingRead
<1>3. ItemsFollowTasks(c) /\ OwnConnection(c) /\ (Polling(c) => Fits(c))
  BY <1>2 DEF ItemsFollowTasks, OwnConnection, NothingRead, Cycle, Polling, Fits
<1> HIDE DEF c
<1>4. CycleOK(c)
  BY <1>1, <1>2, <1>3 DEF CycleOK
<1>5. QED
  BY <1>4 DEF c

(* A cycle that ends before it reads. *)
LEMMA EndedOK ==
  ASSUME NEW c, c \in CycleRecord, OwnConnection(c), NothingRead(c),
         NEW status \in Statuses \ {"NotStarted"}
  PROVE  /\ CycleOK(Ended(c, status)) /\ Ended(c, status).items = <<>>
         /\ Ended(c, status).driver = c.driver
<1> DEFINE d == Ended(c, status)
<1>1. d \in CycleRecord
  BY DEF Ended, CycleRecord
<1>2. /\ d.at = "done" /\ d.status = status /\ d.items = <<>> /\ NothingRead(d)
      /\ OwnConnection(d) /\ ~Polling(d) /\ d.driver = c.driver
  BY DEF Ended, CycleRecord, NothingRead, OwnConnection, Polling
<1>3. ItemsFollowTasks(d)
  BY <1>2 DEF ItemsFollowTasks, NothingRead
<1> HIDE DEF d
<1>4. CycleOK(d)
  BY <1>1, <1>2, <1>3 DEF CycleOK
<1>5. QED
  BY <1>2, <1>4 DEF d

(* A cycle that turns to its reads. *)
LEMMA SelectedOK ==
  ASSUME NEW c, c \in CycleRecord, OwnConnection(c), NothingRead(c), c.status = "NotStarted",
         c.driver \in Drivers, c.group \in DOMAIN Group, CanPoll(Group[c.group]),
         ProtocolOf(c.driver) = Group[c.group].protocol,
         c.connection = Group[c.group].protocol
  PROVE  /\ CycleOK(Selected(c)) /\ Selected(c).items = <<>>
         /\ Selected(c).driver = c.driver
<1> DEFINE d == Selected(c)
           tasks == EnabledTasks(Group[c.group])
<1>1. tasks \in Seq(Tasks) /\ tasks # <<>>
  BY GroupAssumption, EnabledTasksFacts DEF CanPoll
<1>2. /\ d = [c EXCEPT !.at = IF CanUseBatch(Group[c.group], c.driver, c.options)
                              THEN "batch" ELSE "sequence",
                       !.tasks = tasks, !.request = tasks]
  BY DEF Selected, Request
<1> HIDE DEF d, tasks
<1>3. d \in CycleRecord
  BY <1>1, <1>2 DEF CycleRecord
<1>4. /\ d.at \in {"batch", "sequence"} /\ d.status = "NotStarted" /\ d.driver = c.driver
      /\ d.task_results = <<>> /\ d.items = <<>> /\ d.group = c.group
      /\ d.tasks = tasks /\ d.request = tasks /\ OwnConnection(d)
      /\ d.connection = c.connection
      /\ d.at = "batch" => CanUseBatch(Group[c.group], c.driver, c.options)
  BY <1>2 DEF CycleRecord, NothingRead, OwnConnection
<1>5. AsksEnabledTasks(d)
  BY <1>1, <1>4 DEF AsksEnabledTasks, tasks
<1>6. ItemsFollowTasks(d) /\ Len(d.items) < Len(d.request)
  BY <1>1, <1>4 DEF ItemsFollowTasks
<1>7. Fits(d)
  <2>1. Len(tasks) \in Nat
    BY <1>1
  <2>2. d.at = "batch" => /\ Len(tasks) > 1 /\ Len(tasks) <= MaxBatchSize(c.driver)
                          /\ Len(tasks) <= Group[c.group].max_batch_size
    BY <1>4 DEF CanUseBatch, tasks
  <2>3. QED
    BY <1>4, <2>1, <2>2 DEF Fits
<1>8. CycleOK(d)
  BY <1>3, <1>4, <1>5, <1>6, <1>7 DEF CycleOK
<1>9. QED
  BY <1>4, <1>8 DEF d

(* A cycle that has its answers. *)
LEMMA FinishedOK ==
  ASSUME NEW c, c \in CycleRecord, OwnConnection(c), AsksEnabledTasks(c), ItemsFollowTasks(c),
         c.driver \in Simulators => Len(c.items) = Len(c.tasks)
  PROVE  /\ CycleOK(Finished(c))
         /\ Finished(c).items = c.items /\ Finished(c).driver = c.driver
<1> DEFINE d == Finished(c)
           results == TaskResults(c.tasks, c.items)
<1>1. c.tasks \in Seq(Tasks) /\ c.items \in Seq(Item) /\ c.tasks # <<>>
  BY DEF CycleRecord, AsksEnabledTasks
<1>2. results \in Seq(Result) /\ Len(results) = Len(c.tasks) /\ Len(c.tasks) # 0
  BY <1>1, TaskResultsFacts
<1>3. d = [c EXCEPT !.at = "done", !.task_results = results,
                    !.status = FinalizeGroupResult(results)]
  BY DEF Finished
<1> HIDE DEF d
<1>4. FinalizeGroupResult(results) \in Statuses \ {"NotStarted"}
  <2>1. results # <<>>
    BY <1>2
  <2> HIDE DEF results
  <2>2. QED
    BY <1>2, <2>1, FinalizeFacts
<1>5. d \in CycleRecord
  <2> HIDE DEF results
  <2>1. QED
    BY <1>2, <1>3, <1>4 DEF CycleRecord
<1>6. /\ d.at = "done" /\ d.status = FinalizeGroupResult(results) /\ d.driver = c.driver
      /\ d.task_results = results /\ d.items = c.items /\ d.group = c.group
      /\ d.tasks = c.tasks /\ d.connection = c.connection
  <2> HIDE DEF results
  <2>1. QED
    BY <1>3 DEF CycleRecord
<1>7. AsksEnabledTasks(d) /\ ItemsFollowTasks(d) /\ OwnConnection(d)
  BY <1>6 DEF AsksEnabledTasks, ItemsFollowTasks, OwnConnection
<1>8. CycleOK(d)
  BY <1>4, <1>5, <1>6, <1>7 DEF CycleOK, Polling
<1>9. QED
  BY <1>6, <1>8 DEF d

(* A cycle with one answer more, or all of a batch. *)
Answered(c, items) == [c EXCEPT !.items = items]

LEMMA AnsweredFacts ==
  ASSUME NEW c, CycleOK(c), c.at \in {"batch", "sequence"}, NEW items \in Seq(Item)
  PROVE  /\ Answered(c, items) \in CycleRecord
         /\ Answered(c, items).at = c.at /\ Answered(c, items).status = "NotStarted"
         /\ Answered(c, items).driver = c.driver /\ Answered(c, items).driver \in Drivers
         /\ Answered(c, items).task_results = <<>> /\ Answered(c, items).items = items
         /\ Answered(c, items).tasks = c.tasks /\ Answered(c, items).request = c.tasks
         /\ AsksEnabledTasks(Answered(c, items)) /\ OwnConnection(Answered(c, items))
         /\ Fits(Answered(c, items))
<1>1. /\ OwnConnection(c) /\ Fits(c) /\ c \in CycleRecord /\ c.status = "NotStarted" /\ c.driver \in Drivers
      /\ c.task_results = <<>> /\ c.request = c.tasks /\ AsksEnabledTasks(c)
  BY DEF CycleOK, Polling
<1> DEFINE d == Answered(c, items)
<1>2. d \in CycleRecord
  BY <1>1 DEF Answered, CycleRecord
<1>3. /\ d.at = c.at /\ d.status = c.status /\ d.driver = c.driver
      /\ d.task_results = c.task_results /\ d.items = items
      /\ d.tasks = c.tasks /\ d.request = c.request /\ d.group = c.group
      /\ d.connection = c.connection
  BY <1>1 DEF Answered, CycleRecord
<1> HIDE DEF d
<1>4. AsksEnabledTasks(d) /\ OwnConnection(d) /\ Fits(d)
  BY <1>1, <1>3 DEF AsksEnabledTasks, OwnConnection, Fits
<1>5. QED
  BY <1>1, <1>2, <1>3, <1>4 DEF d

LEMMA AfterReadOK ==
  ASSUME NEW c, CycleOK(c), c.at \in {"batch", "sequence"}, NEW items \in Seq(Item),
         Len(items) = Len(c.items) + 1, ItemsFollowTasks(Answered(c, items))
  PROVE  /\ CycleOK(AfterRead(Answered(c, items)))
         /\ AfterRead(Answered(c, items)).items = items
         /\ AfterRead(Answered(c, items)).driver = c.driver
<1> DEFINE d == Answered(c, items)
<1>1. /\ d \in CycleRecord /\ d.at = c.at /\ d.status = "NotStarted" /\ d.driver = c.driver
      /\ d.driver \in Drivers /\ d.task_results = <<>> /\ d.items = items
      /\ d.tasks = c.tasks /\ d.request = c.tasks /\ AsksEnabledTasks(d) /\ OwnConnection(d)
      /\ Fits(d)
  BY AnsweredFacts
<1>2. ItemsFollowTasks(d)
  OBVIOUS
<1> HIDE DEF d
<1>3. CASE Len(d.items) = Len(d.request)
  BY <1>1, <1>2, <1>3, FinishedOK DEF AfterRead, d
<1>4. CASE Len(d.items) # Len(d.request)
  <2>1. /\ c.items \in Seq(Item) /\ c.request \in Seq(Tasks)
        /\ Len(c.items) < Len(c.request) /\ c.request = c.tasks
    BY DEF CycleOK, CycleRecord
  <2>2. Len(c.items) \in Nat /\ Len(c.request) \in Nat
    BY <2>1
  <2>3. Len(d.items) < Len(d.request)
    BY <1>1, <1>4, <2>1, <2>2
  <2>4. CycleOK(d)
    BY <1>1, <1>2, <2>3 DEF CycleOK
  <2>5. QED
    BY <1>1, <1>4, <2>4 DEF AfterRead, d
<1>5. QED
  BY <1>3, <1>4

-----------------------------------------------------------------------------
(* What a step of a poller does to its cycle and to the read counters. *)

Types ==
  /\ drivers \in [Protocols -> Drivers \cup {NoDriver}]
  /\ \A protocol \in Protocols :
       drivers[protocol] # NoDriver => ProtocolOf(drivers[protocol]) = protocol
  /\ read_counter \in [Simulators -> Nat]
  /\ cycles \in [Pollers -> 0..MaxCycles]
  /\ cycle \in [Pollers -> CycleRecord]
  /\ \A p \in Pollers : CycleOK(cycle[p])

IInv == Types /\ ReadsFresh

KeepsAnswers(c, d) ==
  /\ d.items = <<>> \/ d.driver \in Externals \/ (d.items = c.items /\ d.driver = c.driver)
  /\ UNCHANGED read_counter

AddsAnswer(c, d) ==
  \E item \in Item :
    /\ c.driver \in Simulators /\ d.driver = c.driver
    /\ d.items = Append(c.items, item)
    /\ IF item.success
         THEN /\ item.sequence = read_counter[c.driver] + 1
              /\ read_counter' = [read_counter EXCEPT ![c.driver] = @ + 1]
         ELSE UNCHANGED read_counter

Moves(p, d) ==
  /\ cycle' = [cycle EXCEPT ![p] = d]
  /\ CycleOK(d)
  /\ Polling(cycle[p]) => d.driver = cycle[p].driver
  /\ KeepsAnswers(cycle[p], d) \/ AddsAnswer(cycle[p], d)
  /\ drivers' = drivers /\ cycles' \in [Pollers -> 0..MaxCycles]

LEMMA ExecuteMoves ==
  ASSUME Types, NEW p \in Pollers, NEW id \in DOMAIN Group, NEW connection \in Protocols,
         NEW options \in Options, ExecuteGroupOnce(p, id, connection, options)
  PROVE  \E d : Moves(p, d)
<1>0. options \in PollingSchedulerOptions /\ Group[id] \in PollingGroup
      /\ Group[id].protocol \in Protocols
  BY BoundAssumption, GroupAssumption DEF PollingGroup
<1>1. ASSUME NEW driver \in Drivers \cup {NoDriver}, NEW d, CycleOK(d), d.items = <<>>,
             cycle' = [cycle EXCEPT ![p] = d], cycles[p] < MaxCycles,
             cycles' = [cycles EXCEPT ![p] = @ + 1], UNCHANGED <<drivers, read_counter>>
      PROVE  Moves(p, d)
  <2>1. cycles' \in [Pollers -> 0..MaxCycles]
    BY <1>1, BoundAssumption DEF Types
  <2>2. ~Polling(cycle[p])
    <3>1. cycle[p].at \in {"idle", "done"}
      BY DEF ExecuteGroupOnce, Skip, Refuse, Start, Begin
    <3>2. QED
      BY <3>1 DEF Polling
  <2>3. QED
    BY <1>1, <2>1, <2>2 DEF Moves, KeepsAnswers
<1>2. ASSUME NEW driver \in Drivers \cup {NoDriver}
      PROVE  LET c == Cycle("check", id, connection, options, driver)
             IN  /\ c \in CycleRecord /\ NothingRead(c) /\ c.status = "NotStarted"
                 /\ c.driver = driver /\ c.group = id /\ c.items = <<>>
                 /\ c.connection = connection
  BY <1>0 DEF Cycle, CycleRecord, NothingRead, Statuses
<1>3. CASE Skip(p, id, connection, options)
  <2> DEFINE c == Cycle("check", id, connection, options, NoDriver)
             d == Ended(c, "Skipped")
  <2>1. CycleOK(d) /\ d.items = <<>>
    BY <1>2, EndedOK, DriverAssumption DEF Statuses, OwnConnection, Drivers
  <2>2. /\ cycle' = [cycle EXCEPT ![p] = d] /\ cycles[p] < MaxCycles
        /\ cycles' = [cycles EXCEPT ![p] = @ + 1] /\ UNCHANGED <<drivers, read_counter>>
    BY <1>3 DEF Skip, Begin
  <2> HIDE DEF d
  <2>3. QED
    BY <1>1, <2>1, <2>2
<1>4. CASE Refuse(p, id, connection, options)
  <2> DEFINE c == Cycle("check", id, connection, options, NoDriver)
             d == Ended(c, "Failed")
  <2>1. CycleOK(d) /\ d.items = <<>>
    BY <1>2, EndedOK, DriverAssumption DEF Statuses, OwnConnection, Drivers
  <2>2. /\ cycle' = [cycle EXCEPT ![p] = d] /\ cycles[p] < MaxCycles
        /\ cycles' = [cycles EXCEPT ![p] = @ + 1] /\ UNCHANGED <<drivers, read_counter>>
    BY <1>4 DEF Refuse, Begin
  <2> HIDE DEF d
  <2>3. QED
    BY <1>1, <2>1, <2>2
<1>5. CASE Start(p, id, connection, options)
  <2> DEFINE driver == drivers[Group[id].protocol]
             c == Cycle("check", id, connection, options, driver)
             d == IF options.check_connection_before_polling THEN c ELSE Selected(c)
  <2>1. CanPoll(Group[id]) /\ driver \in Drivers
    BY <1>0, <1>5 DEF Start, Types
  <2>0. /\ driver \in Simulators => connection = "Simulator"
        /\ ProtocolOf(driver) = Group[id].protocol /\ connection = Group[id].protocol
    BY <1>0, <1>5, DriverAssumption DEF Start, Types, ProtocolMatches, ProtocolOf
  <2>2. /\ cycle' = [cycle EXCEPT ![p] = d] /\ cycles[p] < MaxCycles
        /\ cycles' = [cycles EXCEPT ![p] = @ + 1] /\ UNCHANGED <<drivers, read_counter>>
    BY <1>5 DEF Start, Begin
  <2> HIDE DEF driver
  <2>3. CycleOK(c) /\ c.items = <<>>
    BY <1>0, <1>2, <2>0, <2>1, NewCycleOK
  <2>4. CycleOK(Selected(c)) /\ Selected(c).items = <<>>
    BY <1>2, <2>0, <2>1, SelectedOK DEF OwnConnection
  <2>5. CycleOK(d) /\ d.items = <<>>
    BY <2>3, <2>4
  <2> HIDE DEF d
  <2>6. QED
    BY <1>1, <2>2, <2>5
<1>6. QED
  BY <1>3, <1>4, <1>5 DEF ExecuteGroupOnce

LEMMA CheckConnectionMoves ==
  ASSUME Types, NEW p \in Pollers, CheckConnection(p)
  PROVE  \E d : Moves(p, d)
<1> DEFINE c == cycle[p]
<1>1. /\ c \in CycleRecord /\ OwnConnection(c) /\ NothingRead(c) /\ c.status = "NotStarted"
      /\ c.driver \in Drivers /\ c.group \in DOMAIN Group /\ CanPoll(Group[c.group])
      /\ ProtocolOf(c.driver) = Group[c.group].protocol
      /\ c.connection = Group[c.group].protocol
  BY DEF CheckConnection, Types, CycleOK, Polling, Fits
<1>2. PICK success \in BOOLEAN :
        cycle' = [cycle EXCEPT ![p] = IF success THEN Selected(c) ELSE Ended(c, "Failed")]
  BY Zenon DEF CheckConnection
<1> DEFINE d == IF success THEN Selected(c) ELSE Ended(c, "Failed")
<1>3. UNCHANGED <<drivers, read_counter, cycles>> /\ cycle' = [cycle EXCEPT ![p] = d]
  BY <1>2 DEF CheckConnection
<1> HIDE DEF c
<1>4. CycleOK(Selected(c)) /\ Selected(c).items = <<>> /\ Selected(c).driver = c.driver
  BY <1>1, SelectedOK
<1>5. /\ CycleOK(Ended(c, "Failed")) /\ Ended(c, "Failed").items = <<>>
      /\ Ended(c, "Failed").driver = c.driver
  BY <1>1, EndedOK DEF Statuses
<1>6. CycleOK(d) /\ d.items = <<>> /\ d.driver = c.driver
  BY <1>4, <1>5
<1> HIDE DEF d
<1>7. QED
  BY <1>3, <1>6 DEF Moves, KeepsAnswers, Types, c

LEMMA ReadMoves ==
  ASSUME Types, NEW p \in Pollers, Read(p)
  PROVE  \E d : Moves(p, d)
<1> DEFINE c == cycle[p]
           n == Len(c.items)
           item == SimulatorRead(c.request[n + 1], c.connection, NextSequence(c.driver))
<1>1. /\ CycleOK(c) /\ c.at \in {"batch", "sequence"} /\ c.driver \in Simulators
      /\ cycle' = [cycle EXCEPT ![p] =
                     IF c.at = "batch" /\ c.connection # "Simulator"
                       THEN Finished(c)
                       ELSE AfterRead(Answered(c, Append(c.items, item)))]
      /\ read_counter' = IF item.success
                           THEN [read_counter EXCEPT ![c.driver] = item.sequence]
                           ELSE read_counter
      /\ UNCHANGED <<drivers, cycles>>
  BY DEF Read, Types, Answered
<1>2. read_counter[c.driver] \in Nat /\ cycles \in [Pollers -> 0..MaxCycles]
  BY <1>1 DEF Types
<1> HIDE DEF c
<1>3. /\ c \in CycleRecord /\ c.items \in Seq(Item) /\ c.request = c.tasks
      /\ AsksEnabledTasks(c) /\ ItemsFollowTasks(c) /\ c.tasks \in Seq(Tasks) /\ n < Len(c.tasks)
  BY <1>1 DEF CycleOK, CycleRecord
<1>4. n \in Nat /\ n + 1 \in 1..Len(c.tasks) /\ c.request[n + 1] \in Tasks
  BY <1>3
<1>5. item \in Item /\ item.tag = c.tasks[n + 1].tag
      /\ (item.success => /\ item.sequence = read_counter[c.driver] + 1
                          /\ c.connection = "Simulator")
  <2>1. c.request[n + 1].tag \in STRING
    BY <1>4 DEF Tasks
  <2>2. NextSequence(c.driver) = read_counter[c.driver] + 1 /\ NextSequence(c.driver) \in Nat
    BY <1>2 DEF NextSequence
  <2>3. c.request[n + 1].tag = c.tasks[n + 1].tag
    BY <1>3
  <2> HIDE DEF n
  <2>4. QED
    BY <2>1, <2>2, <2>3 DEF SimulatorRead, Item
<1>6. ~item.success => read_counter' = read_counter
  BY <1>1
<1>7. item.success => read_counter' = [read_counter EXCEPT ![c.driver] = @ + 1]
  BY <1>1, <1>5
<1> HIDE DEF item
<1>8. c.connection = "Simulator"
  BY <1>1 DEF CycleOK, OwnConnection
<1> DEFINE items == Append(c.items, item)
           a == Answered(c, items)
           d == AfterRead(a)
<1>9. /\ items \in Seq(Item) /\ Len(items) = n + 1 /\ items[n + 1] = item
      /\ \A i \in 1..n : items[i] = c.items[i]
  BY <1>3, <1>5
<1> HIDE DEF items
<1>10. a.items = items /\ a.tasks = c.tasks /\ a.driver = c.driver
  BY <1>1, <1>9, AnsweredFacts
<1>11. ItemsFollowTasks(a)
  <2>1. \A i \in 1..n : c.items[i].tag = c.tasks[i].tag
    BY <1>1, <1>3 DEF ItemsFollowTasks
  <2>2. \A i \in 1..(n + 1) : items[i].tag = c.tasks[i].tag
    <3> TAKE i \in 1..(n + 1)
    <3>1. CASE i = n + 1
      BY <1>5, <1>9, <3>1
    <3>2. CASE i # n + 1
      <4>1. i \in 1..n
        BY <1>4, <3>2
      <4>2. QED
        BY <1>9, <2>1, <4>1
    <3>3. QED
      BY <3>1, <3>2
  <2>3. n + 1 <= Len(c.tasks)
    BY <1>3, <1>4
  <2>4. QED
    BY <1>9, <1>10, <2>2, <2>3 DEF ItemsFollowTasks
<1> HIDE DEF a
<1>12. CycleOK(d) /\ d.items = items /\ d.driver = c.driver
  BY <1>1, <1>9, <1>11, AfterReadOK DEF a
<1>13. cycle' = [cycle EXCEPT ![p] = d]
  BY <1>1, <1>8 DEF a, items
<1> HIDE DEF d
<1>14. AddsAnswer(c, d)
  BY <1>1, <1>5, <1>6, <1>7, <1>12, Zenon DEF AddsAnswer, items
<1>15. Moves(p, d)
  BY <1>1, <1>2, <1>12, <1>13, <1>14 DEF Moves, c
<1>16. QED
  BY <1>15

LEMMA ReadExternalMoves ==
  ASSUME Types, NEW p \in Pollers, ReadExternal(p)
  PROVE  \E d : Moves(p, d)
<1> DEFINE c == cycle[p]
<1>1. /\ CycleOK(c) /\ c.at \in {"batch", "sequence"} /\ c.driver \in Externals
      /\ UNCHANGED <<drivers, read_counter, cycles>>
      /\ cycles \in [Pollers -> 0..MaxCycles]
  BY DEF ReadExternal, Types
<1>2. PICK items \in Answers(c) :
        cycle' = [cycle EXCEPT ![p] = IF c.at = "batch" THEN Finished(Answered(c, items))
                                      ELSE AfterRead(Answered(c, items))]
  BY DEF ReadExternal, Answered
<1>3. /\ c \in CycleRecord /\ c.items \in Seq(Item) /\ c.request \in Seq(Tasks)
      /\ Len(c.items) < Len(c.request)
  BY <1>1 DEF CycleOK, CycleRecord
<1>4. c.driver \notin Simulators
  BY <1>1, DriverAssumption
<1> HIDE DEF c
<1> DEFINE a == Answered(c, items)
<1>5. ASSUME items \in Seq(Item)
      PROVE  /\ a \in CycleRecord /\ AsksEnabledTasks(a) /\ ItemsFollowTasks(a)
             /\ a.driver = c.driver /\ OwnConnection(a)
  <2>1. a \in CycleRecord /\ AsksEnabledTasks(a) /\ a.driver = c.driver /\ OwnConnection(a)
    BY <1>1, <1>5, AnsweredFacts
  <2> HIDE DEF a
  <2>2. QED
    BY <1>4, <2>1 DEF ItemsFollowTasks
<1>6. CASE c.at = "batch"
  <2>1. PICK answer \in UNION {[1..m -> BOOLEAN] : m \in 0..(Len(c.request) + 1)} :
          items = [i \in DOMAIN answer |->
                     [tag |-> NoGroup, success |-> answer[i], sequence |-> 0]]
    BY <1>2, <1>6 DEF Answers
  <2>2. PICK m \in 0..(Len(c.request) + 1) : answer \in [1..m -> BOOLEAN]
    BY <2>1
  <2>3. items \in [1..m -> Item] /\ m \in Nat
    BY <1>3, <2>1, <2>2 DEF Item
  <2>4. items \in Seq(Item)
    BY <2>3
  <2>5. CycleOK(Finished(a)) /\ Finished(a).driver = c.driver
    BY <1>4, <1>5, <2>4, FinishedOK
  <2>6. Moves(p, Finished(a))
    BY <1>1, <1>2, <1>6, <2>5 DEF Moves, KeepsAnswers, c
  <2>7. QED
    BY <2>6
<1>7. CASE c.at = "sequence"
  <2>1. PICK success \in BOOLEAN :
          items = Append(c.items, [tag |-> c.request[Len(c.items) + 1].tag,
                                   success |-> success, sequence |-> 0])
    BY <1>2, <1>7 DEF Answers
  <2> DEFINE item == [tag |-> c.request[Len(c.items) + 1].tag,
                      success |-> success, sequence |-> 0]
  <2>2. c.request[Len(c.items) + 1] \in Tasks
    BY <1>3
  <2>3. item \in Item
    BY <2>2 DEF Item, Tasks
  <2> HIDE DEF item
  <2>4. items \in Seq(Item) /\ Len(items) = Len(c.items) + 1
    BY <1>3, <2>1, <2>3 DEF item
  <2>5. CycleOK(AfterRead(a)) /\ AfterRead(a).driver = c.driver
    BY <1>1, <1>5, <2>4, AfterReadOK
  <2>6. Moves(p, AfterRead(a))
    BY <1>1, <1>2, <1>7, <2>5 DEF Moves, KeepsAnswers, c
  <2>7. QED
    BY <2>6
<1>8. QED
  BY <1>1, <1>6, <1>7

LEMMA PollMoves ==
  ASSUME Types, NEW p \in Pollers, Poll(p)
  PROVE  \E d : Moves(p, d)
<1>1. CASE \E id \in DOMAIN Group, connection \in Protocols, options \in Options :
             ExecuteGroupOnce(p, id, connection, options)
  BY <1>1, ExecuteMoves
<1>2. CASE CheckConnection(p)
  BY <1>2, CheckConnectionMoves
<1>3. CASE Read(p)
  BY <1>3, ReadMoves
<1>4. CASE ReadExternal(p)
  BY <1>4, ReadExternalMoves
<1>5. QED
  BY <1>1, <1>2, <1>3, <1>4 DEF Poll

-----------------------------------------------------------------------------
(* What follows from a poller's step: the invariant is kept. *)

LEMMA MovesKeepTypes ==
  ASSUME Types, NEW p \in Pollers, NEW d, Moves(p, d)
  PROVE  Types'
<1>1. d \in CycleRecord
  BY DEF Moves, CycleOK
<1>2. cycle' \in [Pollers -> CycleRecord]
  BY <1>1 DEF Moves, Types
<1>3. \A q \in Pollers : CycleOK(cycle'[q])
  BY DEF Moves, Types
<1>4. read_counter' \in [Simulators -> Nat]
  <2>1. CASE UNCHANGED read_counter
    BY <2>1 DEF Types
  <2>2. CASE AddsAnswer(cycle[p], d)
    <3>1. \/ UNCHANGED read_counter
          \/ /\ cycle[p].driver \in Simulators
             /\ read_counter' = [read_counter EXCEPT ![cycle[p].driver] = @ + 1]
      BY <2>2 DEF AddsAnswer
    <3> DEFINE s == cycle[p].driver
    <3> HIDE DEF s
    <3>2. QED
      BY <3>1 DEF Types, s
  <2>3. QED
    BY <2>1, <2>2 DEF Moves, KeepsAnswers
<1>5. /\ drivers' \in [Protocols -> Drivers \cup {NoDriver}]
      /\ \A protocol \in Protocols :
           drivers'[protocol] # NoDriver => ProtocolOf(drivers'[protocol]) = protocol
  BY DEF Moves, Types
<1>6. cycles' \in [Pollers -> 0..MaxCycles]
  BY DEF Moves
<1>7. QED
  BY <1>2, <1>3, <1>4, <1>5, <1>6 DEF Types

(* An answer the step leaves as it was. *)
Kept(q, i) ==
  /\ i \in Successes(q) /\ cycle'[q].driver = cycle[q].driver
  /\ cycle'[q].items[i].sequence = cycle[q].items[i].sequence

LEMMA MovesKeepFresh ==
  ASSUME Types, ReadsFresh, NEW p \in Pollers, NEW d, Moves(p, d)
  PROVE  ReadsFresh'
<1> DEFINE c == cycle[p]
           n == Len(c.items)
<1>1. c.items \in Seq(Item) /\ n \in Nat /\ DOMAIN c.items = 1..n
  BY DEF Types, CycleRecord
<1>2. cycle'[p] = d /\ \A q \in Pollers \ {p} : cycle'[q] = cycle[q]
  BY DEF Moves, Types
<1>3. \A q \in Pollers : \A i \in Successes(q) :
        cycle[q].items[i].sequence \in Nat /\ i \in Nat
  <2> TAKE q \in Pollers
  <2> TAKE i \in Successes(q)
  <2>1. cycle[q].items \in Seq(Item) /\ i \in DOMAIN cycle[q].items
    BY DEF Types, CycleRecord, Successes
  <2>2. cycle[q].items[i] \in Item /\ i \in Nat
    BY <2>1
  <2>3. QED
    BY <2>2 DEF Item
<1>4. \A q \in Pollers \ {p} : \A i \in Successes(q)' : Kept(q, i)
  BY <1>2 DEF Kept, Successes
<1>5. read_counter \in [Simulators -> Nat]
  BY DEF Types
<1>6. CASE KeepsAnswers(c, d)
  <2>1. \A i \in Successes(p)' : d.driver \in Simulators => Kept(p, i)
    <3>1. CASE d.items = <<>>
      BY <1>2, <3>1 DEF Successes
    <3>2. CASE d.driver \in Externals
      BY <3>2, DriverAssumption
    <3>3. CASE d.items = c.items /\ d.driver = c.driver
      BY <1>2, <3>3 DEF Successes, Kept
    <3>4. QED
      BY <1>6, <3>1, <3>2, <3>3 DEF KeepsAnswers
  <2>2. \A q \in Pollers : \A i \in Successes(q)' : cycle'[q].driver \in Simulators => Kept(q, i)
    BY <1>2, <1>4, <2>1
  <2>3. read_counter' = read_counter
    BY <1>6 DEF KeepsAnswers
  <2>4. QED
    BY <2>2, <2>3 DEF ReadsFresh, Kept
<1>7. CASE AddsAnswer(c, d)
  <2>1. PICK item \in Item :
          /\ c.driver \in Simulators /\ d.driver = c.driver
          /\ d.items = Append(c.items, item)
          /\ IF item.success
               THEN /\ item.sequence = read_counter[c.driver] + 1
                    /\ read_counter' = [read_counter EXCEPT ![c.driver] = @ + 1]
               ELSE UNCHANGED read_counter
    BY <1>7 DEF AddsAnswer
  <2>2. /\ DOMAIN d.items = 1..(n + 1) /\ d.items[n + 1] = item
        /\ \A i \in 1..n : d.items[i] = c.items[i]
    BY <1>1, <2>1
  <2>3. \A i \in Successes(p)' : i # n + 1 => Kept(p, i)
    <3> SUFFICES ASSUME NEW i \in Successes(p)', i # n + 1 PROVE Kept(p, i)
      OBVIOUS
    <3>1. i \in 1..(n + 1) /\ d.items[i].success
      BY <1>2, <2>2 DEF Successes
    <3>2. i \in 1..n
      BY <1>1, <3>1
    <3>3. d.items[i] = c.items[i] /\ i \in DOMAIN c.items
      BY <1>1, <2>2, <3>2
    <3>4. QED
      BY <1>2, <2>1, <3>1, <3>3 DEF Successes, Kept
  <2>4. CASE ~item.success
    <3>1. \A i \in Successes(p)' : i # n + 1
      BY <1>2, <2>2, <2>4 DEF Successes
    <3>2. \A q \in Pollers : \A i \in Successes(q)' : Kept(q, i)
      BY <1>4, <2>3, <3>1
    <3>3. read_counter' = read_counter
      BY <2>1, <2>4
    <3>4. QED
      BY <3>2, <3>3 DEF ReadsFresh, Kept
  <2>5. CASE item.success
    <3> DEFINE s == c.driver
               top == read_counter[s]
               New(q, i) == q = p /\ i = n + 1
    <3>1. top \in Nat /\ s \in Simulators
      BY <1>5, <2>1
    <3>2. \A q \in Pollers : \A i \in Successes(q)' : Kept(q, i) \/ New(q, i)
      BY <1>4, <2>3
    <3>3. read_counter' = [read_counter EXCEPT ![s] = top + 1]
      BY <2>1, <2>5
    <3>4. cycle'[p].driver = s /\ cycle'[p].items[n + 1].sequence = top + 1
      BY <1>2, <2>1, <2>2, <2>5
    <3>5. \A i \in Successes(p) : i < n + 1
      BY <1>1 DEF Successes
    <3> HIDE DEF c, n
    <3>6. SUFFICES ASSUME NEW q \in Pollers, NEW r \in Pollers,
                          NEW i \in Successes(q)', NEW j \in Successes(r)',
                          cycle'[q].driver = cycle'[r].driver, cycle'[q].driver \in Simulators
                   PROVE  /\ cycle'[q].items[i].sequence <= read_counter'[cycle'[q].driver]
                          /\ cycle'[q].items[i].sequence = cycle'[r].items[j].sequence => q = r /\ i = j
                          /\ (q = r /\ i < j) => cycle'[q].items[i].sequence < cycle'[r].items[j].sequence
      BY DEF ReadsFresh
    <3> DEFINE a == cycle[q].items[i].sequence
               b == cycle[r].items[j].sequence
               t == cycle'[q].driver
    <3>7. ASSUME Kept(q, i)
          PROVE  /\ a \in Nat /\ i \in Nat /\ a <= read_counter[t] /\ i \in Successes(q)
                 /\ cycle'[q].items[i].sequence = a /\ cycle[q].driver = t
      BY <1>3, <3>6, <3>7 DEF Kept, ReadsFresh
    <3>8. ASSUME Kept(r, j)
          PROVE  /\ b \in Nat /\ j \in Nat /\ b <= read_counter[t] /\ j \in Successes(r)
                 /\ cycle'[r].items[j].sequence = b /\ cycle[r].driver = t
      BY <1>3, <3>6, <3>8 DEF Kept, ReadsFresh
    <3>9. read_counter[t] \in Nat /\ read_counter'[t] \in Nat /\ read_counter[t] <= read_counter'[t]
      BY <1>5, <3>1, <3>3, <3>6
    <3>10. t = s => read_counter[t] = top /\ read_counter'[t] = top + 1
      BY <1>5, <3>1, <3>3
    <3>11. CASE Kept(q, i) /\ Kept(r, j)
      <4>1. /\ a = b => q = r /\ i = j
            /\ (q = r /\ i < j) => a < b
        BY <3>6, <3>7, <3>8, <3>11 DEF ReadsFresh
      <4>2. a <= read_counter'[t]
        BY <3>7, <3>9, <3>11
      <4>3. QED
        BY <3>7, <3>8, <3>11, <4>1, <4>2
    <3>12. CASE Kept(q, i) /\ New(r, j)
      <4>1. t = s /\ cycle'[r].items[j].sequence = top + 1
        BY <3>4, <3>6, <3>12
      <4>2. a <= top
        BY <3>7, <3>10, <3>12, <4>1
      <4>3. QED
        BY <3>1, <3>7, <3>10, <3>12, <4>1, <4>2
    <3>13. CASE New(q, i) /\ Kept(r, j)
      <4>1. t = s /\ cycle'[q].items[i].sequence = top + 1
        BY <3>4, <3>13
      <4>2. b <= top
        BY <3>8, <3>10, <3>13, <4>1
      <4>3. ~(q = r /\ i < j)
        <5>1. q = r => j < i
          BY <3>5, <3>8, <3>13
        <5>2. j \in Nat /\ i = n + 1 /\ n \in Nat
          BY <1>1, <3>8, <3>13
        <5>3. QED
          BY <5>1, <5>2
      <4>4. QED
        BY <3>1, <3>8, <3>10, <3>13, <4>1, <4>2, <4>3
    <3>14. CASE New(q, i) /\ New(r, j)
      <4>1. t = s /\ cycle'[q].items[i].sequence = top + 1 /\ q = r /\ i = j /\ i = n + 1
        BY <3>4, <3>14
      <4>2. n \in Nat
        BY <1>1
      <4>3. QED
        BY <3>1, <3>10, <4>1, <4>2
    <3>15. QED
      BY <3>2, <3>11, <3>12, <3>13, <3>14
  <2>6. QED
    BY <2>4, <2>5
<1>8. QED
  BY <1>6, <1>7 DEF Moves

LEMMA RegistryKeepsIInv ==
  ASSUME IInv, ChangeRegistry
  PROVE  IInv'
<1>1. UNCHANGED <<read_counter, cycle, cycles>>
  BY DEF ChangeRegistry, RegisterDriver, ReplaceDriver, UnregisterDriver, ClearDrivers
<1>2. ReadsFresh'
  BY <1>1 DEF IInv, ReadsFresh, Successes
<1>3. /\ drivers \in [Protocols -> Drivers \cup {NoDriver}]
      /\ \A protocol \in Protocols :
           drivers[protocol] # NoDriver => ProtocolOf(drivers[protocol]) = protocol
  BY DEF IInv, Types
<1>4. /\ drivers' \in [Protocols -> Drivers \cup {NoDriver}]
      /\ \A protocol \in Protocols :
           drivers'[protocol] # NoDriver => ProtocolOf(drivers'[protocol]) = protocol
  <2>1. ASSUME NEW driver \in Drivers, drivers' = Replaced(driver)
        PROVE  <1>4!1 /\ <1>4!2
    <3>1. ProtocolOf(driver) \in Protocols
      BY DriverAssumption DEF ProtocolOf, Drivers
    <3>2. drivers' = [drivers EXCEPT ![ProtocolOf(driver)] = driver]
      BY <2>1 DEF Replaced
    <3> HIDE DEF ProtocolOf
    <3>3. QED
      BY <1>3, <3>1, <3>2
  <2>2. ASSUME NEW protocol \in Protocols,
               drivers' = [drivers EXCEPT ![protocol] = NoDriver]
        PROVE  <1>4!1 /\ <1>4!2
    BY <1>3, <2>2
  <2>3. CASE \E driver \in Drivers : RegisterDriver(driver) \/ ReplaceDriver(driver)
    BY <2>1, <2>3 DEF RegisterDriver, ReplaceDriver
  <2>4. CASE \E protocol \in Protocols : UnregisterDriver(protocol)
    BY <2>2, <2>4 DEF UnregisterDriver
  <2>5. CASE ClearDrivers
    BY <2>5 DEF ClearDrivers
  <2>6. QED
    BY <2>3, <2>4, <2>5 DEF ChangeRegistry
<1>5. QED
  BY <1>1, <1>2, <1>4 DEF IInv, Types

-----------------------------------------------------------------------------

LEMMA InitIInv == Init => IInv
<1> SUFFICES ASSUME Init PROVE IInv
  OBVIOUS
<1> DEFINE options == [allow_batch_read |-> TRUE, check_connection_before_polling |-> FALSE]
           c == Cycle("idle", NoGroup, "Simulator", options, NoDriver)
<1>1. cycle = [p \in Pollers |-> c]
  BY DEF Init
<1>2. CycleOK(c)
  <2>1. options \in PollingSchedulerOptions
    BY DEF PollingSchedulerOptions
  <2>2. "Simulator" \in Protocols
    BY DriverAssumption
  <2> HIDE DEF options
  <2>3. QED
    BY <2>1, <2>2, NewCycleOK
<1>3. c \in CycleRecord /\ c.items = <<>>
  BY <1>2 DEF CycleOK, Cycle
<1> HIDE DEF c
<1>4. ReadsFresh
  BY <1>1, <1>3 DEF ReadsFresh, Successes
<1>5. Types
  <2>1. cycle \in [Pollers -> CycleRecord] /\ \A p \in Pollers : CycleOK(cycle[p])
    BY <1>1, <1>2, <1>3
  <2>2. Default \in Drivers /\ ProtocolOf(Default) = "Simulator"
    BY DriverAssumption DEF Drivers, ProtocolOf
  <2>3. /\ drivers \in [Protocols -> Drivers \cup {NoDriver}]
        /\ \A protocol \in Protocols :
             drivers[protocol] # NoDriver => ProtocolOf(drivers[protocol]) = protocol
    BY <2>2 DEF Init
  <2>4. read_counter \in [Simulators -> Nat] /\ cycles \in [Pollers -> 0..MaxCycles]
    BY BoundAssumption DEF Init
  <2>5. QED
    BY <2>1, <2>3, <2>4 DEF Types
<1>6. QED
  BY <1>4, <1>5 DEF IInv

LEMMA NextIInv == IInv /\ [Next]_vars => IInv'
<1> SUFFICES ASSUME IInv, [Next]_vars PROVE IInv'
  OBVIOUS
<1>1. CASE ChangeRegistry
  BY <1>1, RegistryKeepsIInv
<1>2. ASSUME NEW p \in Pollers, Poll(p) PROVE IInv'
  <2>1. PICK d : Moves(p, d)
    BY <1>2, PollMoves DEF IInv
  <2>2. Types'
    BY <2>1, MovesKeepTypes DEF IInv
  <2>3. ReadsFresh'
    BY <2>1, MovesKeepFresh DEF IInv
  <2>4. QED
    BY <2>2, <2>3 DEF IInv
<1>3. CASE UNCHANGED vars
  BY <1>3 DEF vars, IInv, Types, ReadsFresh, Successes
<1>4. QED
  BY <1>1, <1>2, <1>3 DEF Next

(* The inductive invariant of execute_group_once and the driver registry.  *)
THEOREM Safety == Spec => []IInv
<1>1. QED
  BY InitIInv, NextIInv, PTL DEF Spec

(* A driver stands under its own protocol in the registry, and a cycle is  *)
(* in a state of execute_group_once.                                       *)
THEOREM TypeCorrect == Spec => []TypeOK
<1>1. ASSUME IInv PROVE TypeOK
  <2>1. ASSUME NEW p \in Pollers
        PROVE  LET c == cycle[p]
               IN /\ c.at \in {"idle", "check", "batch", "sequence", "done"}
                  /\ c.at \in {"check", "batch", "sequence"} => c.driver \in Drivers
                  /\ c.status \in Statuses
                  /\ c.at = "done" <=> c.status # "NotStarted"
                  /\ c.task_results \in Seq(Result)
    <3>1. CycleOK(cycle[p])
      BY <1>1 DEF IInv, Types
    <3>2. QED
      BY <3>1 DEF CycleOK, CycleRecord
  <2>2. QED
    BY <1>1, <2>1 DEF IInv, Types, TypeOK
<1>2. QED
  BY <1>1, Safety, PTL

(* A simulator's counter never serves two reads, however the cycles of any *)
(* number of pollers overlap.                                              *)
THEOREM FreshTheorem == Spec => []ReadsFresh
<1>1. IInv => ReadsFresh
  BY DEF IInv
<1>2. QED
  BY <1>1, Safety, PTL

(* What a cycle that read ends with. *)
LEMMA CycleThatRead ==
  ASSUME IInv, NEW p \in Pollers, HasRead(cycle[p])
  PROVE  /\ cycle[p].tasks = EnabledTasks(Group[cycle[p].group])
         /\ cycle[p].tasks # <<>> /\ cycle[p].tasks \in Seq(Tasks)
         /\ cycle[p].items \in Seq(Item)
         /\ cycle[p].task_results = TaskResults(cycle[p].tasks, cycle[p].items)
         /\ cycle[p].status = FinalizeGroupResult(cycle[p].task_results)
         /\ ItemsFollowTasks(cycle[p])
         /\ cycle[p].driver \in Simulators => Len(cycle[p].items) = Len(cycle[p].tasks)
<1> DEFINE c == cycle[p]
<1>1. CycleOK(c) /\ c.at = "done" /\ c.tasks # <<>>
  BY DEF IInv, Types, HasRead
<1> HIDE DEF c
<1>2. QED
  BY <1>1 DEF CycleOK, CycleRecord, NothingRead, AsksEnabledTasks, c

(* The results of a cycle pair each enabled task of its group with the     *)
(* answer to that task, although they are paired by position only.         *)
THEOREM FollowTheorem == Spec => []ResultsFollowTasks
<1>1. ASSUME IInv PROVE ResultsFollowTasks
  <2> SUFFICES ASSUME NEW p \in Pollers, HasRead(cycle[p])
               PROVE  LET c == cycle[p]
                          tasks == EnabledTasks(Group[c.group])
                      IN /\ Len(c.task_results) = Len(tasks)
                         /\ \A i \in DOMAIN tasks :
                              /\ c.task_results[i].tag = tasks[i].tag
                              /\ c.driver \in Simulators => c.task_results[i].read.tag = tasks[i].tag
    BY DEF ResultsFollowTasks
  <2> DEFINE c == cycle[p]
             tasks == EnabledTasks(Group[c.group])
             results == c.task_results
  <2>1. /\ c.tasks = tasks /\ tasks \in Seq(Tasks) /\ c.items \in Seq(Item)
        /\ results = TaskResults(tasks, c.items) /\ ItemsFollowTasks(c)
        /\ c.driver \in Simulators => Len(c.items) = Len(tasks)
    BY <1>1, CycleThatRead
  <2> HIDE DEF c, tasks
  <2>2. /\ Len(results) = Len(tasks)
        /\ \A i \in 1..Len(tasks) :
             /\ results[i].tag = tasks[i].tag
             /\ i <= Len(c.items) => results[i].read = c.items[i]
    BY <2>1, TaskResultsFacts
  <2>3. ASSUME NEW i \in DOMAIN tasks
        PROVE  /\ results[i].tag = tasks[i].tag
               /\ c.driver \in Simulators => results[i].read.tag = tasks[i].tag
    <3>1. i \in 1..Len(tasks)
      BY <2>1, <2>3
    <3>2. ASSUME c.driver \in Simulators
          PROVE  results[i].read = c.items[i] /\ c.items[i].tag = tasks[i].tag
      BY <2>1, <2>2, <3>1, <3>2 DEF ItemsFollowTasks
    <3>3. QED
      BY <2>2, <3>1, <3>2
  <2>4. QED
    BY <2>2, <2>3 DEF c, tasks
<1>2. QED
  BY <1>1, Safety, PTL

(* The status of a cycle counts the enabled tasks that were answered with  *)
(* success, whatever number of items a batch answer had.                   *)
THEOREM StatusTheorem == Spec => []StatusTellsReads
<1>1. ASSUME IInv PROVE StatusTellsReads
  <2> SUFFICES ASSUME NEW p \in Pollers, HasRead(cycle[p])
               PROVE  LET c == cycle[p]
                          tasks == EnabledTasks(Group[c.group])
                          answered == {i \in DOMAIN tasks : i <= Len(c.items) /\ c.items[i].success}
                      IN /\ c.status = "Succeeded" <=> answered = DOMAIN tasks
                         /\ c.status = "Failed" <=> answered = {}
                         /\ c.status = "PartialSuccess" <=> answered \notin {{}, DOMAIN tasks}
    BY DEF StatusTellsReads
  <2> DEFINE c == cycle[p]
             tasks == EnabledTasks(Group[c.group])
             results == c.task_results
             answered == {i \in DOMAIN tasks : i <= Len(c.items) /\ c.items[i].success}
  <2>1. /\ c.tasks = tasks /\ tasks \in Seq(Tasks) /\ c.items \in Seq(Item) /\ tasks # <<>>
        /\ results = TaskResults(tasks, c.items) /\ c.status = FinalizeGroupResult(results)
    BY <1>1, CycleThatRead
  <2> HIDE DEF c, tasks
  <2>2. /\ results \in Seq(Result) /\ Len(results) = Len(tasks)
        /\ \A i \in 1..Len(tasks) :
             /\ i <= Len(c.items) => results[i].success = c.items[i].success
             /\ i > Len(c.items) => ~results[i].success
    BY <2>1, TaskResultsFacts
  <2>3. /\ DOMAIN results = 1..Len(tasks) /\ DOMAIN tasks = 1..Len(tasks)
        /\ Len(tasks) \in Nat /\ Len(c.items) \in Nat /\ Len(tasks) # 0
    BY <2>1, <2>2
  <2> HIDE DEF results
  <2>4. results # <<>>
    BY <2>2, <2>3
  <2>5. Succeeded(results) = answered
    <3>1. \A i \in 1..Len(tasks) :
            results[i].success <=> i <= Len(c.items) /\ c.items[i].success
      BY <2>2, <2>3
    <3>2. QED
      BY <2>3, <3>1 DEF Succeeded
  <2> HIDE DEF answered
  <2>6. /\ c.status = "Succeeded" <=> answered = DOMAIN tasks
        /\ c.status = "Failed" <=> answered = {}
        /\ c.status = "PartialSuccess" <=> answered \notin {{}, DOMAIN tasks}
    BY <2>1, <2>2, <2>3, <2>4, <2>5, FinalizeFacts
  <2>7. QED
    BY <2>6 DEF c, tasks, answered
<1>2. QED
  BY <1>1, Safety, PTL

(* Whatever the registry does meanwhile, one execution talks to one driver *)
(* from its connection check to its last read, and hands it only batches   *)
(* that this driver and the group allow.                                   *)
THEOREM OneDriverTheorem == Spec => OneDriverPerCycle
<1> DEFINE One == \A p \in Pollers :
                    Polling(cycle[p]) => Fits(cycle[p]) /\ cycle'[p].driver = cycle[p].driver
<1>1. ASSUME IInv, [Next]_vars PROVE [One]_vars
  <2>1. ASSUME NEW p \in Pollers, Polling(cycle[p]) PROVE Fits(cycle[p])
    BY <1>1, <2>1 DEF IInv, Types, CycleOK
  <2>2. CASE ChangeRegistry
    <3>1. cycle' = cycle
      BY <2>2 DEF ChangeRegistry, RegisterDriver, ReplaceDriver, UnregisterDriver, ClearDrivers
    <3>2. QED
      BY <2>1, <3>1
  <2>3. ASSUME NEW q \in Pollers, Poll(q) PROVE One
    <3>1. PICK d : Moves(q, d)
      BY <1>1, <2>3, PollMoves DEF IInv
    <3>2. cycle'[q] = d /\ \A p \in Pollers \ {q} : cycle'[p] = cycle[p]
      BY <1>1, <3>1 DEF Moves, IInv, Types
    <3>3. Polling(cycle[q]) => d.driver = cycle[q].driver
      BY <3>1 DEF Moves
    <3>4. QED
      BY <2>1, <3>2, <3>3
  <2>4. CASE UNCHANGED vars
    BY <2>4
  <2>5. QED
    BY <1>1, <2>2, <2>3, <2>4 DEF Next
<1>2. QED
  BY <1>1, Safety, PTL DEF Spec, OneDriverPerCycle
=============================================================================
