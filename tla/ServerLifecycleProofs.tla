------------------------- MODULE ServerLifecycleProofs -------------------------
(***************************************************************************)
(* Proofs about ServerLifecycle for every set of builds: the server is     *)
(* whole before it serves, a handler has its server, and the process never *)
(* leaves a thread behind.                                                 *)
(***************************************************************************)
EXTENDS ServerLifecycle, TLAPS

-----------------------------------------------------------------------------
(* The inductive invariant *)

Unserved == {"registering", "starting", "constructing", "system_routes", "object_routes",
             "device_routes", "tag_routes", "starting_server"}

(* The server and its worker follow the main thread: they exist once it    *)
(* has started them, and the worker is gone before the server is.          *)
ThreadsFollow ==
  /\ main \in Unserved => impl = "none" /\ worker = "none"
  /\ main \in {"announcing", "waiting", "joining"} =>
       impl = "alive" /\ worker \in {"spawned", "looping", "returned"}
  /\ main = "leaving" => impl = "alive" /\ worker = "joined"
  /\ main = "returning" => impl = "destroyed" /\ worker = "joined"
  /\ handler = "busy" => worker = "looping"

ExitsFollow ==
  /\ exit = "failure" => main \in Unserved
  /\ exit = "success" => main = "returning"

(* The modules are a beginning of the build's, and later all of them.      *)
ModulesFollow ==
  /\ Len(modules) <= Len(build.modules)
  /\ \A i \in DOMAIN modules : modules[i] = build.modules[i]
  /\ \A i, j \in DOMAIN modules : modules[i] = modules[j] => i = j
  /\ main # "registering" => modules = build.modules

StartFollows ==
  /\ main \notin {"registering", "starting"} => started
  /\ main \notin {"registering", "starting", "constructing"} => build.snapshot_is_valid

PathsDiffer(set) == \A e, f \in set : build.paths[e] = build.paths[f] => e = f

RoutesFollow ==
  /\ PathsDiffer(routes)
  /\ main \notin Unserved \ {"device_routes", "tag_routes", "starting_server"} =>
       {"objects", "tree"} \subseteq routes
  /\ main \notin Unserved \ {"tag_routes", "starting_server"} => "devices" \in routes
  /\ main \notin Unserved \ {"starting_server"} => "tags" \in routes

IInv ==
  TypeOK /\ ThreadsFollow /\ ExitsFollow /\ ModulesFollow /\ StartFollows /\ RoutesFollow

-----------------------------------------------------------------------------
(* Facts about the operators *)

(* A route that is added shares its path with no route there was.          *)
LEMMA AddRouteFacts ==
  ASSUME NEW taken \in SUBSET Endpoints, NEW endpoint \in Endpoints, PathsDiffer(taken)
  PROVE  /\ AddRoute(taken, endpoint) \in SUBSET Endpoints
         /\ PathsDiffer(AddRoute(taken, endpoint))
         /\ taken \subseteq AddRoute(taken, endpoint)
BY DEF AddRoute, Adds, PathsDiffer

(* A sequence of strings that agrees with another over its whole length is *)
(* that other.                                                             *)
LEMMA WholeSequence ==
  ASSUME NEW s \in Seq(STRING), NEW t \in Seq(STRING), Len(s) = Len(t),
         \A i \in DOMAIN s : s[i] = t[i]
  PROVE  s = t
OBVIOUS

LEMMA BuildFacts ==
  ASSUME build \in Builds
  PROVE  build.modules \in Seq(STRING) /\ Len(build.modules) \in Nat
<1>1. build \in Build
  BY BuildAssumption
<1> QED
  BY <1>1 DEF Build

-----------------------------------------------------------------------------
(* The invariant is inductive *)

LEMMA InitHolds == Init => IInv
<1> SUFFICES ASSUME Init PROVE IInv
  OBVIOUS
<1>1. build.modules \in Seq(STRING) /\ Len(build.modules) \in Nat
  BY BuildFacts DEF Init
<1>2. TypeOK
  <2>1. modules \in Seq(STRING) /\ routes \subseteq Endpoints /\ main \in Places
    BY DEF Init, Places
  <2>2. running \in BOOLEAN /\ (running <=> main \in {"announcing", "waiting"})
    BY DEF Init
  <2> QED
    BY <2>1, <2>2 DEF Init, TypeOK
<1>3. ModulesFollow
  BY <1>1 DEF Init, ModulesFollow
<1>4. ThreadsFollow /\ ExitsFollow /\ StartFollows /\ RoutesFollow
  BY DEF Init, ThreadsFollow, ExitsFollow, StartFollows, RoutesFollow, PathsDiffer, Unserved
<1> QED
  BY <1>2, <1>3, <1>4 DEF IInv

LEMMA RegisterModuleKeeps == IInv /\ RegisterModule => IInv'
<1> SUFFICES ASSUME IInv, RegisterModule PROVE IInv'
  OBVIOUS
<1> DEFINE code == build.modules[Len(modules) + 1]
<1>1. build.modules \in Seq(STRING) /\ Len(build.modules) \in Nat
  BY BuildFacts DEF IInv, TypeOK
<1>2. /\ main = "registering" /\ main' = main /\ build' = build /\ exit = "none"
      /\ UNCHANGED <<started, routes, impl, serverState>>
      /\ Len(modules) < Len(build.modules)
  BY DEF RegisterModule, At, Alive, Fail
<1>3. modules \in Seq(STRING)
  BY DEF IInv, TypeOK
<1>4. CASE Registers(code) /\ modules' = Append(modules, code) /\ exit' = exit
  <2>1. code \in STRING
    BY <1>1, <1>2, <1>3
  <2>2. /\ modules' \in Seq(STRING) /\ Len(modules') = Len(modules) + 1
        /\ \A i \in DOMAIN modules : modules'[i] = modules[i]
        /\ modules'[Len(modules) + 1] = code
        /\ DOMAIN modules' = DOMAIN modules \cup {Len(modules) + 1}
    BY <1>3, <1>4, <2>1
  <2>3. TypeOK'
    BY <1>2, <1>4, <2>2 DEF IInv, TypeOK, serverState
  <2>4. ModulesFollow'
    <3>1. \A i, j \in DOMAIN modules' : modules'[i] = modules'[j] => i = j
      <4>1. \A i \in DOMAIN modules : modules[i] # code
        BY <1>4 DEF Registers
      <4>2. \A i, j \in DOMAIN modules : modules[i] = modules[j] => i = j
        BY DEF IInv, ModulesFollow
      <4> HIDE DEF code
      <4> QED
        BY <2>2, <4>1, <4>2
    <3>2. Len(modules') <= Len(build'.modules)
      BY <1>1, <1>2, <1>3, <2>2
    <3>3. \A i \in DOMAIN modules' : modules'[i] = build'.modules[i]
      BY <1>2, <2>2 DEF IInv, ModulesFollow
    <3> QED
      BY <1>2, <3>1, <3>2, <3>3 DEF ModulesFollow
  <2>5. (ThreadsFollow /\ ExitsFollow /\ StartFollows /\ RoutesFollow)'
    BY <1>2, <1>4 DEF IInv, ThreadsFollow, ExitsFollow, StartFollows, RoutesFollow,
                      PathsDiffer, Unserved, serverState
  <2> QED
    BY <2>3, <2>4, <2>5 DEF IInv
<1>5. CASE exit' = "failure" /\ modules' = modules
  BY <1>2, <1>5 DEF IInv, TypeOK, Places, ThreadsFollow, ExitsFollow, ModulesFollow,
                    StartFollows, RoutesFollow, PathsDiffer, Unserved, serverState
<1> QED
  BY <1>4, <1>5 DEF RegisterModule, Fail

LEMMA ModulesRegisteredKeeps == IInv /\ ModulesRegistered => IInv'
<1> SUFFICES ASSUME IInv, ModulesRegistered PROVE IInv'
  OBVIOUS
<1>1. build.modules \in Seq(STRING) /\ modules \in Seq(STRING)
  BY BuildFacts DEF IInv, TypeOK
<1>2. modules = build.modules
  BY <1>1, WholeSequence DEF IInv, ModulesFollow, ModulesRegistered
<1> QED
  BY <1>2 DEF IInv, ModulesRegistered, At, TypeOK, Places, ThreadsFollow, ExitsFollow,
              ModulesFollow, StartFollows, RoutesFollow, PathsDiffer, Unserved, serverState

(* The steps that add routes.  What `Register' adds contains the routes    *)
(* there were, and its endpoints when it goes on.                          *)
LEMMA RegisterKeeps ==
  ASSUME IInv, NEW place, NEW endpoints, NEW added, NEW next, Register(place, endpoints, added, next),
         added \in SUBSET Endpoints, PathsDiffer(added), routes \subseteq added,
         \/ place = "object_routes" /\ next = "device_routes" /\ endpoints = {"objects", "tree"}
         \/ place = "device_routes" /\ next = "tag_routes" /\ endpoints = {"devices"}
         \/ place = "tag_routes" /\ next = "starting_server" /\ endpoints = {"tags"}
  PROVE  IInv'
<1>1. main = place /\ UNCHANGED <<build, modules, started, impl, serverState>> /\ exit = "none"
  BY DEF Register, At, Alive, Fail
<1>2. CASE routes' = added /\ main' = next /\ exit' = exit /\ endpoints \subseteq added
  <2>1. TypeOK' /\ ThreadsFollow' /\ ExitsFollow'
    BY <1>1, <1>2 DEF IInv, TypeOK, Places, ThreadsFollow, ExitsFollow, Unserved, serverState
  <2>2. ModulesFollow' /\ StartFollows'
    BY <1>1, <1>2 DEF IInv, ModulesFollow, StartFollows
  <2>3. RoutesFollow'
    BY <1>1, <1>2 DEF IInv, RoutesFollow, PathsDiffer, Unserved
  <2> QED
    BY <2>1, <2>2, <2>3 DEF IInv
<1>3. CASE routes' = routes /\ main' = main /\ exit' = "failure"
  BY <1>1, <1>3 DEF IInv, TypeOK, Places, ThreadsFollow, ExitsFollow, ModulesFollow,
                    StartFollows, RoutesFollow, PathsDiffer, Unserved, serverState
<1> QED
  BY <1>2, <1>3 DEF Register, Fail

LEMMA RoutesKeep ==
  IInv /\ (RegisterSystemRoutes \/ RegisterObjectRoutes \/ RegisterDeviceRoute \/ RegisterTagRoute)
    => IInv'
<1> SUFFICES ASSUME IInv,
                    \/ RegisterSystemRoutes \/ RegisterObjectRoutes
                    \/ RegisterDeviceRoute \/ RegisterTagRoute
             PROVE  IInv'
  OBVIOUS
<1>0. routes \in SUBSET Endpoints /\ PathsDiffer(routes)
  BY DEF IInv, TypeOK, RoutesFollow
<1>1. CASE RegisterSystemRoutes
  <2> DEFINE one == AddRoute(routes, "health")
             two == AddRoute(one, "modules")
  <2>1. one \in SUBSET Endpoints /\ PathsDiffer(one)
    BY <1>0, AddRouteFacts DEF Endpoints
  <2>2. two \in SUBSET Endpoints /\ PathsDiffer(two)
    BY <2>1, AddRouteFacts DEF Endpoints
  <2> HIDE DEF one, two
  <2>3. /\ main = "system_routes" /\ main' = "object_routes" /\ routes' = two
        /\ exit = "none" /\ UNCHANGED <<build, modules, started, impl, exit, serverState>>
    BY <1>1 DEF RegisterSystemRoutes, At, Alive, one, two
  <2>4. TypeOK' /\ ThreadsFollow' /\ ExitsFollow'
    BY <2>2, <2>3 DEF IInv, TypeOK, Places, ThreadsFollow, ExitsFollow, Unserved, serverState
  <2>5. ModulesFollow' /\ StartFollows' /\ RoutesFollow'
    BY <2>2, <2>3 DEF IInv, ModulesFollow, StartFollows, RoutesFollow, PathsDiffer, Unserved
  <2> QED
    BY <2>4, <2>5 DEF IInv
<1>2. CASE RegisterObjectRoutes
  <2> DEFINE one == AddRoute(routes, "objects")
             two == AddRoute(one, "tree")
  <2>1. one \in SUBSET Endpoints /\ PathsDiffer(one) /\ routes \subseteq one
    BY <1>0, AddRouteFacts DEF Endpoints
  <2>2. two \in SUBSET Endpoints /\ PathsDiffer(two) /\ one \subseteq two
    BY <2>1, AddRouteFacts DEF Endpoints
  <2>3. Register("object_routes", {"objects", "tree"}, two, "device_routes")
    BY <1>2 DEF RegisterObjectRoutes
  <2> HIDE DEF one, two
  <2> QED
    BY <2>1, <2>2, <2>3, RegisterKeeps
<1>3. CASE RegisterDeviceRoute
  <2> DEFINE one == AddRoute(routes, "devices")
  <2>1. one \in SUBSET Endpoints /\ PathsDiffer(one) /\ routes \subseteq one
    BY <1>0, AddRouteFacts DEF Endpoints
  <2>2. Register("device_routes", {"devices"}, one, "tag_routes")
    BY <1>3 DEF RegisterDeviceRoute
  <2> HIDE DEF one
  <2> QED
    BY <2>1, <2>2, RegisterKeeps
<1>4. CASE RegisterTagRoute
  <2> DEFINE one == AddRoute(routes, "tags")
  <2>1. one \in SUBSET Endpoints /\ PathsDiffer(one) /\ routes \subseteq one
    BY <1>0, AddRouteFacts DEF Endpoints
  <2>2. Register("tag_routes", {"tags"}, one, "starting_server")
    BY <1>4 DEF RegisterTagRoute
  <2> HIDE DEF one
  <2> QED
    BY <2>1, <2>2, RegisterKeeps
<1> QED
  BY <1>1, <1>2, <1>3, <1>4

(* The remaining steps of the main thread change neither modules nor       *)
(* routes.                                                                 *)
LEMMA MainKeeps ==
  IInv /\ (StartContext \/ ConstructService \/ StartServer \/ Announce \/ Stop \/ Join
             \/ DestroyServer \/ Return) => IInv'
<1> SUFFICES ASSUME IInv,
                    \/ StartContext \/ ConstructService \/ StartServer \/ Announce
                    \/ Stop \/ Join \/ DestroyServer \/ Return
             PROVE  IInv'
  OBVIOUS
<1> USE DEF IInv, At, Alive, Fail, serverState
<1>0. UNCHANGED <<build, modules, routes>>
  BY DEF StartContext, ConstructService, StartServer, Announce, Stop, Join, DestroyServer, Return
<1>1. TypeOK'
  <2>1. build' \in Builds /\ modules' \in Seq(STRING) /\ routes' \subseteq Endpoints
    BY <1>0 DEF TypeOK
  <2>2. main' \in Places
    BY DEF TypeOK, Places, StartContext, ConstructService, StartServer, Announce, Stop, Join,
           DestroyServer, Return
  <2>3. started' \in BOOLEAN
    BY DEF TypeOK, StartContext, ConstructService, StartServer, Announce, Stop, Join,
           DestroyServer, Return
  <2>4. impl' \in {"none", "alive", "destroyed"}
    BY DEF TypeOK, StartContext, ConstructService, StartServer, Announce, Stop, Join,
           DestroyServer, Return
  <2>5. running' \in BOOLEAN /\ (running' <=> main' \in {"announcing", "waiting"})
    <3>1. running \in BOOLEAN /\ (running <=> main \in {"announcing", "waiting"})
      BY DEF TypeOK
    <3>2. CASE StartContext \/ ConstructService
      BY <3>1, <3>2 DEF StartContext, ConstructService
    <3>3. CASE StartServer
      <4>1. CASE running' = TRUE /\ main' = "announcing"
        BY <4>1
      <4>2. CASE main' = main /\ running' = running
        BY <3>1, <4>2
      <4> QED
        BY <3>3, <4>1, <4>2 DEF StartServer
    <3>4. CASE Announce
      BY <3>1, <3>4 DEF Announce
    <3>5. CASE Stop
      BY <3>1, <3>5 DEF Stop
    <3>6. CASE Join \/ DestroyServer \/ Return
      BY <3>1, <3>6 DEF Join, DestroyServer, Return
    <3> QED
      BY <3>2, <3>3, <3>4, <3>5, <3>6
  <2>6. worker' \in {"none", "spawned", "looping", "returned", "joined"}
    BY DEF TypeOK, StartContext, ConstructService, StartServer, Announce, Stop, Join,
           DestroyServer, Return
  <2>7. quitting' \in BOOLEAN /\ quit_lost' \in BOOLEAN
    BY DEF TypeOK, StartContext, ConstructService, StartServer, Announce, Stop, Join,
           DestroyServer, Return
  <2>8. /\ handler' \in {"idle", "busy"}
        /\ exit' \in {"none", "success", "failure", "aborted"}
    BY DEF TypeOK, StartContext, ConstructService, StartServer, Announce, Stop, Join,
           DestroyServer, Return
  <2> QED
    BY <2>1, <2>2, <2>3, <2>4, <2>5, <2>6, <2>7, <2>8 DEF TypeOK
<1>2. ThreadsFollow' /\ ExitsFollow'
  <2>1. CASE StartContext \/ ConstructService
    BY <2>1 DEF StartContext, ConstructService, ThreadsFollow, ExitsFollow, Unserved
  <2>2. CASE StartServer \/ Announce
    BY <2>2 DEF StartServer, Announce, ThreadsFollow, ExitsFollow, Unserved
  <2>3. CASE Stop \/ Join
    BY <2>3 DEF Stop, Join, ThreadsFollow, ExitsFollow, Unserved
  <2>4. CASE DestroyServer \/ Return
    BY <2>4 DEF DestroyServer, Return, ThreadsFollow, ExitsFollow, Unserved
  <2> QED
    BY <2>1, <2>2, <2>3, <2>4
<1>3. ModulesFollow' /\ StartFollows'
  BY <1>0 DEF ModulesFollow, StartFollows, StartContext, ConstructService, StartServer,
              Announce, Stop, Join, DestroyServer, Return
<1>4. RoutesFollow'
  BY <1>0 DEF RoutesFollow, PathsDiffer, Unserved, StartContext, ConstructService, StartServer,
              Announce, Stop, Join, DestroyServer, Return
<1> QED
  BY <1>1, <1>2, <1>3, <1>4

LEMMA WorkerKeeps == IInv /\ (WorkerStep \/ Signal \/ Request) => IInv'
<1> SUFFICES ASSUME IInv, WorkerStep \/ Signal \/ Request PROVE IInv'
  OBVIOUS
<1> USE DEF IInv, Alive, mainState
<1>1. UNCHANGED <<build, main, modules, started, routes, impl, running>>
  BY DEF WorkerStep, Loop, Answer, LoopReturns, Signal, Request
<1>2. TypeOK'
  BY <1>1 DEF TypeOK, WorkerStep, Loop, Answer, LoopReturns, Signal, Request
<1>3. ThreadsFollow' /\ ExitsFollow'
  BY <1>1 DEF ThreadsFollow, ExitsFollow, Unserved, TypeOK, Places,
              WorkerStep, Loop, Answer, LoopReturns, Signal, Request
<1>4. ModulesFollow' /\ StartFollows' /\ RoutesFollow'
  BY <1>1 DEF ModulesFollow, StartFollows, RoutesFollow, PathsDiffer
<1> QED
  BY <1>2, <1>3, <1>4

LEMMA StepKeeps == IInv /\ [Next]_vars => IInv'
<1> SUFFICES ASSUME IInv, [Next]_vars PROVE IInv'
  OBVIOUS
<1>1. CASE MainStep
  BY <1>1, RegisterModuleKeeps, ModulesRegisteredKeeps, RoutesKeep, MainKeeps DEF MainStep
<1>2. CASE Stop
  BY <1>2, MainKeeps
<1>3. CASE WorkerStep \/ Signal \/ Request
  BY <1>3, WorkerKeeps
<1>4. CASE UNCHANGED vars
  BY <1>4 DEF vars, IInv, TypeOK, ThreadsFollow, ExitsFollow, ModulesFollow, StartFollows,
              RoutesFollow, PathsDiffer
<1> QED
  BY <1>1, <1>2, <1>3, <1>4 DEF Next

(* The main thread, the worker, the modules and the routes keep to their   *)
(* order in every reachable state.                                         *)
THEOREM Safety == Spec => []IInv
BY InitHolds, StepKeeps, PTL DEF Spec

-----------------------------------------------------------------------------
(* What follows *)

(* Every variable has its type, and the running flag of the server is set  *)
(* exactly from start() to stop().                                         *)
THEOREM TypeCorrect == Spec => []TypeOK
<1>1. IInv => TypeOK
  BY DEF IInv
<1> QED
  BY <1>1, Safety, PTL

(* No handler runs or can begin without the Impl it captured.              *)
THEOREM HandlersTheorem == Spec => []HandlersHaveServer
<1>1. IInv => HandlersHaveServer
  BY DEF IInv, TypeOK, Places, ThreadsFollow, HandlersHaveServer, Unserved
<1> QED
  BY <1>1, Safety, PTL

(* No request is answered by half a server.                                *)
THEOREM WholeTheorem == Spec => []ServesWhole
<1>1. IInv => ServesWhole
  <2> SUFFICES ASSUME IInv, handler = "busy" PROVE ServesWhole
    BY DEF ServesWhole
  <2>1. main \in {"announcing", "waiting", "joining"}
    BY DEF IInv, TypeOK, Places, ThreadsFollow, Unserved
  <2>2. modules = build.modules /\ started /\ build.snapshot_is_valid
    BY <2>1 DEF IInv, ModulesFollow, StartFollows
  <2>3. \A i, j \in DOMAIN modules : modules[i] = modules[j] => i = j
    BY DEF IInv, ModulesFollow
  <2>4. /\ ConfigurationEndpoints \subseteq routes
        /\ \A e, f \in routes : build.paths[e] = build.paths[f] => e = f
    BY <2>1 DEF IInv, RoutesFollow, PathsDiffer, ConfigurationEndpoints, Unserved
  <2> QED
    BY <2>2, <2>3, <2>4 DEF ServesWhole
<1> QED
  BY <1>1, Safety, PTL

(* A process that reports failure never opened the port, and one that      *)
(* reports success has no thread left.                                     *)
THEOREM ExitTheorem == Spec => []ExitsClean
<1>1. IInv => ExitsClean
  BY DEF IInv, TypeOK, ThreadsFollow, ExitsFollow, ExitsClean, Unserved
<1> QED
  BY <1>1, Safety, PTL
=============================================================================
