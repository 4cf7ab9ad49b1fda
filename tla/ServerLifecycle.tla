---------------------------- MODULE ServerLifecycle ----------------------------
(***************************************************************************)
(* The life of the process dispatcher_server: main() registers modules,    *)
(* constructs the read service, registers routes, starts the HTTP server,  *)
(* waits for Enter and stops it again, while the worker thread that        *)
(* DrogonHttpServer spawns runs the Drogon loop and its handlers, which    *)
(* capture the server's Impl.                                              *)
(*                                                                         *)
(* What main() registers are literals of the build.  The model takes any   *)
(* of Builds and lets the code's checks decide; MainModules are the ones   *)
(* the source has.                                                         *)
(*                                                                         *)
(* Drogon is external.  Its loop begins some time after the thread was     *)
(* spawned, or ends the process when the port is taken; a termination      *)
(* signal makes it end; quit() of a loop that does not run yet may have no *)
(* effect; run() returns when no handler is running any more.  With one    *)
(* worker thread one handler runs at a time.                               *)
(***************************************************************************)
EXTENDS Naturals, Sequences

CONSTANT Builds       \* the literals the process may have been built with

Endpoints == {"health", "modules", "objects", "tree", "devices", "tags"}
ConfigurationEndpoints == {"objects", "tree", "devices", "tags"}

(* `names_given': the product and executable names of the version info are *)
(* not empty.  `service_given': the factory returned a service.            *)
Build == [modules : Seq(STRING), names_given : BOOLEAN, snapshot_is_valid : BOOLEAN,
          service_given : BOOLEAN, paths : [Endpoints -> STRING],
          options_are_valid : BOOLEAN]

ASSUME BuildAssumption == Builds \subseteq Build

VARIABLES
  build,        \* the literals of this process
  main,         \* where the main thread is in main()
  modules,      \* ApplicationContext::modules_
  started,      \* ApplicationContext::started_
  routes,       \* HttpRouteDispatcher::routes_, and what Drogon was given of it
  impl,         \* DrogonHttpServer::Impl: "none", "alive" or "destroyed"
  running,      \* Impl::running
  worker,       \* Impl::worker: "none", "spawned", "looping", "returned" or "joined"
  quitting,     \* the Drogon loop was told to end
  quit_lost,    \* history: quit() was called before the loop ran, to no effect
  handler,      \* a request handler is "idle" or "busy"
  exit          \* "none", "success", "failure" or "aborted"

mainState == <<main, modules, started, routes, impl, exit>>
serverState == <<running, worker, quitting, quit_lost, handler>>
vars == <<build, main, modules, started, routes, impl, running, worker, quitting,
          quit_lost, handler, exit>>

Init ==
  /\ build \in Builds
  /\ main = "registering" /\ modules = <<>> /\ started = FALSE /\ routes = {}
  /\ impl = "none" /\ running = FALSE /\ worker = "none"
  /\ quitting = FALSE /\ quit_lost = FALSE /\ handler = "idle" /\ exit = "none"

(* A thread of the process runs only while the process does.               *)
Alive == exit = "none"

At(place) == Alive /\ main = place

-----------------------------------------------------------------------------
(* The main thread *)

InitialModules == <<"scada_common", "scada_contracts", "scada_core">>

MainModules ==
  InitialModules \o
  <<"scada_objects", "scada_devices", "scada_tags", "scada_protocols", "scada_polling",
    "scada_runtime", "scada_historian", "scada_events", "scada_alarms", "scada_api",
    "scada_realtime", "scada_http", "scada_app">>

(* register_module takes a module with a code of its own.                  *)
Registers(code) == code # "" /\ \A i \in DOMAIN modules : modules[i] # code

(* What main() holds goes with the process.                                *)
Fail == exit' = "failure" /\ UNCHANGED <<main, modules, started, routes, impl>>

RegisterModule_FailureIgnored ==
  LET code == build.modules[Len(modules) + 1]
  IN /\ At("registering") /\ Len(modules) < Len(build.modules)
     /\ \/ Registers(code) /\ modules' = Append(modules, code) /\ UNCHANGED main
        \/ ~Registers(code) /\ main' = "starting" /\ UNCHANGED modules
     /\ UNCHANGED <<build, started, routes, impl, exit, serverState>>

RegisterModule ==
  LET code == build.modules[Len(modules) + 1]
  IN /\ At("registering") /\ Len(modules) < Len(build.modules)
     /\ \/ /\ Registers(code) /\ modules' = Append(modules, code)
           /\ UNCHANGED <<main, started, routes, impl, exit>>
        \/ ~Registers(code) /\ Fail
     /\ UNCHANGED <<build, serverState>>

ModulesRegistered ==
  /\ At("registering") /\ Len(modules) = Len(build.modules)
  /\ main' = "starting"
  /\ UNCHANGED <<build, modules, started, routes, impl, exit, serverState>>

StartContext ==
  /\ At("starting")
  /\ \/ /\ build.names_given /\ started' = TRUE /\ main' = "constructing"
        /\ UNCHANGED <<modules, routes, impl, exit>>
     \/ ~build.names_given /\ Fail
  /\ UNCHANGED <<build, serverState>>

(* An invalid snapshot throws, and nothing in main() catches it.           *)
ConstructService ==
  /\ At("constructing")
  /\ \/ build.snapshot_is_valid /\ main' = "system_routes" /\ UNCHANGED exit
     \/ ~build.snapshot_is_valid /\ exit' = "aborted" /\ UNCHANGED main
  /\ UNCHANGED <<build, modules, started, routes, impl, serverState>>

(* add_route refuses a path that another route has; all methods are GET.   *)
Adds(taken, endpoint) ==
  /\ build.paths[endpoint] # ""
  /\ \A other \in taken : build.paths[other] # build.paths[endpoint]

AddRoute(taken, endpoint) ==
  IF Adds(taken, endpoint) THEN taken \cup {endpoint} ELSE taken

(* make_system_route_dispatcher ignores whether the two were added.        *)
RegisterSystemRoutes ==
  /\ At("system_routes")
  /\ routes' = AddRoute(AddRoute(routes, "health"), "modules")
  /\ main' = "object_routes"
  /\ UNCHANGED <<build, modules, started, impl, exit, serverState>>

(* The register functions: each endpoint is tried, and main() ends the     *)
(* process when one was refused.                                           *)
Register(place, endpoints, added, next) ==
  /\ At(place)
  /\ \/ /\ build.service_given /\ endpoints \subseteq added
        /\ routes' = added /\ main' = next
        /\ UNCHANGED <<modules, started, impl, exit>>
     \/ ~(build.service_given /\ endpoints \subseteq added) /\ Fail
  /\ UNCHANGED <<build, serverState>>

RegisterObjectRoutes ==
  Register("object_routes", {"objects", "tree"},
           AddRoute(AddRoute(routes, "objects"), "tree"), "device_routes")

RegisterDeviceRoute ==
  Register("device_routes", {"devices"}, AddRoute(routes, "devices"), "tag_routes")

RegisterTagRoute ==
  Register("tag_routes", {"tags"}, AddRoute(routes, "tags"), "starting_server")

(* DrogonHttpServer::start: the handlers, the listener and the worker.     *)
StartServer ==
  /\ At("starting_server")
  /\ \/ /\ build.options_are_valid
        /\ impl' = "alive" /\ running' = TRUE /\ worker' = "spawned"
        /\ main' = "announcing"
        /\ UNCHANGED <<modules, started, routes, exit>>
     \/ ~build.options_are_valid /\ Fail /\ UNCHANGED <<running, worker>>
  /\ UNCHANGED <<build, quitting, quit_lost, handler>>

Announce ==
  /\ At("announcing") /\ main' = "waiting"
  /\ UNCHANGED <<build, modules, started, routes, impl, exit, serverState>>

Stop_FlagKept ==
  /\ At("waiting")
  /\ main' = "joining" /\ quitting' = TRUE
  /\ UNCHANGED <<build, modules, started, routes, impl, running, worker, quit_lost, handler,
                 exit>>

Stop_QuitForgotten ==
  /\ At("waiting")
  /\ running' = FALSE /\ main' = "joining" /\ UNCHANGED <<quitting, quit_lost>>
  /\ UNCHANGED <<build, modules, started, routes, impl, worker, handler, exit>>

(* Enter, or the end of the standard input; then Impl::stop up to join().  *)
Stop ==
  /\ At("waiting")
  /\ running' = FALSE /\ main' = "joining"
  /\ \/ worker \in {"spawned", "looping"} /\ quitting' = TRUE /\ UNCHANGED quit_lost
     \/ worker = "spawned" /\ quit_lost' = TRUE /\ UNCHANGED quitting
     \/ worker = "returned" /\ UNCHANGED <<quitting, quit_lost>>
  /\ UNCHANGED <<build, modules, started, routes, impl, worker, handler, exit>>

Join_Detached ==
  /\ At("joining") /\ main' = "leaving"
  /\ UNCHANGED <<build, modules, started, routes, impl, running, worker, quitting,
                 quit_lost, handler, exit>>

Join ==
  /\ At("joining") /\ worker = "returned"
  /\ worker' = "joined" /\ main' = "leaving"
  /\ UNCHANGED <<build, modules, started, routes, impl, running, quitting, quit_lost,
                 handler, exit>>

(* ~Impl: its stop() finds running false already.                          *)
DestroyServer ==
  /\ At("leaving") /\ impl' = "destroyed" /\ main' = "returning"
  /\ UNCHANGED <<build, modules, started, routes, exit, serverState>>

Return ==
  /\ At("returning") /\ exit' = "success"
  /\ UNCHANGED <<build, main, modules, started, routes, impl, serverState>>

MainStep ==
  \/ RegisterModule \/ ModulesRegistered \/ StartContext \/ ConstructService
  \/ RegisterSystemRoutes \/ RegisterObjectRoutes \/ RegisterDeviceRoute
  \/ RegisterTagRoute \/ StartServer \/ Announce \/ Join \/ DestroyServer \/ Return

-----------------------------------------------------------------------------
(* The worker thread: external, as src/ uses it *)

Loop ==
  /\ Alive /\ worker = "spawned"
  /\ \/ worker' = "looping" /\ UNCHANGED exit
     \/ exit' = "aborted" /\ UNCHANGED worker
  /\ UNCHANGED <<build, main, modules, started, routes, impl, running, quitting,
                 quit_lost, handler>>

Signal ==
  /\ Alive /\ worker = "looping" /\ ~quitting /\ quitting' = TRUE
  /\ UNCHANGED <<build, mainState, running, worker, quit_lost, handler>>

Request ==
  /\ Alive /\ worker = "looping" /\ ~quitting
  /\ handler = "idle" /\ handler' = "busy"
  /\ UNCHANGED <<build, mainState, running, worker, quitting, quit_lost>>

Answer ==
  /\ Alive /\ handler = "busy" /\ handler' = "idle"
  /\ UNCHANGED <<build, mainState, running, worker, quitting, quit_lost>>

LoopReturns ==
  /\ Alive /\ worker = "looping" /\ quitting /\ handler = "idle"
  /\ worker' = "returned"
  /\ UNCHANGED <<build, mainState, running, quitting, quit_lost, handler>>

WorkerStep == Loop \/ Answer \/ LoopReturns

Next == MainStep \/ Stop \/ WorkerStep \/ Signal \/ Request

(* Both threads go on; nobody has to press Enter, signal or request.       *)
Spec == Init /\ [][Next]_vars /\ WF_vars(MainStep) /\ WF_vars(WorkerStep)

-----------------------------------------------------------------------------
(* Properties *)

Places == {"registering", "starting", "constructing", "system_routes", "object_routes",
           "device_routes", "tag_routes", "starting_server", "announcing", "waiting",
           "joining", "leaving", "returning"}

TypeOK ==
  /\ build \in Builds
  /\ main \in Places
  /\ modules \in Seq(STRING) /\ started \in BOOLEAN /\ routes \subseteq Endpoints
  /\ impl \in {"none", "alive", "destroyed"}
  /\ running \in BOOLEAN /\ (running <=> main \in {"announcing", "waiting"})
  /\ worker \in {"none", "spawned", "looping", "returned", "joined"}
  /\ quitting \in BOOLEAN /\ quit_lost \in BOOLEAN /\ handler \in {"idle", "busy"}
  /\ exit \in {"none", "success", "failure", "aborted"}

(* A handler uses the Impl it captured: none runs, or can still begin,     *)
(* once the Impl is destroyed, nor before it exists.                       *)
HandlersHaveServer ==
  Alive /\ (handler = "busy" \/ worker = "looping") => impl = "alive"

(* No request is answered by half a server: when a handler runs, every     *)
(* module of the build is registered, under a code of its own, the context *)
(* is started, the snapshot was valid, and each configuration endpoint has *)
(* a route that no other endpoint shares.                                  *)
ServesWhole ==
  handler = "busy" =>
    /\ modules = build.modules /\ started /\ build.snapshot_is_valid
    /\ \A i, j \in DOMAIN modules : modules[i] = modules[j] => i = j
    /\ ConfigurationEndpoints \subseteq routes
    /\ \A e, f \in routes : build.paths[e] = build.paths[f] => e = f

(* A process that reports failure never opened the port, and one that      *)
(* reports success has no thread left.                                     *)
ExitsClean ==
  /\ exit = "failure" => worker = "none"
  /\ exit = "success" => worker = "joined" /\ ~running /\ impl = "destroyed"

(* Stopping ends the process, unless quit() came before the loop ran: then *)
(* the join may wait for ever.                                             *)
StopEnds == main = "joining" ~> (~Alive \/ quit_lost)
=============================================================================
