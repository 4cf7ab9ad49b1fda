--------------------------- MODULE MCServerLifecycle ---------------------------
(* ServerLifecycle for the build the source has and for builds in which one  *)
(* literal is wrong: a module code twice or empty, no names, an invalid      *)
(* snapshot, no service, a path twice or empty, invalid server options.      *)
EXTENDS ServerLifecycle

Paths == [e \in Endpoints |-> e]

Source ==
  [modules |-> MainModules, names_given |-> TRUE, snapshot_is_valid |-> TRUE,
   service_given |-> TRUE, paths |-> Paths, options_are_valid |-> TRUE]

MCBuilds ==
  {Source,
   [Source EXCEPT !.modules[16] = "scada_core"],
   [Source EXCEPT !.modules = <<"scada_core", "">>],
   [Source EXCEPT !.modules = InitialModules, !.names_given = FALSE],
   [Source EXCEPT !.modules = InitialModules, !.snapshot_is_valid = FALSE],
   [Source EXCEPT !.modules = InitialModules, !.service_given = FALSE],
   [Source EXCEPT !.modules = InitialModules, !.options_are_valid = FALSE]}
  \cup
  {[Source EXCEPT !.modules = InitialModules, !.paths[e] = path] :
     e \in Endpoints, path \in {"", "objects"}}
=============================================================================
