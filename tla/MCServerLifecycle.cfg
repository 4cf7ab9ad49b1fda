SPECIFICATION Spec
CONSTANT Builds <- MCBuilds
CHECK_DEADLOCK FALSE
INVARIANTS
  TypeOK
  HandlersHaveServer
  ServesWhole
PROPERTY StopEnds
