SPECIFICATION Spec
CONSTANTS
  Pollers = {"p1", "p2"}
  Protocols = {"Simulator", "ModbusTcp"}
  Simulators = {"s1", "s2"}
  Externals = {"e1"}
  ExternalProtocol <- MCExternalProtocol
  ExternalBatchSize <- MCExternalBatchSize
  Default = "s1"
  Group <- MCGroup
  Options <- MCOptions
  MaxCycles = 1
INVARIANTS
  TypeOK
  ResultsFollowTasks
  StatusTellsReads
  ReadsFresh
PROPERTY OneDriverPerCycle
