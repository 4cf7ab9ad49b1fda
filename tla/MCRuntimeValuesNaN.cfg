SPECIFICATION Spec
CONSTANTS
  TagIds = {"t1"}
  OtherTag = "t2"
  NoTag = NoTag
  Payloads <- MCPayloads
  Configs <- MCConfigs
  NoConfig = NoConfig
  Qualities = {"Simulation", "Stale"}
  Rules <- MCRules
  Times = {1, 2}
  NoTime = 0
  IntResults = {0}
  MaxReads = 3
  MaxEvents = 3
INVARIANT NoChangeNoCount
