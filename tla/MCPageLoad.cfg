SPECIFICATION NetworkSpec
CONSTANTS
  Pages = {"Devices", "Tags", "Objects", "System"}
  MaxLoads = 3
INVARIANTS
  TypeOK
  LatestLoadWins
  PanelExplainsData
PROPERTIES
  LoadSettles
CHECK_DEADLOCK FALSE
