SPECIFICATION RuntimeSpec
CONSTANTS
  Pages = {"Devices", "Tags", "Objects", "System"}
  MaxLoads = 2
PROPERTIES
  ClosedPageEnds
CHECK_DEADLOCK FALSE
