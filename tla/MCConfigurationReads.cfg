SPECIFICATION Spec
CONSTANTS
  Snapshots <- MCSnapshots
  Queries <- MCQueries
  Offsets = {0, 2}
  MaxLimit = 2
CHECK_DEADLOCK FALSE
INVARIANTS
  TypeOK
  PagesTile
  TreeMatchesList
  TagsFollowDevices
