SPECIFICATION Spec
CONSTANTS
  Actors = {ann}
  NoActor = NoActor
  Times = {1, 2}
  NoTime = 0
  MaxTransitions = 4
INVARIANTS
  TypeOK
  FieldsFollowHistory
  OccurrencesAreEpisodes
