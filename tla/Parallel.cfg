SPECIFICATION Spec
CONSTANTS
  N = 3
  Nothing = Nothing
INVARIANTS
  TypeOK
  Owed
  ReturnStopsAll
  BestReceived
PROPERTY CallEnds
CHECK_DEADLOCK FALSE
