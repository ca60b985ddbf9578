SPECIFICATION FairSpec
CONSTANTS
  Event = {e1, e2, e3}
  Bound <- MCBound
  Time <- MCTime
  Epsilon = 0
  MaxStored = 4
  NoCall = NoCall
  NoEvent = NoEvent
INVARIANTS
  TypeOK
  ListsClosed
  DistancesFeasible
  ModelIsEarliest
  LoopTestRedundant
PROPERTIES
  ImplementsSTN
  ChecksEnd
