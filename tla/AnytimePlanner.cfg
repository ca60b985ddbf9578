SPECIFICATION Spec
CONSTANTS
  Line <- MCLine
  Fragment <- MCFragment
  Prints <- MCPrints
  MaxWrites = 3
  NoPlan = NoPlan
  NoResult = NoResult
  EngineEpsilon = 0
  ProblemEpsilon = 0
INVARIANTS
  TypeOK
  AllDelivered
  NoOrphan
  FinalKeepsPlan
PROPERTIES
  ResultArrives
  LeavingEnds
CHECK_DEADLOCK FALSE
