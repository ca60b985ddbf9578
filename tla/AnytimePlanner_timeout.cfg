SPECIFICATION Spec
CONSTANTS
  Line <- MCLine
  Fragment <- MCFragment
  Prints <- MCPrints
  MaxWrites = 1
  NoPlan = NoPlan
  NoResult = NoResult
  EngineEpsilon = 0
  ProblemEpsilon = 0
PROPERTY TimeoutImposed
CHECK_DEADLOCK FALSE
