SPECIFICATION Spec
CONSTANTS
  Line <- MCLine
  Fragment <- MCFragment
  Prints <- MCPrints
  MaxWrites = 0
  NoPlan = NoPlan
  NoResult = NoResult
  EngineEpsilon = 2
  ProblemEpsilon = 1
INVARIANT PositiveHasPlan
CHECK_DEADLOCK FALSE
