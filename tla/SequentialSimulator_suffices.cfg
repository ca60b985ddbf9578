SPECIFICATION Spec
CONSTANTS
  Fluent <- MCFluent
  Bool <- MCBool
  Number <- MCNumber
  Watched <- MCWatched
  Allowed <- MCAllowed
  Goal <- MCGoal
  InitialState <- MCInitialState
  Effect <- MCEffect
  Simulated <- MCSimulated
  Condition <- MCCondition
  MaxEffects = 3
  MaxSteps = 2
  NoState = NoState
INVARIANT FullCheckSuffices
CHECK_DEADLOCK FALSE
