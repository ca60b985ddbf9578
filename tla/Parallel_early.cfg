SPECIFICATION Spec
CONSTANTS
  N = 2
  Nothing = Nothing
INVARIANT EarlyOnlyIfSure
CHECK_DEADLOCK FALSE
