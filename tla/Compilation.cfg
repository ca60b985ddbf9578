SPECIFICATION Spec
CONSTANTS
  Number <- MCNumber
  Jobs <- MCJobs
  MaxSteps = 4
INVARIANTS
  TypeOK
  SolutionsMapBack
  StatesAgree
  StepsKept
  GoalsKept
  KindsDeclared
  AcceptedNotRefused
CHECK_DEADLOCK FALSE
