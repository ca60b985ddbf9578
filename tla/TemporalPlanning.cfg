SPECIFICATION Spec
CONSTANTS
  Number <- MCNumber
  Jobs <- MCJobs
  Forever = 1000
  Horizon = 6
  MaxLength = 3
INVARIANTS
  TypeOK
  VerdictRight
  ConversionKeepsPlan
  CompiledPlansValid
  RemovalProjects
CHECK_DEADLOCK FALSE
