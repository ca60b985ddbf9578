SPECIFICATION Spec
CONSTANTS
  Fluent = {"f", "g"}
  Value = {"a", "b"}
  Default <- MCDefault
  Update <- MCUpdate
  Hash <- MCHash
  MaxAncestors = 2
  MaxStates = 4
  Error = Error
  NoAnswer = NoAnswer
  NoCall = NoCall
  NoHash = NoHash
INVARIANTS
  TypeOK
  ChainBounded
  Canonical
  HashContract
PROPERTIES
  ImplementsStates
  CallsReturn
