SPECIFICATION Spec
CONSTANTS
  Scenarios <- MCScenarios
  TypeLimit = 4
INVARIANTS
  StreamsPlaced
  StreamsSuffice
  BackendsMatch
  BackendsGiven
  UndefinedOnly
CHECK_DEADLOCK FALSE
