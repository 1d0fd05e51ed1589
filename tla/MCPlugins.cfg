SPECIFICATION Spec
CONSTANTS
  Backends <- MCBackends
  MaxOutputs = 2
  MaxInputs = 5
  MaxLength = 4
  MaxWires = 7
  MaxAssignments = 343
INVARIANTS ResultsExact UndefinedOnly DecompositionsExact
CHECK_DEADLOCK FALSE
