\* Bodies over four wires and parameters of two; calls with two outputs.
SPECIFICATION CheckSpec
CONSTANTS
  MaxWire = 30
  DefaultSize = 2
  Raw = Raw
  Garbage = Garbage
  MaxArg = 3
  MaxOutputs = 2
  MaxMapped = 2
  AvoidForeign = TRUE
  Lenient = {"self"}
INVARIANTS
  AcceptedEvaluates
  CheckAgrees
  AllocationsAreRanges
CHECK_DEADLOCK FALSE
