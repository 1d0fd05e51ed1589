\* Programs over five wires; ranges of two wires, so that they soon grow, up to one wire below the top.
SPECIFICATION Spec
CONSTANTS
  MaxWire = 5
  DefaultSize = 2
  Raw = Raw
  Garbage = Garbage
  MaxArg = 4
  MaxOutputs = 2
  MaxMapped = 1
  AvoidForeign = TRUE
INVARIANTS
  LayoutExact
  FindInputsExact
  OutputsFree
PROPERTIES
  IsWireStore
CHECK_DEADLOCK FALSE
