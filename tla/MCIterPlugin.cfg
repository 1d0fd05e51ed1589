\* Two types; functions of up to two outputs and three inputs of one or two wires.
SPECIFICATION Spec
CONSTANTS
  Types = 2
  MaxOutputs = 2
  MaxInputs = 2
  MaxParameters = 4
  MaxLength = 2
  MaxCount = 2
  TopWire = 40
  Modulus = 2
  Aligned = TRUE
INVARIANTS
  SlicesFound
PROPERTIES
  IsMapCalls
  Terminates
