\* Two types, two outputs and an input for each call.
SPECIFICATION Spec
CONSTANTS
  v1 = v1
  v2 = v2
  t1 = t1
  t2 = t2
  Type = {t1, t2}
  Value = {v1, v2}
  Fresh = Fresh
  MaxWire = 1
  TopWire = 5
  MaxDepth = 2
  MaxOutputs = 2
  MaxInputs = 1
  MaxLength = 2
  Directives = {"call", "convert", "delete", "privateInMulti"}
  Checked = TRUE
INVARIANTS
  ActiveConstructed
PROPERTIES
  IsPureCalls
SYMMETRY Symmetry
CHECK_DEADLOCK FALSE
