\* Calls three scopes deep over two wires of one type; any directive may be refused.
SPECIFICATION Spec
CONSTANTS
  v1 = v1
  v2 = v2
  t1 = t1
  Type = {t1}
  Value = {v1, v2}
  Fresh = Fresh
  MaxWire = 1
  TopWire = 5
  MaxDepth = 3
  MaxOutputs = 1
  MaxInputs = 2
  MaxLength = 2
  Directives = {"copyMulti", "delete", "publicInMulti", "privateInMulti", "call", "fail"}
  Checked = TRUE
INVARIANTS
  ActiveHeld
PROPERTIES
  WriteOnce
  IsPureCalls
SYMMETRY Symmetry
CHECK_DEADLOCK FALSE
