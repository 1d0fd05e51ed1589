SPECIFICATION Spec
CONSTANTS
  Rams <- MCRams
  Handles = {h1, h2}
  MaxSize = 5
  MaxLength = 3
  MaxCalls = 4
SYMMETRY Symmetry
INVARIANTS
  BackendsAgree
PROPERTY
  IsArray
CHECK_DEADLOCK FALSE
