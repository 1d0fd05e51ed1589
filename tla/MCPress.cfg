SPECIFICATION FairSpec
CONSTANTS
  Types = {0, 1, 2}
  Wires = {0, 1}
  Counts = {0, 1}
  Gates <- MCGates
  Bindings <- MCBindings
  Values = {0, 1}
  MaxSize = 4
  Slack = 2
  MaxCalls = 5
INVARIANTS NothingMoved MeaningKept StopsForReason
PROPERTIES Terminates
CHECK_DEADLOCK FALSE
