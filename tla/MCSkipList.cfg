\* Every set of numbers below the top of the type, every call on it.
SPECIFICATION Spec
CONSTANTS
  MaxNumber = 7
  MaxArg = 6
INVARIANTS
  Integrity
  QueriesExact
  ForRangeExact
PROPERTY
  IsNumberSet
