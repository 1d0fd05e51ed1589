SPECIFICATION FairSpec
CONSTANTS
  Types = 2
  Conversions <- MCConversions
  Directives <- MCDirectives
  Signatures <- MCSignatures
  MaxRead = 6
INVARIANTS
  NoRecursion
  UndefinedOnly
  CallsResolve
  ScopesBalanced
PROPERTIES
  Terminates
  IsInlined
CHECK_DEADLOCK FALSE
