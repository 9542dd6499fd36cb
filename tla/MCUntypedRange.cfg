CONSTANTS
  Starts <- MCStarts
  Sizes <- MCSizes
  CtzZero = 5
  MaxUts = 12
SPECIFICATION Spec
INVARIANTS
  TypeOK
  UntypedsMinimal
PROPERTIES
  Termination
  AbsSpec
\* The call ends once the list is returned.
CHECK_DEADLOCK FALSE
