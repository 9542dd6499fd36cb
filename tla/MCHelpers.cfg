CONSTANTS
  PageSizes <- MCPageSizes
  Calls <- MCCalls
  None = None
  NonInt = NonInt
SPECIFICATION HSpec
INVARIANTS
  DtbTypeOK
  ArmDecodesSpec
  GenericMatchesSpec
  AlignIsRoundDown
  GetPageSizeLargest
  RoundingBrackets
\* Each behaviour is one call; the state after it is final.
CHECK_DEADLOCK FALSE
