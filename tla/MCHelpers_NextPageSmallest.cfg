CONSTANTS
  PageSizes <- MCPageSizes
  Calls <- MCCalls
  None = None
  NonInt = NonInt
SPECIFICATION HSpec
INVARIANTS
  NextPageMultipleSmallest
\* Each behaviour is one call; the state after it is final.
CHECK_DEADLOCK FALSE
