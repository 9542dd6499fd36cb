CONSTANTS
  i1 = i1
  i2 = i2
  None = None
  BadgeBits = 4
  Instances = {i1, i2}
  Compositions <- MCCompositions
  InstConfigs <- MCInstConfigs
SPECIFICATION Spec
INVARIANTS
  RpcExhaustionOnlyWhenFull
\* A generation pass ends once every end has been asked for its badges.
CHECK_DEADLOCK FALSE
