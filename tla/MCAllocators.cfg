CONSTANTS
  i1 = i1
  i2 = i2
  ifx = ifx
  ify = ify
  None = None
  BadgeBits = 4
  Instances = {i1, i2}
  Compositions <- MCCompositions
  InstConfigs <- MCInstConfigs
SPECIFICATION ASpec
INVARIANTS
  TypeOK
  RpcBadgesDistinct
  RpcMatchesReference
  VqTypeOK
  VirtQueueIdsDistinct
  VirtQueueMatchesReference
\* A generation pass ends once every end has been asked for its badges
\* or its ID.
CHECK_DEADLOCK FALSE
