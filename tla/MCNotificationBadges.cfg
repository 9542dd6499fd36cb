CONSTANTS
  i1 = i1
  i2 = i2
  None = None
  NonInt = NonInt
  BadgeBits = 3
  Arch = "aarch64"
  Instances = {i1, i2}
  Compositions <- MCCompositions
  InstConfigs <- MCInstConfigs
  EndConfigs <- MCEndConfigs
SPECIFICATION Spec
INVARIANTS
  TypeOK
  BadgesDistinct
  BadgeWellFormed
\* A generation pass ends once every end has been asked for its badge.
CHECK_DEADLOCK FALSE
