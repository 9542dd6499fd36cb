CONSTANTS
  None = None
  NonInt = NonInt
  Nodes <- MCNodes
  Maxes <- MCMaxes
  Archs = {"aarch64", "riscv64"}
SPECIFICATION Spec
INVARIANTS
  ArmTooManyReported
\* One call: the state after it is final.
CHECK_DEADLOCK FALSE
