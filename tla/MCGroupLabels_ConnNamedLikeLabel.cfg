CONSTANTS
  a = a
  b = b
  c = c
  g = g
  L = L
  conn1 = conn1
  conn2 = conn2
  None = None
  LabelCycle = LabelCycle
  InstOrder <- MCInstOrder
  Conns <- MCConnsNamedL
  AddrSpaces <- MCAddrSpaces
  Labels <- MCLabelsPlain
SPECIFICATION Spec
INVARIANTS
  CycleIffReference
\* The call returns (phase "done") or raises (phase "error") and stops.
CHECK_DEADLOCK FALSE
