CONSTANTS
  a = a
  b = b
  c = c
  g = g
  L = L
  conn1 = conn1
  conn2 = conn2
  None = None
  LabelCycle = LabelCycle
  InstOrder <- MCInstOrder
  Conns <- MCConns
  AddrSpaces <- MCAddrSpaces
  Labels <- MCLabelsInst
SPECIFICATION MCSpecNoSelfLabel
INVARIANTS
  MatchesReference
\* The call returns (phase "done") or raises (phase "error") and stops.
CHECK_DEADLOCK FALSE
