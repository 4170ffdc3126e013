SPECIFICATION Spec
CONSTANTS
  None = None
  Callers = {p1, p2}
  Conns = {c1, c2}
  Drivers = {d1, d2}
  Txns = {t1}
  Configs <- MCTunnelled
SYMMETRY Symmetry
INVARIANTS
  TypeOK
  OwnedOnce
  OpenIsReachable
PROPERTIES
  OnlyDisconnectDiscards
  TxRefinement
