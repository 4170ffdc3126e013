SPECIFICATION Spec
CONSTANTS
  None = None
  Callers = {p1, p2}
  Conns = {c1}
  Drivers = {d1, d2}
  Txns = {t1}
  Configs <- MCPlain
SYMMETRY Symmetry
INVARIANTS
  NoTxWithoutConnection
