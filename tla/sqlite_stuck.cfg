SPECIFICATION Spec
CONSTANTS
  Dialect = "sqlite"
  Txns = {t1, t2}
  Writes = {w1, w2}
SYMMETRY Symmetry
INVARIANTS
  FailedIsDiscarded

