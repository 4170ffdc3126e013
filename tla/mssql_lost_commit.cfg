SPECIFICATION Spec
CONSTANTS
  Dialect = "mssql"
  Txns = {t1, t2}
  Writes = {w1, w2}
SYMMETRY Symmetry
INVARIANTS
  CommittedIsKept

