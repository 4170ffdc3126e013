SPECIFICATION Spec
CONSTANTS
  Dialect = "sqlite"
  Txns = {t1, t2, t3}
  Writes = {w1, w2, w3}
SYMMETRY Symmetry
INVARIANTS
  TypeOK
  CommittedIsDurable
  RolledBackIsGone
PROPERTIES
  OwnCommitOnly
