SPECIFICATION Spec
CONSTANTS
  None = None
  Requests = {r1, r2}
  QueryIds = {q1, q2}
  Threads = 2
  Backends <- Both
CHECK_DEADLOCK FALSE
INVARIANTS
  TypeOK
  Cancellable
  CancelledWasAsked
PROPERTIES
  NoCancelAfterAnswer
  DeadlineMet
  RustCancelEnds
