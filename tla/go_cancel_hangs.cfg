SPECIFICATION Spec
CONSTANTS
  None = None
  Requests = {r1}
  QueryIds = {q1}
  Threads = 2
  Backends <- Go
CHECK_DEADLOCK FALSE
PROPERTIES
  CancelEnds
