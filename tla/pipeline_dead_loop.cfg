\* Redis is unreachable while a worker reads.
SPECIFICATION Spec
CONSTANTS
  Clients = {c1}
  Workers = {w1}
  Publishers = {p1}
  Unsteady = {w1}
  Faults = {"redis"}
  MaxMessages = 2
INVARIANT LoopRunsWhileRunning
CHECK_DEADLOCK FALSE
