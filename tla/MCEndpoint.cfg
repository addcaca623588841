SPECIFICATION Spec
CONSTANTS
  ClientThread = {c1, c2}
  WorkerThread = {w1}
INVARIANT
  PluggedIn
CHECK_DEADLOCK FALSE
