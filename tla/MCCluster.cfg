SPECIFICATION Spec
CONSTANTS
  Broker = {b1, b2}
  ClientThread = {c1, c2}
  WorkerThread = {w1}
  MaxTasks = 3
  MaxStops = 1
  MaxEvents = 3
  HWM = 1
SYMMETRY Symmetry
INVARIANTS
  TypeOK WorkersInOnePlace TaskInOnePlace OneHop RepliesMatch
PROPERTIES
  TasksSurvive
CHECK_DEADLOCK FALSE
