SPECIFICATION FlowFairSpec
CONSTANTS
  Broker = {b1, b2}
  ClientThread = {c1, c2}
  WorkerThread = {w1}
  MaxTasks = 3
  MaxStops = 1
INVARIANTS
  FlowTypeOK WorkersCounted
PROPERTIES
  FlowIsService TasksAnswered
CHECK_DEADLOCK FALSE
