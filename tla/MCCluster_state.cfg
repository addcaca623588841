SPECIFICATION Spec
CONSTANTS
  Broker = {b1, b2}
  ClientThread = {c1}
  WorkerThread = {w1}
  MaxTasks = 1
  MaxStops = 0
  MaxEvents = 1
  HWM = 1
INVARIANT
  CapacityIsOfPeers
CHECK_DEADLOCK FALSE
