SPECIFICATION Spec
CONSTANTS
  Client = {c1}
  Worker = {w1, w2}
  MaxRequests = 1
  REQUEST_RETRIES = 2
  MayInterrupt = {}
  HWM = 2
  HEARTBEAT_LIVENESS = 1
  HEARTBEAT_INTERVAL = 1
  MaxStops = 0
  WORKER_LIVENESS = 1
  WORKER_INTERVAL = 1
  INTERVAL_INIT = 1
  INTERVAL_MAX = 1
  WORK_TIME = 0
  OVERLOAD_TIME = 0
  CRASH_FREE_CYCLES = 0
SYMMETRY Symmetry
INVARIANTS
  LRUOrder SingleCopy
PROPERTY
  ListIsLeases
