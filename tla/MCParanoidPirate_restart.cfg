SPECIFICATION FairSpec
CONSTANTS
  Client = {c1}
  Worker = {w1}
  MaxRequests = 1
  REQUEST_RETRIES = 2
  MayInterrupt = {w1, c1}
  HWM = 2
  HEARTBEAT_LIVENESS = 2
  HEARTBEAT_INTERVAL = 1
  MaxStops = 1
  WORKER_LIVENESS = 2
  WORKER_INTERVAL = 1
  INTERVAL_INIT = 1
  INTERVAL_MAX = 3
  WORK_TIME = 1
  OVERLOAD_TIME = 1
  CRASH_FREE_CYCLES = 0
INVARIANTS
  TypeOK LivenessPositive NoPopFromEmpty BackoffBounded SingleCopy
PROPERTIES
  DeadWorkersLeave LiveWorkersReturn RequestEnds
