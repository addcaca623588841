SPECIFICATION FairSpec
CONSTANTS
  Client = {c1, c2}
  Worker = {w1, w2}
  MaxRequests = 1
  REQUEST_RETRIES = 2
  MayInterrupt = {w1}
  HWM = 1
  MaxStops = 1
  CRASH_FREE_CYCLES = 1
INVARIANTS
  TypeOK ListedOnceAndIdle
PROPERTIES
  WorkersReturn RequestEnds
CHECK_DEADLOCK FALSE
