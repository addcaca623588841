SPECIFICATION Spec
CONSTANTS
  Client = {c1, c2}
  MaxRequests = 2
  REQUEST_RETRIES = 3
  MayInterrupt = {c1}
  MaxStops = 1
  CRASH_FREE_CYCLES = 1
INVARIANTS
  CopiesBounded NoMalformedReply AttemptsLeft
CHECK_DEADLOCK FALSE
