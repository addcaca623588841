SPECIFICATION Spec
CONSTANTS
  Identity = {i1, i2}
  Process = {p1, p2}
  ServiceName = {"echo", "other"}
  Mmi = {"mmi.service"}
  MmiService = "mmi.service"
  Offered = {"echo", "other"}
  Caller = {c1}
  RETRIES = 2
  MmiFrom = 0
  MaxRequests = 1
  HWM = 1
  HEARTBEAT_EXPIRY = 1
  HEARTBEAT_LIVENESS = 2
  MaxStops = 0
PROPERTY
  DispatchToLive
CHECK_DEADLOCK FALSE
