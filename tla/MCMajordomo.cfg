SPECIFICATION Spec
CONSTANTS
  Identity = {i1, i2, i3}
  Process = {p1, p2}
  ServiceName = {"echo"}
  Mmi = {"mmi.service"}
  MmiService = "mmi.service"
  Offered = {"echo"}
  Caller = {c1}
  RETRIES = 2
  MmiFrom = 1
  MaxRequests = 2
  HWM = 1
  HEARTBEAT_EXPIRY = 1
  HEARTBEAT_LIVENESS = 2
  MaxStops = 1
SYMMETRY Symmetry
INVARIANTS
  TypeOK ListsAgree CountsAgree NoIdleWhileQueued AtMostOnce WaitingAreIdle ReplyIsForCall
PROPERTY
  DispatchToLive
CHECK_DEADLOCK FALSE
