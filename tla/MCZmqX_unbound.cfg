SPECIFICATION FairSpec
CONSTANTS
  Proc = {p1, p2}
  Name = {n1}
  Endpoint = {e1}
  MayInterrupt = {}
  MayEnd = {}
  MaxStarts = 1
  None = None
PROPERTY
  NotBoundYet
CHECK_DEADLOCK FALSE
