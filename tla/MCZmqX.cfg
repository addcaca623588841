SPECIFICATION Spec
CONSTANTS
  Proc = {p1, p2}
  Name = {n1, n2}
  Endpoint = {e1, e2, e3}
  MayInterrupt = {p1}
  MayEnd = {p1, p2}
  MaxStarts = 2
  None = None
INVARIANTS
  TypeOK ItemsHold OneBinder LookupsReach
CHECK_DEADLOCK FALSE
