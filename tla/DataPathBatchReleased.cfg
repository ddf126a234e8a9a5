SPECIFICATION Spec
CONSTANTS
  NoReq = none
  Req = {r1, r2}
  Capacities = {1}
INVARIANTS
  BatchReleased
CHECK_DEADLOCK FALSE
