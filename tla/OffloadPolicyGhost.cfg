SPECIFICATION Spec
CONSTANTS
  Key = {k1, k2, k3}
  Capacity = 2
  MaxTouch = 1
  MaxWant = 1
PROPERTIES
  GhostAdmission
