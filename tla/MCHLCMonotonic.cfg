SPECIFICATION Spec
CONSTANTS
  Nodes = {n1, n2}
  LogicalSize = 3
  MaxPhysical = 1
PROPERTIES Monotonic
CHECK_DEADLOCK FALSE
