SPECIFICATION Spec
CONSTANTS
  Num = 1
  Cap = 1
  Client = ca55
  Fail = {}
CHECK_DEADLOCK FALSE
INVARIANT MessageReadable
