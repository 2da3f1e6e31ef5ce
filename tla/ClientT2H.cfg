SPECIFICATION FairSpec
CONSTANTS
  Num = 2
  Cap = 1
  Client = ca55
  Fail = {"alloc", "open", "noio", "irq", "map", "virtio", "vdev"}
CHECK_DEADLOCK FALSE
INVARIANTS
  RunsWithDevices
  ReleasedAtExit
PROPERTY ProgramEnds
