SPECIFICATION Spec
CONSTANTS
  Num = 1
  Cap = 1
  Runs = 2
  Fail = {"alloc", "open", "noio", "irq", "map", "virtio", "vdev", "choice"}
CHECK_DEADLOCK FALSE
PROPERTY BellSafeSpec
INVARIANTS
  NoLostRing
  MutexOwner
  RunsWithDevices
  ReleasedAtExit
