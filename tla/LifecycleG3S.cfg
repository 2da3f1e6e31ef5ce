SPECIFICATION Spec
CONSTANT
  Fail = {"alloc", "open", "noio", "irq", "map", "virtio", "vdev"}
CHECK_DEADLOCK FALSE
INVARIANTS
  ThreadsHaveDevices
  ReleasedAtExit
