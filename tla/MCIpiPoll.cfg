SPECIFICATION Spec
CONSTANTS
  Target = {cm33, cm33_fpu}
  Main = main
  Irq = irq
  NoThread = none
  MaxSignals = 1
SYMMETRY Symmetry
INVARIANTS
  HandOver
  MutexOwner
  NoLostNotification
PROPERTY BellSafeSpec
