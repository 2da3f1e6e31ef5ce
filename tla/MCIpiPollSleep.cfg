SPECIFICATION Spec
CONSTANTS
  Target = {cm33}
  Main = main
  Irq = irq
  NoThread = none
  MaxSignals = 2
INVARIANT AsleepOnlyUntilInterrupt
