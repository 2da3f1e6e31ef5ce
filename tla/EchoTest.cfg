SPECIFICATION Spec
CONSTANTS
  Num = 3
  Cap = 2
  ThreadLocal = TRUE
  Runs = 2
CHECK_DEADLOCK FALSE
INVARIANTS
  OneUnderWay
  ReportIsTrue
  AwaitedUnderWay
