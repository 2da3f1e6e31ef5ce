SPECIFICATION Spec
CONSTANTS
  Num = 3
  Cap = 2
  ThreadLocal = FALSE
  Runs = 2
CHECK_DEADLOCK FALSE
INVARIANT ReportIsTrue
