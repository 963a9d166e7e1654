CONSTANTS
  Units = {u1, u2}
  Priorities = {0, 1}
  Callers = {c1}
  Policy = "FIFO"
  InitialBackoff = 2
  MaxBackoff = 5
  FlushPeriod = 2
  MaxTime = 2
  MaxWrites = 3
SPECIFICATION Spec
CHECK_DEADLOCK FALSE
INVARIANT PolicySupported
