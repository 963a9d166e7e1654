CONSTANTS
  Units = {u1, u2}
  Priorities = {0, 1}
  Callers = {c1}
  Policy = "Priority"
  InitialBackoff = 2
  MaxBackoff = 5
  FlushPeriod = 2
  MaxTime = 6
  MaxWrites = 3
SYMMETRY Symmetry
SPECIFICATION Spec
INVARIANTS
  TypeOK
  BackoffFormula
  BackoffHonoured
  NoOverdueBackoff
PROPERTIES
  ImplementsTimeless
CHECK_DEADLOCK FALSE
