SPECIFICATION Spec
CONSTANTS
  Daemon = {d1}
  Operator = {o1}
  Adapter = {a}
  NoAdapter = NoAdapter
  DailyCap = 1
  Budget = 3
  Estimate = {1, 2}
  MaxIterations = NoLimit
  NoLimit = NoLimit
  DaysPerMonth = 2
  MaxDay = 2
  MaxStarts = 2
  Process = {p1, p2}
  Entry = {e1, e2, e3}
  None = None
CONSTRAINT Unexcused
INVARIANTS
  CapsHold
PROPERTIES
  CallsReturn
\* Ids are used up in the end.
CHECK_DEADLOCK FALSE
