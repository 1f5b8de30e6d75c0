SPECIFICATION Spec
CONSTANTS
  Daemon = {d1, d2}
  Operator = {}
  Adapter = {a}
  NoAdapter = NoAdapter
  DailyCap = 1
  Budget = 9
  Estimate = {1}
  MaxIterations = 1
  NoLimit = NoLimit
  DaysPerMonth = 2
  MaxDay = 0
  MaxStarts = 2
  Rank = {rank0}
  Main = rank0
  MaxStep = 6
  SaveEvery = 2
  KeepLast = 2
  Patience = 2
  MaxAttempts = 1
  MaxRuns = 2
  NoStep = NoStep
  N = 3
  Edges <- Triangle
  Samplers = {3}
  Row = {r1, r2}
  Size = 4
  Server = {s1, s2}
  Run = {run1, run2}
  Train = {run1, run2}
  Process = {p1, p2}
  Entry = {e1, e2, e3}
  None = None
SYMMETRY Symmetry
INVARIANTS
  RecordsTyped
  CountersAreTrue
  RollbackIsSound
  ResumeIsReal
  SortsOrRefuses
  ExecutionIsExclusive
  LineageIsSound
PROPERTIES
  OutcomesStand
\* Tokens, ids and steps are used up in the end.
CHECK_DEADLOCK FALSE
