SPECIFICATION Spec
CONSTANTS
  Floor = 4
  Ceil = 128
  Gain = 2
  Dwell = 3
  ReleasePatience = 3
  Configured = {1, 2, 4, 24, 80, 128, 200}
  NoCoefficient = NoCoefficient
  Signals = 3
  Reader = {r1}
  Trainings = 2
  Lines = 3
  PipeLines = 2
  MaxLen = 2
  MaxPolls = 3
  MaxRows = 5
  Server = {s1}
  Run = {run1, run2}
  Train = {run1}
  Presses = 3
  Daemon = {d1}
  Operator = {o1}
  Adapter = {a}
  NoAdapter = NoAdapter
  DailyCap = 1
  Budget = 9
  Estimate = {1}
  MaxIterations = 1
  NoLimit = NoLimit
  DaysPerMonth = 1
  MaxDay = 0
  MaxStarts = 1
INVARIANTS
  ProcessesTyped
  PauseIsTheOperators
  StatusIsTrue CleanedUnlessExcused
PROPERTIES
  FollowsTheSignal
  SigintsAreHeeded
  LinesArriveOnce NobodyIsStuck
  StepsArriveOnce
  SlotIsFreed
  InstancesEnd
  SignalStops
\* Runs, tokens, trainings and lines are used up in the end.
CHECK_DEADLOCK FALSE
