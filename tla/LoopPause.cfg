SPECIFICATION LoopSpec
CONSTANTS
  Daemon = {d1}
  Operator = {o1}
  Adapter = {a}
  NoAdapter = NoAdapter
  DailyCap = 2
  Budget = 9
  Estimate = {1}
  MaxIterations = NoLimit
  NoLimit = NoLimit
  DaysPerMonth = 1
  MaxDay = 0
  MaxStarts = 2
INVARIANT PauseHolds
