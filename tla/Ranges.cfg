SPECIFICATION FairSpec
CONSTANTS
  NWorkers = 3
  NParts = 2
  MaxWorkerStarts = 2
  MaxRuns = 2
INVARIANTS
  PoolIsSound
PROPERTIES
  ReadsWholeOrRefuses PoolIsLive
\* After a run that raised, or after MaxRuns, a closed pool has nothing left to do.
CHECK_DEADLOCK FALSE
