SPECIFICATION LSFairSpec
CONSTANTS
  NLayers = 5
  NGroups = 3
  GroupOf <- Untied
  ReadAhead = 2
  Pinned = TRUE
  MaxReaderStarts = 1
  MaxStream = 3
  NDecoder = 3
  Embed = 3
  OutHead = 4
  NBuffers = 2
  RefillBeforeBackward = TRUE
  MaxCompute = 3
INVARIANTS
  LSTypeOK
  KernelsReadTheirLayer ScheduleIsSound NeverOnLoan
PROPERTIES
  ReadAheadEvictsNothingWanted PassEnds
\* The run stops at the first error a get, a wait or autograd raises.
CHECK_DEADLOCK FALSE
