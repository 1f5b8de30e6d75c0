SPECIFICATION FairSpec
CONSTANTS
  NLayers = 3
  NGroups = 1
  GroupOf <- OneShape
  ReadAhead = 2
  Pinned = FALSE
  MaxReaderStarts = 2
  MaxStream = 1
INVARIANTS
  TargetsHaveASlot
PROPERTIES
  SourceIsLive
