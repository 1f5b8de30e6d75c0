SPECIFICATION Spec
CONSTANTS
  NLayers = 4
  NGroups = 3
  GroupOf <- DecoderEmbedHead
  ReadAhead = 1
  Pinned = TRUE
  MaxReaderStarts = 1
  MaxStream = 1
INVARIANT DepthOneArmsNothing
