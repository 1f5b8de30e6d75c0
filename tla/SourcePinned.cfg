SPECIFICATION Spec
CONSTANTS
  NLayers = 4
  NGroups = 2
  GroupOf <- DecoderAndVocab
  ReadAhead = 2
  Pinned = TRUE
  MaxReaderStarts = 2
  MaxStream = 2
CONSTRAINT RestartOrTwoCopies
INVARIANTS
  TypeOK
  NoOverwriteInUse BytesIntact
  TableIsSound ReleaseFindsItsLayer
  ReaderIsAccountedFor
PROPERTIES
  KeepsItsPromise
