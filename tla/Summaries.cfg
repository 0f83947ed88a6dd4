CONSTANTS
  NumBloomParts = 2
  NumBloomChunks = 4
  BloomChunkSize = 1
  OutFIFODepth = 3
  Fingerprints <- both
SPECIFICATION FairSpec
INVARIANTS
  TypeOK
  AnswersAreRight
PROPERTIES
  ImplementsFilters
  OperationsEnd
