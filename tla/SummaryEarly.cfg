CONSTANTS
  NumBloomParts = 2
  NumBloomChunks = 4
  BloomChunkSize = 2
  OutFIFODepth = 3
  Fingerprints <- early
SPECIFICATION Spec
INVARIANT CheckIsRight
