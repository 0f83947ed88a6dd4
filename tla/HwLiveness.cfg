CONSTANTS
  NumTxns = 3
  NumPuppets = 2
  InputBufferSize = 1
  LookaheadBufferSize = 2
  ActivePerPuppet = 1
  SchedSize = 2
  FailCountSize = 4
  OpTicks = 2
  PuppetQSize = 2
  Objects <- mcObjects
  reads <- mcReads
  writes <- mcWrites
SPECIFICATION FairSpec
PROPERTY EveryTxnDone
