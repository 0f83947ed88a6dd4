CONSTANTS
  NumTxns = 3
  NumPuppets = 2
  InputBufferSize = 1
  LookaheadBufferSize = 2
  ActivePerPuppet = 2
  SchedSize = 4
  FailCountSize = 4
  OpTicks = 2
  PuppetQSize = 2
  Objects <- mcObjects
  reads <- mcReads
  writes <- mcWrites
SPECIFICATION Spec
INVARIANT NoConflictActive
