CONSTANTS
  NumTxns = 5
  NumPuppets = 2
  MAX_ACTIVE_PER_PUPPET = 2
  MAX_PENDING_PER_CLIENT = 2
  Objects <- mcObjects
  reads <- mcReads
  writes <- mcWrites
SPECIFICATION Spec
INVARIANT LogComplete
