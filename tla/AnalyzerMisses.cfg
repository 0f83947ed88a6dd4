SPECIFICATION Spec
CONSTANTS
  MAX_TXN_OBJS = 2
  num_threads = 2
  RandMax = 4
  Inputs <- mcInputs
  MAX_CLIENTS = 1
  MAX_PUPPETS = 2
  Second = 4
  Gap = 1
  Args <- mcArgs
  NumTxns = 4
  Objects = {"a", "b"}
  reads <- mcReads
  writes <- mcWrites
  num_puppets = 2
  num_buckets = 3
  num_throughput_windows = 3
  Logs <- mcLogs
  Word = 64
  IntWord = 16
  Outputs <- mcOutputs
  Items = {"i", "j"}
  capacity = 4
  Objids = {1, 2, 3, 5, 8, 13, 21, 34}
  BLOOM_TOTAL_BITS = 16
  BLOOM_NUM_HASHES = 2
  WordBits = 4
  HashModulus = 256
  HashShift = 8
  hash_constants <- mcHashConstants
  ObjectBits = 6
  NumBloomParts = 2
  LogBloomChunks = 1
  LogBloomChunkSize = 4
  Golden = 632
  Scheduled = 5
  NumPuppets = 2
  Workers = 2
  ActivePerPuppet = 2
INVARIANT
  SaysNoneOnlyIfNone
CHECK_DEADLOCK FALSE
