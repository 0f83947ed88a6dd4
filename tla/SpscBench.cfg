CONSTANTS
  capacity = 4
  LATENCY_SAMPLE_MAX = 2
  MaxTime = 2
  MaxProduced = 5
  Items <- BenchTimes
SPECIFICATION BenchSpec
INVARIANTS
  NoDataRace
  FiguresAreRight
PROPERTIES
  FifoSpec
  BenchEnds
CHECK_DEADLOCK FALSE
