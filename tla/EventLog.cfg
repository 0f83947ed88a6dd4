CONSTANTS
  NumTxns = 4
  NumPuppets = 2
  Periods = {0, 2, 4}
  Impatient = {4}
SPECIFICATION Spec
INVARIANTS
  SlotsAreGood
  LogIsSound
CHECK_DEADLOCK FALSE
