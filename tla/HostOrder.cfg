CONSTANTS
  MaxTxns = 5
  Cycles = {0, 2}
  NumPuppets = 3
  MaxNumPuppets = 4
  CountSize = 8
  FakeTxnBRAMSize = 4
  PortalSize = 2
SPECIFICATION Spec
INVARIANT GivenAsAsked
PROPERTY AllGiven
CHECK_DEADLOCK FALSE
