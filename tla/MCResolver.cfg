CONSTANTS
  Exchangers = {"m1", "m2"}
  MaxRecords = 2
  MaxAddresses = 2
SPECIFICATION FairSpec
CHECK_DEADLOCK FALSE
INVARIANTS SocketFits EveryAddressTried ConnectedIsSafe
PROPERTY ImplementsSearch
