CONSTANTS
  Files = {f1, f2, f3}
  MaxRead = 2
  MaxRuns = 2
SPECIFICATION FairSpec
CHECK_DEADLOCK FALSE
INVARIANT NoFileMissed
PROPERTIES ImplementsSpool EveryFileReported
