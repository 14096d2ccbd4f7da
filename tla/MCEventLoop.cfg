\* One message, in a regular file, for one host.
CONSTANTS
  h1 = h1
  Files = {f1}
  Hosts = {h1}
  Dests <- AllDests
  Recipients = 1
  Objects = {o1}
  NoMessage = NoMessage
  NoSession = NoSession
  OtherCodes = {554}
  MaxRuns = 1
  Regular = TRUE
SPECIFICATION FairLoopSpec
CHECK_DEADLOCK FALSE
INVARIANTS AsleepOnlyWhenDone BodyInTime ReportsCurrent
PROPERTIES LoopIsFairClient SignalEndsLoop
