\* One message for two hosts, reported twice or found again after a restart:
\* two messages of it, each shared by two sessions.
CONSTANTS
  f1 = f1
  f2 = f2
  h1 = h1
  h2 = h2
  Files = {f1}
  Hosts = {h1, h2}
  Dests <- AllDests
  Recipients = 1
  Objects = {o1, o2}
  NoMessage = NoMessage
  NoSession = NoSession
  OtherCodes = {554}
  MaxRuns = 2
SPECIFICATION Spec
SYMMETRY Symmetry
CHECK_DEADLOCK FALSE
INVARIANTS TypeOK RefCountExact AssertionsHold MarkedOnlyIfAccepted NoSecondCopy
PROPERTY NothingLost
