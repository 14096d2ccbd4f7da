\* Servers that accept everything: does the one session deliver all messages?
CONSTANTS
  f1 = f1
  f2 = f2
  h1 = h1
  h2 = h2
  Files = {f1, f2}
  Hosts = {h1}
  Dests <- AllDests
  Recipients = 1
  Objects = {o1, o2}
  NoMessage = NoMessage
  NoSession = NoSession
  OtherCodes = {}
  MaxRuns = 1
SPECIFICATION Spec
CHECK_DEADLOCK FALSE
PROPERTY QuitLeavesNothingBehind
