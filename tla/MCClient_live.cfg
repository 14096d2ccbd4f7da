\* One file for two hosts, reported twice or moved in again: two messages, each
\* shared by two sessions that race for its body, are left by their servers, and
\* are given the second message at any moment, while they quit, too.
CONSTANTS
  f1 = f1
  f2 = f2
  h1 = h1
  h2 = h2
  Files = {f1}
  Hosts = {h1, h2}
  Dests <- AllDests
  Recipients = 1
  Objects = {o1, o2}
  NoMessage = NoMessage
  NoSession = NoSession
  OtherCodes = {}
  MaxRuns = 1
SPECIFICATION FairSpec
CHECK_DEADLOCK FALSE
PROPERTIES MessagesEnd SessionsEnd
