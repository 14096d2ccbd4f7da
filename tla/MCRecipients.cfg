CONSTANTS
  Users = {u1, u2}
  Hosts = {h1, h2}
  Senders = {s1}
  Names = {a, b}
  MaxHeaders = 4
  Inputs <- AllInputs
SPECIFICATION Spec
CHECK_DEADLOCK FALSE
INVARIANTS EachNamedOnce DeletedWhenAllNamed EnvelopeNotSent
