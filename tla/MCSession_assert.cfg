CONSTANTS
  Messages = 1
  Recipients = 1
  Pieces = 1
  MaxLines = 1
SPECIFICATION Spec
CHECK_DEADLOCK FALSE
INVARIANT NeverDispatchedClosed
