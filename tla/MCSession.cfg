CONSTANTS
  Messages = 2
  Recipients = 2
  Pieces = 2
  MaxLines = 2
SPECIFICATION Spec
CHECK_DEADLOCK FALSE
INVARIANTS TypeOK MarkedOnlyIfTaken MarkedOnlyIfTakenForAll PayloadInItsTransaction
PROPERTY DroppedOnlyForCause
