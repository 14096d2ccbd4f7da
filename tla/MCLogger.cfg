CONSTANT Lines = 4
SPECIFICATION FairSpec
INVARIANTS InOrder NoLostWakeup CompleteWhenJoined
PROPERTIES EveryLineWritten FinalizeReturns
