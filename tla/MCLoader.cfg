CONSTANTS
  MaxLength = 8
  Texts <- AllTexts
SPECIFICATION FairSpec
CHECK_DEADLOCK FALSE
INVARIANTS HeadersExact BodyExact FailsForCause
PROPERTY LoadingEnds
