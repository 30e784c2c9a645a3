CONSTANTS
  None = None
  MaxCalls = 3
  MaxPosted = 3
SPECIFICATION FairSpec
INVARIANTS ChecksGoOn ChainsBounded
PROPERTIES CheckNowAnswers
CHECK_DEADLOCK FALSE
