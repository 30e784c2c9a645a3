CONSTANTS
  None = None
  MaxCalls = 3
  MaxPosted = 3
SPECIFICATION Spec
PROPERTIES NeverMeansNever
CHECK_DEADLOCK FALSE
