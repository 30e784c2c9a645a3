CONSTANTS
  Drivers = 2
  MaxJobs = 2
  MaxImages = 1
  MaxMishaps = 1
SPECIFICATION FairSpec
INVARIANTS OneHelper RefreshTakesEffect
PROPERTIES OwnAnswers CallsEnd
CHECK_DEADLOCK FALSE
