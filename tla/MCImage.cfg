SPECIFICATION FairSpec
CONSTANTS
  Plans <- MCPlans
  Processors = 2
  MaxFaults = 1
INVARIANTS RestoresWanted AreasDisjoint SpaceSound VerdictHonest
PROPERTIES KeepsData Ends
CHECK_DEADLOCK FALSE
