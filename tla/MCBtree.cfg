SPECIFICATION Spec
CONSTANTS
  NrKeys = 8
  Keys <- MCKeys
  First = 0
  RecLen <- MCRecLen
  Built <- MCBuilt
  Churned = {2, 3, 4, 5}
  IndexLen = 3
  NodeSize = 14
  Descr = 2
  Slot = 1
  MaxBnodes = 16
  MaxFaults = 1
INVARIANTS FindsGreatest TreeSound NothingLost
PROPERTY Implements RepairsOnTheWay
