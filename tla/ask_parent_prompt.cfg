SPECIFICATION FairSpec
CONSTANTS
  MaxChildren = 2
  Length = 2
  Nobody = 0
  Parent = 9
PROPERTIES GContinuesOnlyChosen
CHECK_DEADLOCK FALSE
