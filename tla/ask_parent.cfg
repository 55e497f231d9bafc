SPECIFICATION FairSpec
CONSTANTS
  MaxChildren = 2
  Length = 3
  Nobody = 0
  Parent = 9
INVARIANTS TypeOK NobodyStaysStopped ExitLeavesNobody
PROPERTIES SignalsArrive
CHECK_DEADLOCK FALSE
