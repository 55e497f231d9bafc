SPECIFICATION FairSpec
CONSTANTS
  Period = 3
  MaxTicks = 1
  MaxCount = 5
INVARIANTS TypeOK NeverMissed ReportedTotal
PROPERTIES ReportsForever
CHECK_DEADLOCK FALSE
