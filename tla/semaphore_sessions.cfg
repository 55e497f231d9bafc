SPECIFICATION FairSpec
CONSTANTS
  PROD_MAX = 2
  CONS_MAX = 1
  InitBufSize = 2
  MaxBufSize = 2
  MaxFree = 3
  MaxHead = 2
  MaxSessions = 2
  Message = {m1, m2}
  NoMessage = NoMessage
  Nobody = Nobody
  Main = Main
  Truncates = {TRUE, FALSE}
  Commands = {"P", "p", "C", "c", "q", "kill"}
INVARIANTS NeverOverflows
PROPERTIES ImplementsFifo RemovalReturns
CHECK_DEADLOCK FALSE
