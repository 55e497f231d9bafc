SPECIFICATION Spec
CONSTANTS
  PROD_MAX = 2
  CONS_MAX = 1
  InitBufSize = 2
  MaxBufSize = 3
  MaxFree = 3
  MaxHead = 3
  MaxSessions = 2
  Message = {m1}
  NoMessage = NoMessage
  Nobody = Nobody
  Main = Main
  Truncates = {TRUE}
  Commands = {"P", "p", "C", "c", "+", "-", "kill"}
INVARIANTS TypeOK ItemsMatchMessages NoSlotLost
CHECK_DEADLOCK FALSE
