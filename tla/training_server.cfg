SPECIFICATION FairSpec
CONSTANTS
  MAX_CLIENTS = 1
  Clients = 3
  Impatient = {2}
  Brief = {1, 3}
  Requests = {"ask", "mute", "QUIT"}
  NoRequest = NoRequest
INVARIANTS TypeOK SlotsReached
PROPERTIES ShutdownEnds
CHECK_DEADLOCK FALSE
