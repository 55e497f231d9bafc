SPECIFICATION FairSpec
CONSTANTS
  PROD_MAX = 0
  CONS_MAX = 2
  bufferSize = 2
  CountMod = 3
  Message = {m1}
  NoMessage = NoMessage
  Nobody = Nobody
  Ended = Ended
  Commands = {"C", "q"}
PROPERTY QuitEnds
CHECK_DEADLOCK FALSE
