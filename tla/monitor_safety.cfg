SPECIFICATION Spec
CONSTANTS
  PROD_MAX = 2
  CONS_MAX = 1
  bufferSize = 2
  CountMod = 3
  Message = {m1, m2}
  NoMessage = NoMessage
  Nobody = Nobody
  Ended = Ended
  Commands = {"P", "p", "C", "c", "q"}
INVARIANTS TypeOK MutexDiscipline RingConsistent NoLostWakeup
PROPERTIES ImplementsFifo
CHECK_DEADLOCK FALSE
