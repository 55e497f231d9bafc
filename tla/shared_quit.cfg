SPECIFICATION FairSpec
CONSTANTS
  PROD_MAX = 2
  CONS_MAX = 1
  MSG_MAX = 2
  Sizes = {1, 252}
  MaxHead = 4
  Commands = {"P", "p", "C", "c", "q"}
INVARIANTS TypeOK MutexDiscipline TokensConserved NoMessageStranded
PROPERTIES QuitEnds
CHECK_DEADLOCK FALSE
