SPECIFICATION FairSpec
CONSTANTS
  Editor = {e1, e2}
  NumRecords = 2
  Value = {v1, v2}
  NoValue = NoValue
  MayKill = {e1}
INVARIANTS TypeOK
PROPERTIES OnlyLateOvertaken OnlyOwnRecord CommandEnds
