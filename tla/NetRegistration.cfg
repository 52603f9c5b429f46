SPECIFICATION FairSpec
CONSTANTS
  Token = {t1, t2}
  NoToken = NoToken
  Waiting = Waiting
  InService = {1, 3}
  MaxChanges = 3
  MaxPolls = 1
  MaxCycles = 1
INVARIANTS
  NetInv
  AnsweredAtMostOnce
PROPERTIES
  NewestLast
  ChangeReachesRild
CHECK_DEADLOCK FALSE
