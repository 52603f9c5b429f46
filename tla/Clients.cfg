SPECIFICATION FairSpec
CONSTANTS
  Sound = {s1}
  MaxLoops <- LoopsForModel
  MaxSends = 1
INVARIANTS
  ClientsInv
  StaleOnlyAfterFailure
PROPERTIES
  CallsReturn
