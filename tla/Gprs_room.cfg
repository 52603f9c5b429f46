SPECIFICATION FairSpec
CONSTANTS
  Setups <- Setups2
  Deacts <- Deacts2
  Lists <- Lists1
  NCids = 2
  PortList = TRUE
  Refusable = {"PORT_LIST", "DEFINE", "ENABLE"}
  IfcFails = FALSE
  MaxReclaims = 0
  MaxDrops = 2
INVARIANTS
  GprsInv
  NothingForgotten
  AnsweredAtMostOnce
  EnabledIsOn
PROPERTIES
  EndedByTheModem
  EveryRequestAnswered
  RildLearns
CHECK_DEADLOCK FALSE
