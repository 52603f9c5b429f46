SPECIFICATION Spec
CONSTANTS
  Setups <- Setups3
  Deacts <- Deacts1
  Lists = {}
  NCids = 2
  PortList = TRUE
  Refusable = {"PORT_LIST", "DEFINE", "ENABLE", "DISABLE"}
  IfcFails = TRUE
  MaxReclaims = 2
  MaxDrops = 1
INVARIANTS
  SetupsUnderway
CHECK_DEADLOCK FALSE
