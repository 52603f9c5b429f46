SPECIFICATION Spec
CONSTANTS
  NIds = 3
  NExpects = 2
  Token = {t1, t2, t3, t4}
  NoToken = NoToken
  Requests = {"SET_PREFERRED_NETWORK_TYPE", "SET_NETWORK_SELECTION_MANUAL", "GET_PREFERRED_NETWORK_TYPE", "RADIO_POWER_OFF"}
  ModemFaults = {"malformed"}
  SrsCommands = {"SND_CLOCK_CTRL"}
  KeepsUp = TRUE
  MaxIssues = 1
  MaxDraws = 5
  MaxFailures = 0
SYMMETRY TokenSymmetry
INVARIANTS
  ExpectationKept
PROPERTIES
  ImplementsService
CHECK_DEADLOCK FALSE
