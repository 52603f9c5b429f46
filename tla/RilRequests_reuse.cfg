SPECIFICATION FairSpec
CONSTANTS
  NIds = 2
  NExpects = 2
  Token = {t1, t2}
  NoToken = NoToken
  Requests = {"SET_PREFERRED_NETWORK_TYPE", "SET_NETWORK_SELECTION_MANUAL", "GET_PREFERRED_NETWORK_TYPE", "RADIO_POWER_OFF"}
  ModemFaults = {"malformed"}
  SrsCommands = {"SND_CLOCK_CTRL"}
  KeepsUp = TRUE
  MaxIssues = 2
  MaxDraws = 5
  MaxFailures = 0
INVARIANTS
  CancelledWhenAsked
PROPERTIES
  AnsweredAtMostOnce
  OwedRequestAnswered
CHECK_DEADLOCK FALSE
