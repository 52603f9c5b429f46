SPECIFICATION FairSpec
CONSTANTS
  Requests = {"RADIO_POWER_ON", "RADIO_POWER_OFF", "GET_SIM_STATUS", "BASEBAND_VERSION", "GET_IMEI", "GET_IMEISV", "SIGNAL_STRENGTH"}
  SimHistory <- MCSimHistory
  Garbles = TRUE
  NRequests = 3
  MaxFailures = 1
INVARIANTS
  RadioInv
  RadioAgrees
  RildKnows
  AnsweredAtMostOnce
PROPERTIES
  EveryRequestAnswered
CHECK_DEADLOCK FALSE
