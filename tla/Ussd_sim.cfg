SPECIFICATION UssdSpec
CONSTANTS
  Requests = {"RADIO_POWER_ON", "CANCEL_USSD"}
  SimHistory <- MCSimHistory
  Garbles = FALSE
  NRequests = 2
  MaxFailures = 0
  Texts <- MCTexts
  Said <- MCSaid
  MessageSize = 7
  HeaderSize = 2
  MaxSays = 0
INVARIANTS
  RildKnows
CHECK_DEADLOCK FALSE
