SPECIFICATION UssdSpec
CONSTANTS
  Requests = {"RADIO_POWER_ON", "RADIO_POWER_OFF", "GET_SIM_STATUS", "SEND_USSD", "CANCEL_USSD"}
  SimHistory <- MCSimHistory
  Garbles = FALSE
  NRequests = 3
  MaxFailures = 1
  Texts <- MCTexts
  Said <- MCSaid
  MessageSize = 7
  HeaderSize = 2
  MaxSays = 2
INVARIANTS
  UssdInv
  SessionAgrees
  TextsKept
PROPERTIES
  AnswersMeetASession
CHECK_DEADLOCK FALSE
