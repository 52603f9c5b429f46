SPECIFICATION Spec
CONSTANTS
  Aseq <- WithZero
  NPlaces = 2
  Pdus = {"good", "long", "null"}
  MaxOffs = 1
  MaxFailures = 1
INVARIANTS
  SmsOutInv
  AnsweredAtMostOnce
  NothingForgotten
  OwnPdu
CHECK_DEADLOCK FALSE
