SPECIFICATION Spec
CONSTANTS
  N = 3
  Tpids = {0, 1, 2, 3, 4}
  Types = {"POINT_TO_POINT", "OTHER"}
  MaxMessages = 4
  MaxOffs = 1
  MaxFailures = 1
INVARIANTS
  SmsInInv
PROPERTIES
  ImplementsStack
  OwnReport
CHECK_DEADLOCK FALSE
