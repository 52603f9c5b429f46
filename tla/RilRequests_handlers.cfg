SPECIFICATION Spec
CONSTANTS
  NIds = 2
  NExpects = 2
  Token = {t1, t2}
  NoToken = NoToken
  Requests <- AllRequests
  ModemFaults = {"refuse", "malformed"}
  SrsCommands = {"SND_CLOCK_CTRL", "SND_SPKR_VOLUME_CTRL", "SND_AUDIO_PATH_CTRL"}
  KeepsUp = FALSE
  MaxIssues = 1
  MaxDraws = 3
  MaxFailures = 1
INVARIANTS
  TypeOK
  OneAseqPerToken
  NoMisdelivery
  CancelHonoured
SYMMETRY TokenSymmetry
CHECK_DEADLOCK FALSE
