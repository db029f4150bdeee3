CONSTANTS
  Times = {1, 2}
  NOW = 3
  Modes = {"m1", "m2"}
  Names = {"x", "y", "z"}
  Data <- MCData
  Size <- MCSize
  Umask <- MCUmask
  Start <- MCStart
SPECIFICATION Spec
INVARIANT TypeOK
INVARIANT SyncMirrors
PROPERTY ReportsComplete
PROPERTY SecondRunQuiet
CHECK_DEADLOCK FALSE
