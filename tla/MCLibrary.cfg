SPECIFICATION Spec
CONSTANTS
  LastYear = 2102
  IntValues = 64
  LongValues = 1024
  MaxErrno = 15
  Times <- MCTimes
  Again <- MCAgain
  OwnTms <- MCOwnTms
  Microseconds <- MCMicroseconds
  Values <- MCValues
  Widths = {0, 1, 3, 6}
  Argvs <- MCArgvs
  Envps <- MCEnvps
  Strings <- MCStrings
  Names <- MCNames
  Dirs <- MCDirs
  Files <- MCFiles
  Caps = {1, 2, 4, 5, 8}
  Modes <- MCModes
  Errnos = {0, 3}
INVARIANTS
  FieldsTellTime
  TextTellsDate
  NumbersReadBack
  CallsArrive
  StartArrives
  ToolsTell
