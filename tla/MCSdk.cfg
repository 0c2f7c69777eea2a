SPECIFICATION Spec
CONSTANTS
  Libc = {stdio}
  Crt0 = crt0
  Hdrs = {header}
  Script = script
  AppScript = appscript
  MaxVersion = 2
  MaxRefresh = 2
INVARIANTS
  StampHonest
PROPERTIES
  Rebuilt
  RefreshReaches
