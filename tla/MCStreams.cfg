SPECIFICATION Spec
CONSTANTS
  Files = {f1, f2}
  Std = std
  Modes <- MCModes
  Fds = {3, 4, 5}
  ItemSizes = {1, 2}
  Lines = {0, 1, 4}
SYMMETRY Symmetry
INVARIANTS
  Paired
  ReadOnce
  EofExplained
  FailureNamed
  PerrorTells
