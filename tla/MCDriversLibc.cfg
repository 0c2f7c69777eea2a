SPECIFICATION Spec
CONSTANTS
  Procs = {p1}
  Commands <- LibcCommands
INVARIANT LibcIsShared
