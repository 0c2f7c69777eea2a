SPECIFICATION Spec
CONSTANTS
  Procs = {p1, p2}
  Commands <- MCCommands
INVARIANTS
  LinksItsSources
  NoLitter
  Loadable
PROPERTIES
  LeavesObjects
