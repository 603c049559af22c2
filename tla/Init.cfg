SPECIFICATION InitSpec
CONSTANTS
  Procs = {p1, p2}
  Leftovers = {}
INVARIANTS
  NothingUnwritten
  ScriptRunsAlone
PROPERTIES
  RequestIsServed
CHECK_DEADLOCK FALSE
