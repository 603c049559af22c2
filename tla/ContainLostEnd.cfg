SPECIFICATION ContainSpec
CONSTANTS
  Orphans = {o1, o2}
  MaxStops = 0
PROPERTIES
  ScriptEndIsSeen
CHECK_DEADLOCK FALSE
