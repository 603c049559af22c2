SPECIFICATION ContainSpec
CONSTANTS
  Orphans = {o1, o2}
  MaxStops = 2
INVARIANTS
  ContainTypeOK
  ZombiesAccounted
  UnaskedRebootIsTheScripts
PROPERTIES
  RequestEnds
  NoticedEndIsActedOn
CHECK_DEADLOCK FALSE
