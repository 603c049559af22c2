SPECIFICATION ModprobedSpec
CONSTANTS
  none = none
  NoName = none
  Servers = {s1, s2}
  MaxKills = 1
  MaxForks = 2
  Children = {c1, c2}
  Names <- MCNames
  Requests = {"pci:card", "lib", "x:hub", "heir", "orphan"}
  Cache <- MCCache
  AfterColon <- MCAfterColon
  Deps <- MCDeps
  Gone = {"old"}
  NoDepends = {"plain"}
  Rejected = {"bad"}
INVARIANTS
  ModprobedTypeOK
  FailureHasACause
  SuccessMeansLoaded
  LoneListenerHasPath
PROPERTIES
  PathHeals
  RequestsEnd
CHECK_DEADLOCK FALSE
