SPECIFICATION SocketPathSafety
CONSTANTS
  Servers = {s1, s2}
  MaxKills = 2
  MaxForks = 1
INVARIANTS
  ListenerHasPath
CHECK_DEADLOCK FALSE
