SPECIFICATION DevdSpec
CONSTANTS
  d1 = d1
  d2 = d2
  Devices <- MCDevices
  Datagrams <- MCDatagrams
  QueueMax = 3
  SigPendingMax = 4
  MaxArrivals = 4
  MaxEarly = 3
  MaxStrays = 1
INVARIANTS
  DevdTypeOK
  NoSignalDeath
  WakeupBalance
  NoDeviceMissed
  SuccessMeansColdplugged
PROPERTIES
  DrainsToEarly
  TermStops
CHECK_DEADLOCK FALSE
