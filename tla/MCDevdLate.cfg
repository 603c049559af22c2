SPECIFICATION DevdSpec
CONSTANTS
  d1 = d1
  d2 = d2
  Devices <- MCDevices
  Datagrams <- MCDatagrams
  QueueMax = 3
  SigPendingMax = 4
  MaxArrivals = 4
  MaxEarly = 3
  MaxStrays = 1
PROPERTIES
  PluggedInIsDriven
CHECK_DEADLOCK FALSE
