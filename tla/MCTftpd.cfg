SPECIFICATION TftpdSafety
CONSTANTS
  Uploads = {u1, u2}
  Downloads = {d1}
  Ports = {p1, p2, p3}
  MaxAttempts = 2
  Chunks = 2
SYMMETRY Symmetry
INVARIANTS
  TftpdTypeOK
  WriterOwnsName
  NoHalfFiles
  SettledDownloadIsWhole
  SameSeedShares
CHECK_DEADLOCK FALSE
