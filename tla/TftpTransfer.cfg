SPECIFICATION TransferSpec
CONSTANTS
  FileLength = 4
  UploadLength = 3
  IdMod = 4
  MaxDups = 1
  MaxStrangers = 1
  MaxRetries = 1
INVARIANTS
  TransferTypeOK
  LockStep
  AcknowledgedIsStored
  QuietNeverFails
PROPERTIES
  ImplementsFileTransfer
  TransferEnds
CHECK_DEADLOCK FALSE
