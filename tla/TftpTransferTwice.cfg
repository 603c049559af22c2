SPECIFICATION TransferSpec
CONSTANTS
  FileLength = 4
  UploadLength = 3
  IdMod = 4
  MaxDups = 1
  MaxStrangers = 0
  MaxRetries = 1
INVARIANTS
  StoresTheFile
CHECK_DEADLOCK FALSE
