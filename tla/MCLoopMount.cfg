SPECIFICATION LoopMountSpec
CONSTANTS
  ext2 = ext2
  xfs = xfs
  squash = squash
  text = text
  Scripts = {ext2, xfs, squash, text}
  NoFile = NoFile
  MaxKills = 1
  Image <- MCImage
  Filesystems <- MCFilesystems
  Mountable <- MCMountable
INVARIANTS
  LoopMountTypeOK
  DeviceHasItsOwner
  MountOutcomeHasACause
PROPERTIES
  DeviceIsFreed
