SPECIFICATION BootSpec
CONSTANTS
  MaxFd = 6
  Ctors = 2
  FileSystems <- Mounts
  Names <- Paths
  OpenModes <- OneMode
  Requests = {"TIOCEXCL", "TIOCNXCL", "TIOCGCONNECTED"}
INVARIANTS
  PoolSound
  FromStartToEnd
PROPERTIES
  LockedGainsNoUser
  NoDescriptorLost
