CONSTANTS
  Volume = {v1}
  Pod = {p1, p2}
  VolumeOf <- SameVolume
  Call = {h1, h2}
  NoCall = NoCall
  Policy = {"archive", "delete", "invalid"}
  Fault = {"mount", "unmount", "stat", "mkdir", "submkdir", "remove", "rename", "getpv", "restart"}
  MaxFaults = 2
  MaxTimeouts = 1
  v1 = v1
SPECIFICATION FairSpec
CHECK_DEADLOCK FALSE
INVARIANTS TypeOK BoundHasDir DeletedIsGone ArchiveKeepsData NothingLeftMounted RunningSeesVolume StoppedIsUnmounted
PROPERTIES EveryoneServed
