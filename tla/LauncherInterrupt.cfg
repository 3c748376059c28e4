SPECIFICATION Spec
CONSTANTS
  Launchers = {l1, l2}
  NoLauncher = NoLauncher
  OnWindows = {l2}
  InterruptAt <- Anywhere
  MayFail = {l1}
  MayKill = FALSE
  MayHang = FALSE
  Saved <- OldLimits
  Adapters <- Laptop
  Target = ""
CONSTRAINT SameMode
CHECK_DEADLOCK FALSE
INVARIANT LeaseCovers
