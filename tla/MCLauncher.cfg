SPECIFICATION FairSpec
CONSTANTS
  Launchers = {l1, l2}
  NoLauncher = NoLauncher
  OnWindows = {l2}
  InterruptAt <- Handled
  MayFail = {l1}
  MayKill = TRUE
  MayHang = FALSE
  Saved <- OldLimits
  Adapters <- Laptop
  Target = ""
CONSTRAINT SameMode
CHECK_DEADLOCK FALSE
INVARIANTS
  LeaseCovers
  LimitsNotMasked
PROPERTY
  LeaseReturns
