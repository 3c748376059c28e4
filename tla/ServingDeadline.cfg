SPECIFICATION FairSpec
CONSTANTS
  Requests = {r1}
  NoRequest = NoRequest
  PrefixCache = FALSE
  MaxPending = 0
  HasDeadline = TRUE
PROPERTY DeadlineReleases
