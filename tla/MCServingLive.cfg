SPECIFICATION LiveSpec
CONSTANTS
  Requests = {r1, r2}
  NoRequest = NoRequest
  PrefixCache = FALSE
  MaxPending = 1
  HasDeadline = TRUE
PROPERTIES
  EveryoneAnswered
  DisconnectReleases
