SPECIFICATION EvaluationSpec
CONSTANTS
  MaxOptions = 2
  Followed <- FollowedRuns
  Repeats = 1
  Limit = 3
  Drafts = 2
  MaxClock = 2
INVARIANTS ArgvFaithful AcceptedRuns ReportHonest
PROPERTY RoutesExported
CHECK_DEADLOCK FALSE
