SPECIFICATION FairSpec
CONSTANTS
  q1 = q1
  q2 = q2
  Pending = Pending
  ErrorBody = ErrorBody
  NoPoll = NoPoll
  NoWindow = NoWindow
  Polls <- MCPolls
  MAX_EVENTS = 2
  FetchLimit = 2
  FeedRows = 1
  TableRows = 2
  MaxRecorded = 3
  MaxFired = 2
  MaxFailures = 1
INVARIANTS
  TypeOK
  RowsOpenTheirAlert
  TimelineCompleteUntilFull
PROPERTIES
  DashboardCatchesUp
CHECK_DEADLOCK FALSE
