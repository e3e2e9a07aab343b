SPECIFICATION AlertsFairSpec
CONSTANTS
  t1 = t1
  t2 = t2
  Never = Never
  Threads <- MCThreads
  MAX_EVENTS = 2
  MaxRecorded = 3
  Cooldown = 1
  MaxTime = 2
INVARIANTS
  RemoveNeverThrows
  EnoughRetained
  SuppressedHasAlert
PROPERTIES
  EventsAreEvaluatedAtRest
CHECK_DEADLOCK FALSE
