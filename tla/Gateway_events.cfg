SPECIFICATION FairSpec
CONSTANTS
  r1 = r1
  r2 = r2
  r3 = r3
  l1 = l1
  l2 = l2
  Requests = {r1, r2, r3}
  Loops = {l1, l2}
  LoopOf <- MCLoopOf
  Capacity = 2
  MaxInFlight = 1
  RETRIES = 3
  MaxLost = 1
  MaxDeaths = 1
INVARIANTS
  TypeOK
  EventsAreAccountedFor
  TopicAgreesWithAcks
PROPERTIES
  EveryRequestEnds
  EveryEventIsSettled
CHECK_DEADLOCK FALSE
