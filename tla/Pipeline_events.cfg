SPECIFICATION PipelineFairSpec
CONSTANTS
  r1 = r1
  bad = bad
  t1 = t1
  t2 = t2
  s1 = s1
  s2 = s2
  p1 = p1
  l1 = l1
  NoBatch = NoBatch
  Requests = {r1}
  Events <- MCEvents
  Poison = {bad}
  Loops = {l1}
  LoopOf <- MCLoopOf
  Capacity = 1
  MaxInFlight = 1
  RETRIES = 1
  MaxLost = 1
  MaxDeaths = 1
  MaxForeign = 1
  Partitions = {p1}
  PartitionOf <- MCPartitionOf
  Threads = {t1, t2}
  Replicas = {s1, s2}
  ReplicaOf <- MCReplicaOf
  MaxPoll = 1
  Attempts = 2
  MaxLog = 3
  MaxCrashes = 1
  MaxRebalances = 1
INVARIANTS
  NoEventIsLost
  RequestsAreCountedOnce
PROPERTIES
  EveryEventArrives
CHECK_DEADLOCK FALSE
