SPECIFICATION FairSpec
CONSTANTS
  t1 = t1
  t2 = t2
  k1 = k1
  p1 = p1
  garbage = garbage
  NoBatch = NoBatch
  NoTime = NoTime
  NoAlert = NoAlert
  Partitions = {p1}
  Threads = {t1, t2}
  Keys = {k1}
  PartitionOf <- MCPartitionOf
  Aggregations <- MCAggregations
  Invalid = {garbage}
  Cooldown = 1
  MaxPoll = 2
  MaxTime = 2
  MaxLog = 2
  MaxRestarts = 1
  MaxRebalances = 1
INVARIANTS
  TypeOK
  CooldownHolds
  ApartWithoutRebalance
  SuppressedOnlyAfterAlert
PROPERTIES
  ImplementsAtLeastOnce
  EveryAggregationIsConsumed
CHECK_DEADLOCK FALSE
