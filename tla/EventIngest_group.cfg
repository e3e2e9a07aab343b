SPECIFICATION FairSpec
CONSTANTS
  t1 = t1
  t2 = t2
  r1 = r1
  r2 = r2
  e1 = e1
  bad = bad
  p1 = p1
  NoBatch = NoBatch
  Threads <- MCThreads
  Replicas <- MCReplicas
  ReplicaOf <- MCReplicaOf
  Events <- MCEvents
  Poison <- MCPoison
  Partitions <- MCPartitions
  PartitionOf <- MCPartitionOf
  MaxPoll = 2
  Attempts = 4
  MaxLog = 2
  MaxCrashes = 1
  MaxRebalances = 2
INVARIANTS
  TypeOK
  CommittedAreHandled
  OneDocumentPerEvent
  IndexAndDeadLettersComeFromTopic
PROPERTIES
  OffsetsNeverRegress
  ImplementsAtLeastOnce
  EveryRecordIsConsumed
CHECK_DEADLOCK FALSE
