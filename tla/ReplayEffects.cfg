SPECIFICATION FairSpec
CONSTANTS
  MaxMatches = 2
  Total = 3
  Ends = {2}
  Capacity = 2
  Faults = {"disk", "db", "slow", "crash"}
INVARIANTS CompletedIsWhole NoOrphanFile LeftoversAreTold AvailableMeansKept
PROPERTY FinalizationEnds
CHECK_DEADLOCK FALSE
