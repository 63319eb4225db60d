SPECIFICATION Spec
CONSTANTS
  MaxMatches = 1
  Total = 3
  Ends = {2}
  Capacity = 4
  Faults = {}
CHECK_DEADLOCK FALSE
PROPERTY WrittenReplayIsKept
