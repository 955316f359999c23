SPECIFICATION Spec
CONSTANTS
  Absent = Absent
  MaxRotated = 3
  MaxFiles = 0
  MaxSize = 1
  MaxTotal = 3
  RotateOnStart = FALSE
  OldFiles <- NoneOrTwo
  MaxWrites = 5
  MaxCrashes = 0
  MaxFailures = 0
CHECK_DEADLOCK FALSE
INVARIANTS RotationNeverBlocks
