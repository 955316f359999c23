SPECIFICATION Spec
CONSTANTS
  Absent = Absent
  MaxRotated = 3
  MaxFiles = 2
  MaxSize = 1
  MaxTotal = 3
  RotateOnStart = FALSE
  OldFiles <- NoneOrTwo
  MaxWrites = 5
  MaxCrashes = 1
  MaxFailures = 1
CHECK_DEADLOCK FALSE
INVARIANTS TypeOK OlderHaveHigherNumbers SizeCovers RotationNeverBlocks
PROPERTIES KnownTextKept
