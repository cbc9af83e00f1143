SPECIFICATION FairSpec
CONSTANTS
  Payload = 2
  PipeSize = 1
  MaxOutput = 2
CHECK_DEADLOCK FALSE
INVARIANTS
  TypeOK
  ChildrenAreNotLeft
  InterpretedResultsAreWhole
PROPERTIES
  ExecutionsEnd
