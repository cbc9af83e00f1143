SPECIFICATION FairSpec
CONSTANTS
  Payload = 1
  PipeSize = 1
  MaxOutput = 2
CHECK_DEADLOCK FALSE
PROPERTY TimeoutsAreHonored
