SPECIFICATION FairSpec
CONSTANTS
  r1 = r1
  r2 = r2
  probe = probe
  mail = mail
  web = web
  fuzz = fuzz
  h1 = h1
  Runs <- TwoRuns
  Ids <- OneId
  Probes <- None
  LateIds <- None
  BypassIds <- None
  Hosts <- OneHost
  MaxActive = 2
  MaxErrors = 1
  MaxCrashes = 0
  MaxStops = 1
CHECK_DEADLOCK FALSE
PROPERTIES
  SubmittedRunsSettle
  ShutdownDrains
