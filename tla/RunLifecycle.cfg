SPECIFICATION Spec
CONSTANTS
  r1 = r1
  r2 = r2
  probe = probe
  mail = mail
  web = web
  fuzz = fuzz
  h1 = h1
  Runs <- OneRun
  Ids <- FourIds
  Probes <- Probe
  LateIds <- Late
  BypassIds <- Late
  Hosts <- OneHost
  MaxActive = 2
  MaxErrors = 2
  MaxCrashes = 2
  MaxStops = 1
CHECK_DEADLOCK FALSE
INVARIANTS
  TypeOK
  AggregatedRunsAreWhole
  CompletedRunsAreReported
  QueuedRunsAreClean
  OutcomesMatchPlan
  LateTestsWaitForMain
  TasksOwnActiveRuns
  OnlyErrorsFailRuns
  IInv
PROPERTIES
  CompletedIsFinal
  ImplementsRunQueue
