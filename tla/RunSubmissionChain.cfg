SPECIFICATION Spec
CONSTANTS
  r1 = r1
  r2 = r2
  r3 = r3
  r4 = r4
  f1 = f1
  f2 = f2
  c1 = c1
  c2 = c2
  NoRun = NoRun
  NoRequest = NoRequest
  Runs <- FourRuns
  Fingerprints <- OneRequest
  Clients <- OneClient
  Window = 2
  DedupeInflight = TRUE
  ChainLimit = 3
  MaxTime = 2
  MaxUnsure = 1
INVARIANT ReuseChainsResolve
