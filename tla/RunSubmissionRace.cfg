SPECIFICATION Spec
CONSTANTS
  r1 = r1
  r2 = r2
  r3 = r3
  r4 = r4
  f1 = f1
  f2 = f2
  c1 = c1
  c2 = c2
  NoRun = NoRun
  NoRequest = NoRequest
  Runs <- FewRuns
  Fingerprints <- OneRequest
  Clients <- TwoClients
  Window = 1
  DedupeInflight = TRUE
  ChainLimit = 8
  MaxTime = 0
  MaxUnsure = 1
INVARIANT EquivalentRunsAreDeduped
