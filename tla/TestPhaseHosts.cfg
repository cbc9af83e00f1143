SPECIFICATION Spec
CONSTANTS
  r1 = r1
  r2 = r2
  a = a
  b = b
  c = c
  h1 = h1
  h2 = h2
  Runs <- TwoRuns
  Tests <- ThreeTests
  Hosts <- TwoHosts
  PhaseTests <- Phases
  HostOf <- HostMap
  MaxWorkers = 2
  MaxConcurrentTests = 2
  PerHostConcurrency = 0
INVARIANT HostsAreNotHammered
