SPECIFICATION FairSpec
CONSTANTS
  apex = apex
  a = a
  b = b
  c = c
  x = x
  Hosts <- MCHosts
  Apex = apex
  InScope <- MCInScope
  Links <- MCLinks
  SeedHosts = {apex}
  MailHosts = {x}
  CtNames = {c}
  Passes = 3
  MaxDepth = 2
  Ttl = 1
  MaxClock = 3
CHECK_DEADLOCK FALSE
INVARIANTS
  TypeOK
  PassesAreComplete
  OutcomeIsBest
  SourcesAreSpared
PROPERTIES
  DiscoveryEnds
