SPECIFICATION FairSpec
CONSTANTS
  h1 = h1
  Hosts <- MCHosts
  MaxStarts = 2
CHECK_DEADLOCK FALSE
INVARIANTS
  TypeOK
  ClaimsAreExclusive
  CompletedAnswersAreFinal
PROPERTIES
  RunsSettleOrAreStranded
