CONSTANTS
  Host = apex
  Cpus = 4
  MaxSize = 5
  DavEndpoints = 4
  ApiEndpoints = 5
SPECIFICATION Spec
INVARIANTS
  TypeOK
  FirstMatchWins
  VerdictsAreSound
  PlansFollowVerdicts
