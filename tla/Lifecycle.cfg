\* Each of the three programs, with three requests, and what its configuration may lack.
SPECIFICATION FairSpec
CONSTANTS
  Calls = {c1, c2, c3}
  Configs <- MCConfigs
INVARIANTS
  TypeOK
  UsersBeforeResources
  NothingLeaks
  HonestExit
  ChecksComeFirst
PROPERTIES
  StartEnds
  ShutdownEnds
