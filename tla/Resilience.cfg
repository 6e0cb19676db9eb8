\* Three concurrent calls that may use up short counters; no symmetry, for the
\* liveness properties.
SPECIFICATION FairSpec
CONSTANTS
  Calls = {c1, c2, c3}
  ErrorThreshold = 2
  SuccessThreshold = 2
  MaxAttempts = 2
INVARIANTS
  TypeOK
  FlagHasOwner
PROPERTIES
  LoadNeverGrows
  ProbeEnds
  Recovers
