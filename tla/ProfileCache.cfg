SPECIFICATION Spec
CONSTANTS
  r1 = r1
  r2 = r2
  early = early
  late = late
  refresh = refresh
  other = other
  alice = alice
  bob = bob
  Requests = {r1, r2}
  Tokens = {early, late, refresh, other}
  Users = {alice, bob}
  Claims <- MCClaims
  KeyPairs <- MCKeyPairs
  ProfileTTL = 2
  DefaultTTL = 3
  MaxNow = 3
SYMMETRY Symmetry
INVARIANTS
  TypeOK
  OwnProfileOnly
  ExpiredTokensEndHere
  EntriesAreVerified
