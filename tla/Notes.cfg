\* Two users and three requests on each other's notes: updates, deletes and
\* listings overlap, with texts that fail validation and every clamp.
SPECIFICATION Spec
CONSTANTS
  Requests = {r1, r2, r3}
  Users = {u1, u2}
  Tenant = u1
  Texts = {x, y}
  BadTitles = {y}
  BadContents = {}
  Limits <- MCLimits
  Offsets <- MCOffsets
  DefaultListLimit = 1
  MaxListLimit = 1
  None = None
SYMMETRY Symmetry
INVARIANTS
  NoResurrection
  LastWriteShows
  PagesAgree
PROPERTIES
  OnlyRacesLoseUpdates
  TenantIsAlone
