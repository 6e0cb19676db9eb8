\* A rotation that commits while the reuse alarm sweeps.
SPECIFICATION Spec
CONSTANTS
  Requests = {r1, r2, r3, r4}
  Emails = {e1}
  Usernames = {n1}
  EmailLike = {}
  None = None
SYMMETRY Symmetry
INVARIANTS
  NoExchangeEscapes
