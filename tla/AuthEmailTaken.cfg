\* Whose email is taken: two accounts, one username that contains "email".
SPECIFICATION Spec
CONSTANTS
  Requests = {r1, r2, r3, r4}
  Emails = {e1, e2}
  Usernames = {n1, n2}
  EmailLike = {n2}
  None = None
SYMMETRY Symmetry
INVARIANTS
  EmailTakenIsReal
