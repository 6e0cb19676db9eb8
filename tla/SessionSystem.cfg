\* One user, two devices and four requests, over every statement of the use cases.
SPECIFICATION SystemSpec
CONSTANTS
  Requests = {r1, r2, r3, r4}
  Clients = {d1, d2}
  Emails = {e1}
  Usernames = {n1}
  EmailLike = {}
  None = None
  Denials = {"ErrInvalidRefreshToken", "ErrRevokedRefreshToken",
             "ErrInvalidCredentials", "ErrEmailAlreadyExists", "ErrUserAlreadyExists"}
SYMMETRY Symmetry
CHECK_DEADLOCK FALSE
PROPERTIES
  ClientsSpec
