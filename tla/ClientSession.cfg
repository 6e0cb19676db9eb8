\* One user, two devices and four requests, in every order.
SPECIFICATION SessionSpec
CONSTANTS
  Calls = {c1, c2, c3, c4}
  Clients = {d1, d2}
  None = None
  Denials = {"ErrInvalidRefreshToken", "ErrRevokedRefreshToken",
             "ErrInvalidCredentials", "ErrEmailAlreadyExists", "ErrUserAlreadyExists"}
SYMMETRY Symmetry
CHECK_DEADLOCK FALSE
INVARIANTS
  SessionTypeOK
  HonestClientsStayIn
  NoStraySessions
