\* One account, four requests that may present the same tokens, and every
\* request that is accepted keeps running.
SPECIFICATION FairSpec
CONSTANTS
  Requests = {r1, r2, r3, r4}
  Emails = {e1}
  Usernames = {n1}
  EmailLike = {}
  None = None
INVARIANTS
  TypeOK
  SingleUse
  LogoutEndsToken
  AlarmHasCause
  ReuseClosesHeir
PROPERTIES
  EveryRequestAnswered
