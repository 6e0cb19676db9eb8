\* Two requests that overlap, a breaker that opens at once.  ListNotes, Logout
\* and DeleteNote are left out: GetNote, RefreshTokens and UpdateNote take the
\* same path and can end in every way that they can.
SPECIFICATION GatewaySpec
CONSTANTS
  c1 = c1
  c2 = c2
  Calls = {c1, c2}
  ErrorThreshold = 1
  SuccessThreshold = 1
  MaxAttempts = 2
  Ops = {"Register", "Login", "RefreshTokens", "GetUserProfile",
         "CreateNote", "GetNote", "UpdateNote"}
SYMMETRY Symmetry
INVARIANTS
  GatewayTypeOK
  WritesHappenOnce
  AnswersAreFinal
  SameErrorAtTheEdge
  FailuresAreOutages
PROPERTIES
  ChannelSpec
