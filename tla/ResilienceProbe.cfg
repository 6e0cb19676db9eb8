\* A call admitted before the breaker tripped reports while a probe is out.
SPECIFICATION Spec
CONSTANTS
  Calls = {c1, c2, c3}
  ErrorThreshold = 2
  SuccessThreshold = 2
  MaxAttempts = 1
SYMMETRY Symmetry
INVARIANTS
  AtMostOneProbe
