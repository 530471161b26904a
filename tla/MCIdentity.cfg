SPECIFICATION Spec
CONSTANTS
  Emails = {e1, e2}
  Identities = {google, github}
  Tokens = {t1}
  Workers = {w1, w2}
  None = None
  FreeFailures = 1
  MaxBackoff = 2
  MaxNow = 2
  MaxRequests = 3
  MaxLost = 1
SYMMETRY Symmetric
INVARIANTS AccountWhole TokenOnce GuessBound
CHECK_DEADLOCK FALSE
