SPECIFICATION Spec
CONSTANTS
  Ids = {s1, s2, s3, s4}
  NoSession = NoSession
  Tabs = {w1, w2}
  MaxRequests = 6
  MaxPassword = 1
  GraceWindow = {"recent"}
SYMMETRY Symmetric
INVARIANTS OneOpenEnd RevocationReaches NoFalseAlarm
CHECK_DEADLOCK FALSE
