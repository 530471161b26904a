SPECIFICATION Spec
CONSTANTS
  Entities = {e1}
  Requests = {r1, r2}
  None = None
  Malformable = {"create", "update"}
  MaxOps = 2
  MaxFaults = 2
  MaxEdits = 1
INVARIANTS AppliedOnce AnswerIsTrue
PROPERTY Drains
CHECK_DEADLOCK FALSE
