SPECIFICATION ViewsSpec
CONSTANTS
  Filters = {f1, f2}
  LastPage = 2
  MaxActs = 5
  MaxLost = 1
  Categories = {c1, c2, adjustment}
  Adjusting = adjustment
  Kinds = {expense, income}
  Expense = expense
  Records = {r1, r2}
  Clerks = {w1, w2}
  NoCategory = NoCategory
  MaxServed = 6
  MaxBroken = 1
  Horizons = {3, 12}
  Readers = {v1, v2}
  MaxChanges = 3
  MaxViews = 4
  People = {u1, u2}
  Nobody = Nobody
  Paths = {p1}
  MaxVisits = 3
  MaxMoves = 3
SYMMETRY Symmetric
INVARIANTS ListIsAsked WrittenOnce EntriesFiled ForecastFresh
PROPERTIES OfflineReads
CHECK_DEADLOCK FALSE
