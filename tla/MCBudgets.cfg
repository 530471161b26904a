SPECIFICATION BgSpec
CONSTANTS
  Budgets = {b1}
  Entries = {e1}
  Workers = {w1, w2}
  Top = top
  Sub = sub
  Other = other
  Amounts = {1, 2}
  MaxNow = 1
  Ahead = 0
  MaxStarted = 3
  Thresholds = {50, 100}
  None = None
SYMMETRY Symmetric
INVARIANTS SpentExplained RolloverExplained AlertOnce
CHECK_DEADLOCK FALSE
