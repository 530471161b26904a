CONSTANTS
  a1 = a1
  a2 = a2
  t1 = t1
  t2 = t2
  t3 = t3
  w1 = w1
  NoAccount = NoAccount
  NoTx = NoTx
  Accounts = {a1, a2}
  Txs = {t1, t2, t3}
  Workers = {w1}
  MaxAmountMinor = 2
  BookedAmounts = {1}
  MaxRequests = 1
  Crashes = TRUE
  Openings = {0}
  EntrySources = {"MANUAL"}
SPECIFICATION RequestsSpec
SYMMETRY Symmetry
CHECK_DEADLOCK FALSE
INVARIANTS
  QuietBalance
