CONSTANTS
  a1 = a1
  a2 = a2
  t1 = t1
  t2 = t2
  t3 = t3
  NoAccount = NoAccount
  NoTx = NoTx
  Accounts = {a1, a2}
  Txs = {t1, t2, t3}
  MaxAmountMinor = 2
  Openings <- MCOpenings
  EntrySources = {"MANUAL", "DEBT_PAYMENT"}
  Base = base
  Foreign = foreign
  RateTables <- MCRates
  Instants = {2, 3}
  Places = 5
SPECIFICATION Spec
SYMMETRY Symmetry
CHECK_DEADLOCK FALSE
INVARIANTS
  BalanceDerived
  TransferPaired
  FeeLineIntegrity
  ReportsAgree
