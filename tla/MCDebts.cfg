CONSTANTS
  p1 = p1
  p2 = p2
  p3 = p3
  Payments = {p1, p2, p3}
  MaxSequence = 2
  MaxPrincipal = 2
  MaxInterest = 1
  Principals = {1, 2, 3, 5, 7, 10, 20}
  Rates = {0, 1, 2, 5}
  RateUnit = 10
  MaxPeriods = 6
  FirstYear = 2023
  YearCount = 5
  MonthDays = {1, 15, 28, 29, 30, 31}
  MaxSteps = 14
  WrittenAmounts = {0, 5, 10, 125, 1250, 100000, 12052100}
  MaxText = 4
  Letters = {"a", "b"}
  MaxLabel = 4
SPECIFICATION Spec
SYMMETRY Symmetry
INVARIANTS
  InstallmentTracksPayments
  AllocationBounded
  PaidOffLeavesNothingDue
  EngineRepays
  DatesAndAmountsHold
CHECK_DEADLOCK FALSE
