SPECIFICATION SubmissionsSpec
CONSTANTS
  k1 = k1
  k2 = k2
  Workers = {w1, w2}
  Keys <- MCKeys
  Files <- MCFiles
  MaxBatches = 2
  MaxRows = 3
  MaxEvents = 1
  MaxWishes = 2
  MaxPresses = 3
  MaxDropped = 1
  Targets = {t1, t2}
  NoTarget = NoTarget
  Pins = {n1, n2}
  NoPin = NoPin
  MaxEntries = 6
  MaxTogether = 2
  MaxTurns = 3
  MaxUnread = 2
  Handlers = {h1, h2}
  Photos = {f1, f2}
  MaxFaults = 2
SYMMETRY Symmetric
INVARIANTS LineOnce RevertIsClean HandedInIsKept PinHolds
PROPERTIES PreviewHolds
CHECK_DEADLOCK FALSE
