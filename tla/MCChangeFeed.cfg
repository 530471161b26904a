SPECIFICATION FeedSpec
CONSTANTS
  Rows = {1, 2, 3}
  Tables = 2
  Writers = {w1, w2}
  Limit = 1
  MaxNow = 2
  MaxWrites = 4
  MaxLost = 1
PROPERTIES FeedExplained Converges
CHECK_DEADLOCK FALSE
