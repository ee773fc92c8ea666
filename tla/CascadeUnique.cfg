\* One payout, three orders that explain it twice over.
CONSTANTS
  a = a
  b = b
  c = c
  d = d
  Orders = {a, b, c}
  Settlements = {"s1"}
  Position <- MCPosition
  MaxTarget = 100
  MaxPool = 3
  MaxEnum = 2
  BandCap = 64
  Nets = {10, 15, 25}
  Credits = {25, 36}
  CaptureDays = {4, 8}
  SettleDays = {10}
SPECIFICATION MCSpec
INVARIANT ProvenMeansExactlyOne
CHECK_DEADLOCK FALSE
