\* A credit of 16 is met by a 15 and a paisa, 36 by a 32 with any 4, 48 by a 32
\* with any 15 and a paisa; 200 is outside the envelope, and a 60 pays nothing.
CONSTANTS
  a = a
  b = b
  c = c
  d = d
  Orders = {a, b, c, d}
  Settlements = {"s1", "s2"}
  Position <- MCPosition
  MaxTarget = 100
  MaxPool = 3
  MaxEnum = 2
  BandCap = 64
  Nets = {4, 15, 32, 60}
  Credits = {16, 36, 48, 200}
  CaptureDays = {8}
  SettleDays = {10}
  LargeAmount = 50
  SmallAmount = 5
  Prices = {1, 200}
  Unmeasured = Unmeasured
  ReviewCost = 5
  WrongPostFixed = 25
  WrongPostBps = 3000
  MaxExposure = 40
  Charge <- MCCharge
  Fee <- MCFee
  Tax <- MCTax
  ThresholdBps = 7500
  Floor = 10
  Ceiling = 40
  HighValue = 36
SPECIFICATION CloseSpec
INVARIANTS
  EveryFindingIsAccountedFor
CHECK_DEADLOCK FALSE
