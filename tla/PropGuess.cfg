\* Three payouts and four orders of one day, captured on two.  A credit of 100 is met by a 100
\* or by a 99; one of 162 by a 100 with a 60, and not by a 99 with one.
CONSTANTS
  a = a
  b = b
  c = c
  d = d
  Orders = {a, b, c, d}
  Settlements = {s1, s2, s3}
  s1 = s1
  s2 = s2
  s3 = s3
  Position <- MCPosition
  Nobody = Nobody
  MaxRounds = 8
  MaxTarget = 1000
  MaxPool = 4
  MaxEnum = 2
  BandCap = 64
  Nets = {60, 99, 100}
  Credits = {100, 162}
  CaptureDays = {7, 8}
  SettleDays = {10}
SPECIFICATION MCSpec
SYMMETRY Payouts
INVARIANTS
  PromotionIsNoGuess
CHECK_DEADLOCK FALSE
