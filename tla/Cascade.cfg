\* Four orders, two payouts, nets that add up to each other and to a credit.
\* MaxPool 3 sends a full pool out of the envelope; MaxEnum 2 cuts the
\* enumeration short.
CONSTANTS
  a = a
  b = b
  c = c
  d = d
  Orders = {a, b, c, d}
  Settlements = {"s1", "s2"}
  Position <- MCPosition
  MaxTarget = 100
  MaxPool = 3
  MaxEnum = 2
  BandCap = 64
  Nets = {10, 15, 25}
  Credits = {25, 36}
  CaptureDays = {4, 8}
  SettleDays = {10}
SPECIFICATION MCFairSpec
INVARIANTS
  TypeOK
  NoOrderSpentTwice
  SpentIsAccounted
  ContradictionIsExhaustive
  RivalsExtendTheProof
  AbstentionsAreComplete
PROPERTIES
  EverySettlementIsAnswered
  ImplementsClaimBook
CHECK_DEADLOCK FALSE
