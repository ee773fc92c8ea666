\* Periods of two settlements in any situations, and of three in some.
CONSTANTS
  ThresholdBps = 100
  Floor = 10000
  Ceiling = 10000000
  Books <- MCBooks
  Staffed <- MCStaffed
  Horizons = {2, 3}
  Threads = {"t1", "t2"}
  Items <- MCItems
  Strangers = {99}
  Reviewers = {"ann", "bob"}
  Blank = ""
  Overlaps = {TRUE, FALSE}
  MaxRequests = 3
SPECIFICATION DashSpec
INVARIANTS
  ResolvingMoreNeverHurts
  UntouchedBlockersStay
  NothingUnverifiedIsUnnamed
  DecisionIgnoresOrder
  BlockersRankFirst
  BlockersAreTraced
  ReportsAreGrounded
  ScreensAgree
  QueueFollowsLog
PROPERTY ImplementsAuditTrail
CHECK_DEADLOCK FALSE
