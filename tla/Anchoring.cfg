\* One payout.  Nets are large against the rounding bound; MaxPool keeps every
\* pool in the envelope, MaxEnum 3 is met by the books with twins, and BandCap 1 by
\* the ledger of two payments the gateway rounds up.
CONSTANTS
  Orders <- MCOrders
  Settlements = {"s1"}
  Position <- MCPosition
  MaxTarget = 9000
  MaxPool = 4
  MaxEnum = 3
  BandCap = 1
  Nets = {20, 31}
  Credits = {}
  CaptureDays = {}
  SettleDays = {}
  Starts <- MCStarts
  Lags = {2, 4}
  Cases = {"clean", "timing_gap", "duplicate_amount", "orphan_order", "ambiguous_subset",
           "refund_offset", "chargeback_reversal", "split_order", "orphan_settlement"}
  MaxBundle = 3
  LeastRefund = 8
  MostRefund = 10
  ReversalAge = 14
  MaxLate = 2
  Ledgers <- MCLedgers
  Arriving <- MCArriving
  MaxArrivals = 1
  PageSize = 2
  MaxSkip = 2
  Ghosts = {0}
  MaxRounds = 2
  Prices = {0, 900}
  Unmeasured = Unmeasured
  ReviewCost = 25
  WrongPostFixed = 250
  WrongPostBps = 3000
  MaxExposure = 5000
  LargeAmount = 5000
  SmallAmount = 100
  Charge <- MCZero
  Fee <- MCZero
  Tax <- MCZero
  Requesters = {"reconciliation", "unknown"}
  Capabilities = {"run_solver", "post_accounting_entry"}
SPECIFICATION AnchoringSpec
INVARIANTS
  CompleteOrWarned
  CountedOnce
  TheTruthIsListed
  FiguresAgree
  ChangesAreAttributed
  AnchorsOnlyChoose
  PermittedIsPosted
CHECK_DEADLOCK FALSE
