\* Two controllers act at the same time.
CONSTANTS
  Threads = {"t1", "t2"}
  Items = {"e1", "e2"}
  Strangers = {"x"}
  Reviewers = {"ann"}
  Blank = ""
  Overlaps = {TRUE}
  MaxRequests = 2
SPECIFICATION Spec
INVARIANT AcknowledgedIsKept
CHECK_DEADLOCK FALSE
