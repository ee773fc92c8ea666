\* Two clients and the warm-up; a browser tab still holds an id of an earlier
\* server process, which a run of this one may come to bear.
CONSTANTS
  Clients = {"c1", "c2"}
  Warm = "warm"
  Asked = {5, 60, 120}
  MinSize = 10
  MaxSize = 500
  WarmSizes = {60, 120}
  StaleIds = {1}
  MaxRequests = 3
SPECIFICATION FairSpec
INVARIANTS
  OneExecutionPerSize
PROPERTIES
  ReplayExecutesOnlyInTheGap
  EveryRequestIsAnswered
CHECK_DEADLOCK FALSE
