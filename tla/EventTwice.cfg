\* Two threads, the same delivery twice.
CONSTANTS
  first = first
  mutated = mutated
  unknown = unknown
  plain = plain
  spaced = spaced
  garbled = garbled
  NoId = NoId
  Bodies = {first, garbled}
  Unusable = {garbled}
  Unhandled = {}
  IdOf <- MCIdOf
  DigestOf <- MCDigestOf
  Names <- MCNames
  Threads = {t1, t2}
  t1 = t1
  t2 = t2
  Shown = {"s1"}
  Configured = {TRUE}
  Overlaps = {TRUE}
  MaxRequests = 2
  MaxOverlapping = 2
  MaxDemos = 0
SPECIFICATION Spec
INVARIANT AcceptedOnce
CHECK_DEADLOCK FALSE
