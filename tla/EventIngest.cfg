\* Two threads, three deliveries, overlapping or not: an event, its mutation,
\* an unknown kind, garbage.
CONSTANTS
  first = first
  mutated = mutated
  unknown = unknown
  plain = plain
  spaced = spaced
  garbled = garbled
  NoId = NoId
  Bodies = {first, mutated, unknown, garbled}
  Unusable = {garbled}
  Unhandled = {unknown}
  IdOf <- MCIdOf
  DigestOf <- MCDigestOf
  Names <- MCNames
  Threads = {t1, t2}
  t1 = t1
  t2 = t2
  Shown = {"s1"}
  Configured = {TRUE, FALSE}
  Overlaps = {TRUE, FALSE}
  MaxRequests = 3
  MaxOverlapping = 2
  MaxDemos = 2
SPECIFICATION Spec
SYMMETRY AnyThread
INVARIANTS
  OnlyVerifiedIsSeen
  
PROPERTY ImplementsInbox
CHECK_DEADLOCK FALSE
