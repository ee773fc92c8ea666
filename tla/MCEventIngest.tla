---------------------------- MODULE MCEventIngest ----------------------------
\* Six bodies: an event, the same id with another body, one of a kind nobody
\* acts on, one payload without an id in two renderings, and garbage.
EXTENDS EventIngest
LOCAL INSTANCE TLC

CONSTANTS first, mutated, unknown, plain, spaced, garbled, t1, t2

MCIdOf == [b \in Bodies |->
  CASE b \in {first, mutated} -> <<"evt", 1>> [] b = unknown -> <<"evt", 2>> [] OTHER -> NoId]
MCDigestOf == [b \in Bodies |->
  CASE b = first -> <<"digest", 1>> [] b = mutated -> <<"digest", 2>> [] b = unknown -> <<"digest", 3>>
    [] b \in {plain, spaced} -> <<"digest", 4>> [] OTHER -> <<"digest", 5>>]
MCNames == [b \in Bodies |-> CASE b = first -> {"s1"} [] OTHER -> {}]

AnyThread == Permutations(Threads)
=============================================================================
