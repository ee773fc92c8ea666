------------------------------ MODULE MCCascade ------------------------------
\* Small books for the cascade.  Day 10 is a Thursday, day 8 the Tuesday two
\* business days before it, day 4 the Friday four business days before it.
EXTENDS Cascade

CONSTANTS a, b, c, d

MCPosition == [o \in Orders |-> CASE o = a -> 1 [] o = b -> 2 [] o = c -> 3 [] OTHER -> 4]

\* Order ids mean nothing but their place among ties, so every book is one of
\* these with its orders renamed.
LargestFirst ==
  \A o, p \in Orders : Position[o] < Position[p] => net[o] >= net[p]

MCInit == Init /\ LargestFirst
MCSpec == MCInit /\ [][Next]_vars
MCFairSpec == MCSpec /\ WF_vars(Next)
=============================================================================
