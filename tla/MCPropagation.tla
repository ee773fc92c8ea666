---------------------------- MODULE MCPropagation ----------------------------
\* Small books for propagation, four orders and three payouts of one day.
\* Day 10 is a Thursday, days 7 and 8 the Monday and the Tuesday before it.
EXTENDS Packing, TLC

CONSTANTS a, b, c, d

MCPosition == [o \in Orders |-> CASE o = a -> 1 [] o = b -> 2 [] o = c -> 3 [] OTHER -> 4]

\* Order ids mean nothing but their place among ties, so every book is one of
\* these with its orders renamed.
LargestFirst ==
  \A o, p \in Orders : Position[o] < Position[p] => net[o] >= net[p]

MCInit == PackInit /\ LargestFirst
MCSpec == MCInit /\ [][PackNext]_packvars

\* Payouts differ in their credit and their turn only, and both vary.
Payouts == Permutations(Settlements)
=============================================================================
