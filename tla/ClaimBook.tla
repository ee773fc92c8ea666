------------------------------ MODULE ClaimBook ------------------------------
(***************************************************************************)
(* What the reconciliation promises, without how it searches: settlements  *)
(* answer one after another, each once, and an answer takes a set of       *)
(* orders nobody holds.  An order that is held is never handed on.         *)
(***************************************************************************)
CONSTANTS Orders, Settlements, Nobody

VARIABLES owner,      \* order -> the settlement that claims it
          answered    \* settlements that have been decided

vars == <<owner, answered>>

Init == /\ owner = [o \in Orders |-> Nobody]
        /\ answered = {}

Free == {o \in Orders : owner[o] = Nobody}

Answer(s, claim) ==
  /\ s \notin answered
  /\ claim \subseteq Free
  /\ owner' = [o \in Orders |-> IF o \in claim THEN s ELSE owner[o]]
  /\ answered' = answered \cup {s}

Next == \E s \in Settlements, claim \in SUBSET Orders : Answer(s, claim)

Spec == Init /\ [][Next]_vars
=============================================================================
