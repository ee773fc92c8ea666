------------------------------ MODULE AuditTrail ------------------------------
(***************************************************************************)
(* What the review queue promises a controller: a trail of signed actions  *)
(* that only grows, and items whose status is what the trail says.         *)
(***************************************************************************)
EXTENDS Sequences, Naturals

CONSTANTS Items, Statuses, Pending

VARIABLES trail,     \* the status each recorded action moved which item to
          status     \* item -> its status in the queue

vars == <<trail, status>>

Init == /\ trail = <<>>
        /\ status = [i \in Items |-> Pending]

Act(i, new) ==
  /\ trail' = Append(trail, [item |-> i, from |-> status[i], to |-> new])
  /\ status' = [status EXCEPT ![i] = new]

Next == \E i \in Items, new \in Statuses \ {Pending} : Act(i, new)

Spec == Init /\ [][Next]_vars
=============================================================================
