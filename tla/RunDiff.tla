-------------------------------- MODULE RunDiff --------------------------------
(***************************************************************************)
(* Yesterday's run against today's: `python -m attest --changed` withholds *)
(* some orders from the first run, runs again with all of them, and        *)
(* attest/whatchanged.py says what moved and which orders account for it.  *)
(***************************************************************************)
EXTENDS Portfolio

CONSTANT MaxLate       \* bound on the orders withheld

VARIABLES
  late,        \* orders that arrive after yesterday's run
  whole,       \* today's order file
  yesterday    \* yesterday's finding

days == <<late, whole, yesterday>>

DaysInit == late = {} /\ whole = <<>> /\ yesterday = Undecided

Recorded == {o \in Orders : net[o] # 0}

\* Nothing has been decided and nothing withheld.
Withhold ==
  /\ phase = "cascade" /\ turn = 1 /\ rung = 0 /\ late = {}
  /\ \E S \in (SUBSET Recorded) \ {{}} :
       /\ Cardinality(S) <= MaxLate
       /\ late' = S
       /\ net' = [o \in Orders |-> IF o \in S THEN 0 ELSE net[o]]
  /\ whole' = net
  /\ UNCHANGED <<capturedOn, credit, settledOn, work, turn, rung, spent, findings, phase, yesterday>>

\* The second run starts from nothing but the records.
RunAgain ==
  /\ phase = "done" /\ late # {} /\ yesterday = Undecided
  /\ yesterday' = findings[Payout]
  /\ net' = whole
  /\ turn' = 1 /\ rung' = 0 /\ spent' = {}
  /\ findings' = [s \in Settlements |-> Undecided]
  /\ phase' = "cascade"
  /\ UNCHANGED <<capturedOn, credit, settledOn, work, late, whole>>

-----------------------------------------------------------------------------
(* diff *)

\* A verdict that moved, or a proof made of other orders.
Changed(before, after) ==
  \/ before.verdict # after.verdict
  \/ after.verdict = "PROVEN" /\ before.proofs # after.proofs

\* _direction.
Direction(before, after) ==
  CASE before.verdict = "PROVEN" /\ after.verdict = "PROVEN" -> "recomposed"
    [] before.verdict # "PROVEN" /\ after.verdict = "PROVEN" -> "resolved"
    [] before.verdict = "PROVEN" /\ after.verdict # "PROVEN" -> "withdrawn"
    [] OTHER -> "reframed"

Mut_OrdersCited(f) ==            \* the explanation shown stands for all of them
  IF f.proofs = {} THEN {} ELSE CHOOSE p \in f.proofs : TRUE

OrdersCited(f) == UNION f.proofs

\* The candidate universe of a finding is the pool it was decided over.
Arrived(before, after) ==
  (after.space.members \ before.space.members) \cap OrdersCited(after)
Left(before, after) ==
  (before.space.members \ after.space.members) \cap OrdersCited(before)

\* _attribute.  Every space the engine records has the same integrity, so that
\* one never moves.
Causes(before, after) ==
  LET named == {c \in {[kind |-> "order_arrived", orders |-> Arrived(before, after)],
                       [kind |-> "order_left", orders |-> Left(before, after)]} :
                  c.orders # {}}
  IN  IF named = {} /\ Cardinality(before.proofs) # Cardinality(after.proofs)
      THEN {[kind |-> "candidate_count", orders |-> {}]} ELSE named

-----------------------------------------------------------------------------
(* Properties *)

Compared == yesterday # Undecided /\ findings[Payout].verdict # "UNDECIDED"

\* Late orders never send the search to a wider window nor turn an explained
\* payout into a contradiction, and what a changed answer names as arrived is
\* late, never an order that was there before (whatchanged.py: an order that
\* arrived and is cited by nothing caused nothing).  It names at least one
\* where the second search was finished and what it lists neither overshoots
\* nor leaves more than the band: an order that is late may also bring a set
\* without it within reach, which only a set the pruned search passed over can
\* need.
ChangesAreAttributed ==
  LET today == findings[Payout]
      arrived == {c \in Causes(yesterday, today) : c.kind = "order_arrived"}
      exact == today.layer = "L2-single"
               \/ \A p \in today.proofs : Residual(net, p, credit[Payout]) \in 0 .. BandCap
  IN  Compared =>
        /\ today.rung <= yesterday.rung
        /\ \A c \in arrived : c.orders \subseteq late
        /\ (Changed(yesterday, today) /\ today.verdict # "INSUFFICIENT") =>
             /\ today.verdict # "CONTRADICTED"
             /\ Direction(yesterday, today) = "reframed" =>
                  yesterday.verdict \in {"CONTRADICTED", "INSUFFICIENT"}
             /\ (today.exhaustive /\ exact) => arrived # {}
=============================================================================
