----------------------------- MODULE ReviewQueue -----------------------------
(***************************************************************************)
(* build_review_queue and compute_priority_score of                        *)
(* closepilot/review_queue.py: what decides the order in which a           *)
(* controller is shown the exceptions.  ReviewDesk has what happens to     *)
(* the queue afterwards.                                                   *)
(***************************************************************************)
EXTENDS Readiness

MostImpact == 10000000
MostUrgency == 50000

\* 100,000 times the chance that an exception does not resolve by itself: the
\* predictor keeps its probabilities between 0.01 and 0.99.
Doubts == 1000..99000

\* The blockers on the exception itself and on its settlement.
OnIt(verdict, e) ==
  {k \in verdict.blockers : k.ref \in {Exception(e), Settlement(e.sid)}}

IsHard(verdict, e) == OnIt(verdict, e) # {}

MaterialKinds == {"UNRESOLVED_MATERIAL_AMOUNT", "AMBIGUOUS_MATERIAL_SETTLEMENT"}

\* is_material, against what is allowable of the whole of the exposure.
IsMaterial(verdict, total, e) ==
  \/ Magnitude(e.unexplained) > Allowable(total) /\ Allowable(total) > 0
  \/ \E k \in OnIt(verdict, e) : k.kind \in MaterialKinds

IsAmbiguous(verdict, e) ==
  \/ e.reason = "MULTIPLE_VALID_ASSIGNMENTS" \/ e.disputed > 0
  \/ \E k \in OnIt(verdict, e) : k.kind = "AMBIGUOUS_MATERIAL_SETTLEMENT"

If(test, points) == IF test THEN points ELSE 0

Mut_Safety(verdict, total, e) == \* a blocker adds nothing of its own
  If(IsMaterial(verdict, total, e), 500000)
  + If(e.severity = "HIGH", 300000) + If(e.severity = "MEDIUM", 100000)
  + If(IsAmbiguous(verdict, e), 200000)

Safety(verdict, total, e) ==
  If(IsHard(verdict, e), 1000000) + If(IsMaterial(verdict, total, e), 500000)
  + If(e.severity = "HIGH", 300000) + If(e.severity = "MEDIUM", 100000)
  + If(IsAmbiguous(verdict, e), 200000)

Impact(verdict, total, e) ==
  Lesser(Magnitude(e.unexplained) \div 1000, MostImpact)
  + If(IsMaterial(verdict, total, e), 200000)

\* The age is that of the settlement on the day the queue is built.
Urgency(age, doubt) == Lesser(age * 1000, MostUrgency) + doubt

\* compute_priority_score, of an exception that has a prediction.
PriorityScore(verdict, total, e, age, doubt) ==
  Safety(verdict, total, e) + Impact(verdict, total, e) + Urgency(age, doubt)
=============================================================================
