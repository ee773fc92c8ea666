------------------------------ MODULE Measurement ------------------------------
(***************************************************************************)
(* What the benchmark says of a run whose truth is known, for one payout:  *)
(* attest/eval/metrics.py measure, attest/eval/harness.py evaluate, and    *)
(* calibrate and simulate of attest/policy.py.  Four readers of one        *)
(* finding; each counts for itself.                                        *)
(***************************************************************************)
EXTENDS Portfolio, Exceptions, Posting

\* Pairs of payout and order: claimed and true, claimed only, true only.
Pairs(got) ==
  [tp |-> Cardinality(got \cap truth), fp |-> Cardinality(got \ truth),
   fn |-> Cardinality(truth \ got)]

Nothing == [settled |-> 0, disputed |-> 0, unexplained |-> 0]

\* The money of the work item: what every explanation agrees on and what they
\* differ over, or else what is left unexplained.
Accounted(f) ==
  IF f.verdict = "AMBIGUOUS"
  THEN [Nothing EXCEPT !.settled = Total(net, (UNION f.proofs) \ Disputed(f)),
                       !.disputed = Total(net, Disputed(f))]
  ELSE [Nothing EXCEPT !.unexplained = Classify(Payout).unexplained]

Mut_Measured(f, price) ==          \* the first explanation of any finding counts as claimed
  LET got == IF f.proofs = {} THEN {} ELSE CHOOSE p \in f.proofs : TRUE
      amount == credit[Payout]
      posts == Judgement(f.verdict, amount, price) = "AUTO_POST"
      proven == f.verdict = "PROVEN"
  IN  [exact |-> proven /\ got = truth, false_proof |-> proven /\ got # truth,
       pairs |-> Pairs(got), money |-> Accounted(f),
       posted |-> IF posts THEN amount ELSE 0, protected |-> IF posts THEN 0 ELSE amount,
       wrongly |-> IF posts /\ got # truth THEN amount ELSE 0,
       loss |-> IF posts THEN ExpectedLoss(price, amount) ELSE 0]

\* metrics.measure, at an error rate of the risk model.
Measured(f, price) ==
  LET got == Claim(f)
      amount == credit[Payout]
      posts == Judgement(f.verdict, amount, price) = "AUTO_POST"
      proven == f.verdict = "PROVEN" /\ f.proofs # {}
  IN  [exact |-> proven /\ got = truth, false_proof |-> proven /\ got # truth,
       pairs |-> Pairs(got), money |-> Accounted(f),
       posted |-> IF posts THEN amount ELSE 0, protected |-> IF posts THEN 0 ELSE amount,
       wrongly |-> IF posts /\ got # truth THEN amount ELSE 0,
       loss |-> IF posts THEN ExpectedLoss(price, amount) ELSE 0]

\* harness.evaluate, of the prediction the engine made: None, and declined,
\* unless the finding may post.
Evaluated(f) ==
  LET got == UNION f.proofs
  IN  IF ~Postable(f)
      THEN [declined |-> TRUE, exact |-> FALSE, wrong |-> FALSE,
            pairs |-> [Pairs({}) EXCEPT !.fn = Cardinality(truth)],
            reachable |-> Cardinality(truth \cap f.space.members)]
      ELSE [declined |-> FALSE, exact |-> got = truth, wrong |-> got # truth,
            pairs |-> Pairs(got), reachable |-> Cardinality(truth \cap f.space.members)]

\* policy.calibrate: whether the finding is observed, and as an error.
Observation(f) ==
  IF f.verdict = "PROVEN" /\ f.proofs # {}
  THEN (IF UNION f.proofs # truth THEN "error" ELSE "right")
  ELSE "skipped"

\* policy.simulate: an error is priced as the policy prices one.
Simulated(f, price) ==
  LET amount == credit[Payout]
      posts == Judgement(f.verdict, amount, price) = "AUTO_POST"
      wrong == posts /\ f.proofs # {} /\ UNION f.proofs # truth
  IN  [posted |-> IF posts THEN amount ELSE 0, protected |-> IF posts THEN 0 ELSE amount,
       loss |-> IF posts THEN ExpectedLoss(price, amount) ELSE 0,
       realised |-> IF wrong THEN WrongPost(amount) ELSE 0, wrong |-> wrong]

-----------------------------------------------------------------------------
(* Properties *)

\* One home for a number: the benchmark, the harness, the calibration and the
\* simulation of the policy report the same successes, errors and money.
SameStory(f, price) ==
  LET m == Measured(f, price)
      e == Evaluated(f)
      sim == Simulated(f, price)
  IN  /\ m.exact = e.exact /\ m.false_proof = e.wrong /\ m.pairs = e.pairs
      /\ m.false_proof <=> Observation(f) = "error"
      /\ m.posted = sim.posted /\ m.protected = sim.protected /\ m.loss = sim.loss
      /\ sim.wrong => m.false_proof
      /\ sim.wrong /\ credit[Payout] # 0 <=> m.wrongly # 0

\* The accounted rate stays a rate, and what is agreed and disputed makes up
\* the credit, to the rounding bound.
NothingCountedTwice(f, price) ==
  LET m == Measured(f, price)
  IN  f.verdict = "AMBIGUOUS" =>
        /\ m.posted + m.money.settled <= credit[Payout]
        /\ credit[Payout] <= m.money.settled + m.money.disputed
                               + Tolerance(Cardinality(f.space.members))

\* What blocking lost is the ceiling of what can be recovered.
WithinTheCeiling(f) ==
  LET e == Evaluated(f)
  IN  e.pairs.tp <= e.reachable /\ (e.exact => e.reachable = Cardinality(truth))
=============================================================================
