------------------------------- MODULE Posting -------------------------------
(***************************************************************************)
(* attest/policy.py `decide` and attest/ledger.py `post`: whether a finding *)
(* may post by itself, and the entry it posts.                             *)
(***************************************************************************)
EXTENDS Cascade

CONSTANTS
  Prices,           \* error rates the risk model may hold, in thousandths
  Unmeasured,       \* of a stratum with too few observations
  ReviewCost,       \* Costs.review_paise
  WrongPostFixed, WrongPostBps, MaxExposure,
  Charge,           \* order -> gross - net of the merchant's record
  Fee, Tax          \* order -> fee and tax of the rule set, for its gross

ASSUME PostingAssumption ==
  /\ Prices \subseteq Nat /\ Unmeasured \notin Nat
  /\ {ReviewCost, WrongPostFixed, WrongPostBps, MaxExposure} \subseteq Nat
  /\ Charge \in [Orders -> Nat] /\ Fee \in [Orders -> Nat] /\ Tax \in [Orders -> Nat]

WrongPost(amount) == WrongPostFixed + (amount * WrongPostBps) \div 10000

\* The expected loss, rounded up.
ExpectedLoss(price, amount) == -((-(price * WrongPost(amount))) \div 1000)

\* decide, on a verdict and an amount.  No space of the engine records a known
\* loss.
Judgement(verdict, amount, price) ==
  IF verdict # "PROVEN" THEN "REVIEW"
  ELSE IF price = Unmeasured THEN "BLOCK"
  ELSE IF \/ amount > MaxExposure
          \/ ExpectedLoss(price, amount) >= ReviewCost
  THEN "REVIEW" ELSE "AUTO_POST"

Judge(s, price) == Judgement(findings[s].verdict, credit[s], price)

-----------------------------------------------------------------------------
(* The entry *)

SumOver(amount, S) == Sets!MapThenSumSet(LAMBDA o : amount[o], S)

\* The order set of the one proof.
Cited(s) == UNION findings[s].proofs

\* What arrived beyond what the orders net to goes on the fee line.
FeeLine(s) == SumOver(Fee, Cited(s)) - Residual(net, Cited(s), credit[s])

Debits(s) == credit[s] + FeeLine(s) + SumOver(Tax, Cited(s))
Discharged(s) == SumOver(net, Cited(s)) + SumOver(Charge, Cited(s))

\* The refusals of post, in its order.
Refused(s, judgement) ==
  \/ findings[s].verdict # "PROVEN"
  \/ ~Postable(findings[s])
  \/ ~KernelAccepts(net, Cited(s), credit[s])
  \/ judgement # "AUTO_POST"

\* The entry cannot be built: the rule set splits the charge otherwise, a line
\* is negative, or the sides differ.
Unbalanced(s) ==
  \/ SumOver(Fee, Cited(s)) + SumOver(Tax, Cited(s)) # SumOver(Charge, Cited(s))
  \/ FeeLine(s) < 0
  \/ Debits(s) # Discharged(s)

Outcome(s, judgement) ==
  IF Refused(s, judgement) THEN "refused"
  ELSE IF Unbalanced(s) THEN "raised" ELSE "entry"
=============================================================================
