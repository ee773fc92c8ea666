------------------------------ MODULE Predictor ------------------------------
(***************************************************************************)
(* closepilot/predictor.py: the chance that an exception resolves by       *)
(* itself, within how many days, and who should look at it.  The logistic  *)
(* function is increasing, so every test of the probability is the same    *)
(* test of the logit; the logit is kept in ten thousandths.                *)
(***************************************************************************)
EXTENDS Integers

\* _HAZARD_PRIORS: the logit of the base probability, and the base horizon.
Prior(reason) ==
  CASE reason = "TIMING_MISMATCH"            -> [logit |-> 19924,  days |-> 3]
    [] reason = "REFUND_MISMATCH"            -> [logit |-> 9445,   days |-> 5]
    [] reason = "UNKNOWN_ADJUSTMENT"         -> [logit |-> -2007,  days |-> 7]
    [] reason = "MULTIPLE_VALID_ASSIGNMENTS" -> [logit |-> -10986, days |-> 14]
    [] reason = "DUPLICATE_AMOUNT"           -> [logit |-> -8473,  days |-> 10]
    [] reason = "PARTIAL_SETTLEMENT"         -> [logit |-> 6190,   days |-> 5]
    [] reason = "MISSING_TRANSACTION"        -> [logit |-> -4055,  days |-> 7]
    [] reason = "SEARCH_SPACE_UNCERTAIN"     -> [logit |-> 2007,   days |-> 3]
    [] reason = "CHARGEBACK"                 -> [logit |-> -15163, days |-> 30]
    [] reason = "DATA_QUALITY"               -> [logit |-> -29444, days |-> 14]
    [] reason = "NO_VALID_ASSIGNMENT"        -> [logit |-> -13863, days |-> 14]
    [] reason = "INSUFFICIENT_EVIDENCE"      -> [logit |-> -6190,  days |-> 7]
    [] OTHER                                 -> [logit |-> -8473,  days |-> 7]

\* The probabilities the code compares with, as logits.
P40 == -4055
P50 == 0
P70 == 8473
P75 == 10986
Far == 13863                     \* thirty points or more from one half

Stake(e) == IF e.unexplained < 0 THEN -e.unexplained ELSE e.unexplained

AgeEffect(age) ==
  CASE age <= 2 -> 3500 [] age \in 3..5 -> 500 [] age \in 6..10 -> -4000
    [] age \in 11..30 -> -11000 [] OTHER -> -22000

SizeEffect(exposure) ==
  CASE exposure = 0 -> 10000 [] exposure \in 1..4999 -> 4000
    [] exposure \in 5000..49999 -> 1000 [] exposure \in 50000..499999 -> -3000
    [] OTHER -> -8000

EvidenceEffect(e) ==
  (IF e.missing THEN 3500 ELSE 0)
  + (IF e.partial \/ e.established > 0 THEN 2500 ELSE 0)

SeverityEffect(severity) ==
  CASE severity = "HIGH" -> -12000 [] severity = "MEDIUM" -> -3000 [] OTHER -> 0

AttemptsEffect(attempts) == -4000 * (IF attempts < 4 THEN attempts ELSE 4)

Logit(e, age, attempts) ==
  Prior(e.reason).logit + AgeEffect(age) + SizeEffect(Stake(e))
    + EvidenceEffect(e) + SeverityEffect(e.severity) + AttemptsEffect(attempts)

Horizon(reason, logit, age) ==
  LET base == Prior(reason).days
      left == IF 4 - age < base THEN 4 - age ELSE base
  IN  CASE reason = "TIMING_MISMATCH" -> IF left > 1 THEN left ELSE 1
        [] reason # "TIMING_MISMATCH" /\ logit >= P75 -> base
        [] reason # "TIMING_MISMATCH" /\ logit \in P40..(P75 - 1) -> base + 3
        [] OTHER -> IF base + 10 > 14 THEN base + 10 ELSE 14

\* The confidence score, in hundredths.
Score(e, logit, age) ==
  50 + (IF logit >= Far \/ logit <= -Far THEN 25 ELSE 0)
     + (IF e.missing \/ e.established > 0 THEN 15 ELSE 0)
     + (IF age > 20 THEN 10 ELSE 0)

Tier(score) ==
  CASE score >= 75 -> "HIGH" [] score \in 45..74 -> "MEDIUM" [] OTHER -> "LOW"

Routing(e, logit, age) ==
  CASE e.severity = "HIGH" \/ Stake(e) >= 1000000 -> "MANUAL_AUDIT"
    [] OTHER ->
       CASE e.reason = "CHARGEBACK" -> "ESCALATE_FINANCE_DISPUTE"
         [] e.reason = "DATA_QUALITY" -> "DATA_OPS_CORRECTION"
         [] e.reason \notin {"CHARGEBACK", "DATA_QUALITY"} /\ logit >= P75 /\ age <= 3 ->
              "AUTO_RESOLVE_NEXT_CYCLE"
         [] OTHER -> IF logit >= P50 THEN "HOLD_FOR_SETTLEMENT_WINDOW"
                     ELSE "INVESTIGATE_OPERATIONAL"

\* predict_resolution, of the features of an exception.
Predict(e, age, attempts) ==
  LET logit == Logit(e, age, attempts)
  IN  [logit |-> logit,
       days |-> Horizon(e.reason, logit, age),
       confidence |-> Tier(Score(e, logit, age)),
       routing |-> Routing(e, logit, age)]

\* predict_batch, as every caller calls it: without an age, so that
\* extract_features takes the age of an exception to be zero.
PredictAsFiled(e) == Predict(e, 0, 0)
=============================================================================
