------------------------------ MODULE Exceptions ------------------------------
(***************************************************************************)
(* attest/exceptions.py: the work item the engine raises for a settlement  *)
(* it has answered, with the money that answer leaves unexplained.         *)
(***************************************************************************)
EXTENDS Cascade

CONSTANTS
  LargeAmount,    \* the 1_00_000 of _severity and of the uncertain proof
  SmallAmount     \* the 5_000 of _severity

ASSUME ExceptionAssumption ==
  SmallAmount \in Nat /\ LargeAmount \in Nat /\ SmallAmount <= LargeAmount

Reasons == {"MULTIPLE_VALID_ASSIGNMENTS", "NO_VALID_ASSIGNMENT",
            "UNKNOWN_ADJUSTMENT", "MISSING_TRANSACTION",
            "INSUFFICIENT_EVIDENCE", "SEARCH_SPACE_UNCERTAIN"}
Severities == {"LOW", "MEDIUM", "HIGH"}

ExceptionType == [reason : Reasons, severity : Severities, unexplained : Nat]

\* Not raised: only before a settlement is classified.
NoException == [reason |-> "none", severity |-> "LOW", unexplained |-> 0]

\* A quarter and a fiftieth of the amount are shares of at least one paisa.
Severity(unexplained, amount, reason) ==
  IF \/ reason = "MISSING_TRANSACTION"
     \/ unexplained >= amount \/ unexplained >= LargeAmount
     \/ 4 * unexplained > amount
  THEN "HIGH"
  ELSE IF unexplained >= SmallAmount \/ 50 * unexplained > amount
  THEN "MEDIUM"
  ELSE "LOW"

\* best_partial: largest first, an order is taken when it still fits under the
\* credit beside those taken before it.
BestPartial(pool, amount) ==
  CHOOSE S \in SUBSET pool :
    \A o \in pool : o \in S <=> Total(net, Chosen(net, S, o)) + net[o] <= amount

\* _settled_part: what the explanations of a settlement do not agree on.
Disputed(f) ==
  (UNION f.proofs) \ {o \in Orders : \A p \in f.proofs : o \in p}

\* No candidate is left out and still the credit is not reached.
Short(pool, amount) ==
  Total(net, pool) < amount - Tolerance(IF pool = {} THEN 1 ELSE Cardinality(pool))

Unresolved(s, reason, unexplained) ==
  [reason |-> reason, unexplained |-> unexplained,
   severity |-> Severity(unexplained, credit[s], reason)]

\* Proven, but over a reduced space.  The date window and consumption are in
\* every space the engine records, so this is said of every proof it finds.
Uncertain(s) ==
  [reason |-> "SEARCH_SPACE_UNCERTAIN", unexplained |-> 0,
   severity |-> IF credit[s] < LargeAmount THEN "LOW" ELSE "MEDIUM"]

Contradicted(s) ==
  LET pool == findings[s].space.members
      gap == credit[s] - Total(net, BestPartial(pool, credit[s]))
  IN  IF Short(pool, credit[s])
      THEN Unresolved(s, "MISSING_TRANSACTION", credit[s] - Total(net, pool))
      ELSE IF 0 < gap /\ gap < credit[s] \div 4
      THEN Unresolved(s, "UNKNOWN_ADJUSTMENT", gap)
      ELSE Unresolved(s, "NO_VALID_ASSIGNMENT", gap)

\* classify, of a settlement the engine has answered.
Classify(s) ==
  LET f == findings[s]
  IN  CASE f.verdict = "PROVEN" -> Uncertain(s)
        [] f.verdict = "INSUFFICIENT" ->
             Unresolved(s, "INSUFFICIENT_EVIDENCE", credit[s])
        [] f.verdict = "AMBIGUOUS" ->
             Unresolved(s, "MULTIPLE_VALID_ASSIGNMENTS", Total(net, Disputed(f)))
        [] OTHER -> Contradicted(s)
=============================================================================
