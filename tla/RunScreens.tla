----------------------------- MODULE RunScreens -----------------------------
(***************************************************************************)
(* The views attest/api.py builds of a finished run, the work plan of      *)
(* attest/actions.py and the certificate of a settlement of                *)
(* attest/certificate.py.  Each derives its figures anew from findings,    *)
(* exceptions and policy; none stores anything, so they are operators and  *)
(* no action is added to the close.                                        *)
(***************************************************************************)
EXTENDS PeriodClose

CONSTANT HighValue      \* the 50_00_00 of attention

ASSUME HighValueAssumption == HighValue \in Nat

\* A run has views from the moment its findings are classified and priced.
Shown == closing \in {"judged", "decided", "certified"}

Paid(S) == Total(credit, S)

Unexplained(S) == Total([s \in S |-> exceptions[s].unexplained], S)

Of(verdictKind) == {s \in Settlements : findings[s].verdict = verdictKind}

\* What every explanation of a settlement agrees on; Disputed is the rest.
Common(f) ==
  IF f.proofs = {} THEN {} ELSE {o \in Orders : \A p \in f.proofs : o \in p}

\* summary, the figures in money and the decisions.
Summary ==
  [money |-> [v \in Verdicts |-> Paid(Of(v))],
   decisions |-> [d \in {"AUTO_POST", "REVIEW", "BLOCK"} |->
                    {s \in Settlements : judgements[s] = d}],
   settled |-> LET agreed == [s \in Of("AMBIGUOUS") |-> Total(net, Common(findings[s]))]
               IN  Total(agreed, DOMAIN agreed),
   disputed |-> LET contested == [s \in Of("AMBIGUOUS") |-> Total(net, Disputed(findings[s]))]
                IN  Total(contested, DOMAIN contested),
   unexplained |-> Unexplained(Raised \ Of("AMBIGUOUS"))]

-----------------------------------------------------------------------------
(* Where the money stands: spine_view and activity_view *)

Proven == {s \in Settlements : findings[s].verdict = "PROVEN" /\ Postable(findings[s])}

Posting == {s \in Proven : judgements[s] = "AUTO_POST"}

\* The stage a settlement stopped at, "none" when it came through.  Its pool is
\* that of the finding.
StoppedAt(s) ==
  CASE findings[s].space.members = {} -> "matching"
    [] findings[s].space.members # {} /\ s \notin Proven -> "verification"
    [] s \in Proven \ Posting -> "policy"
    [] OTHER -> "none"

\* The portfolio stops at policy even when everything posts.
Spine ==
  [received |-> Paid(Settlements), proven |-> Paid(Proven),
   heldAtVerification |-> Paid(Settlements) - Paid(Proven),
   heldAtPolicy |-> Paid(Proven) - Paid(Posting), posted |-> Paid(Posting),
   stoppedAt |-> IF Proven # Settlements THEN "verification" ELSE "policy"]

\* The last two events of a settlement: what policy permitted and what the
\* ledger is said to hold, which the view takes to be the same.
Activity(s) ==
  [permitted |-> s \in Posting,
   ledger |-> IF s \in Posting THEN "LEDGER UPDATED" ELSE "LEDGER UNCHANGED"]

Written == \E s \in Settlements : journal[s] \in {"entry", "refused"}

\* journal_view, of a journal that was written.
JournalTotals ==
  [posted |-> Paid({s \in Settlements : journal[s] = "entry"}),
   refused |-> Paid({s \in Settlements : journal[s] = "refused"})]

-----------------------------------------------------------------------------
(* What a person is to do: attention, export_queue, plan *)

Mut_Groups ==                    \* an ambiguity of the high value is in neither
  [contradicted |-> Of("CONTRADICTED"), insufficient |-> Of("INSUFFICIENT"),
   highValue |-> {s \in Of("AMBIGUOUS") : credit[s] > HighValue},
   ambiguity |-> {s \in Of("AMBIGUOUS") : credit[s] < HighValue}]

\* attention, the groups that are not empty.
Groups ==
  [contradicted |-> Of("CONTRADICTED"), insufficient |-> Of("INSUFFICIENT"),
   highValue |-> {s \in Of("AMBIGUOUS") : credit[s] >= HighValue},
   ambiguity |-> {s \in Of("AMBIGUOUS") : credit[s] < HighValue}]

Attention ==
  [items |-> Total([k \in DOMAIN Groups |-> Cardinality(Groups[k])], DOMAIN Groups),
   total |-> Total([k \in DOMAIN Groups |-> Paid(Groups[k])], DOMAIN Groups)]

\* The rows a person takes away, with the orders to look at.
ExportRows ==
  [s \in Settlements \ Of("PROVEN") |->
     [amount |-> credit[s], reason |-> exceptions[s].reason,
      contested |-> Disputed(findings[s]), common |-> Common(findings[s])]]

\* evidence_request: of a settlement that is not proven.
EvidenceRequest(s) ==
  [agreed |-> Common(findings[s]), contested |-> Disputed(findings[s]),
   ask |-> CASE findings[s].verdict = "AMBIGUOUS" /\ Disputed(findings[s]) # {} -> "reference"
             [] findings[s].verdict = "CONTRADICTED" -> "record"
             [] OTHER -> "rerun"]

\* KINDS: one answer serves the group, or each settlement needs its own.
OneAnswer == {"MULTIPLE_VALID_ASSIGNMENTS", "MISSING_TRANSACTION",
              "INSUFFICIENT_EVIDENCE", "SEARCH_SPACE_UNCERTAIN"}

Because(reason) == {s \in Raised : exceptions[s].reason = reason}

\* plan, also of actions_view and _investigation_queue: an action for each reason.
Plan ==
  [r \in {exceptions[s].reason : s \in Raised} |->
     [value |-> Paid(Because(r)), unexplained |-> Unexplained(Because(r)),
      steps |-> IF r \in OneAnswer THEN 1 ELSE Cardinality(Because(r))]]

-----------------------------------------------------------------------------
(* One decision: decision_view, control_loop, evidence_view *)

\* decision_view formats what an unmeasured stratum does not have.
DecisionRaises(s, price) == findings[s].verdict = "PROVEN" /\ price = Unmeasured

Gates(s, price) ==
  [unique   |-> findings[s].verdict = "PROVEN",
   kernel   |-> findings[s].verdict = "PROVEN",
   space    |-> s \in Proven,
   loss     |-> s \in Proven /\ ExpectedLoss(price, credit[s]) < ReviewCost,
   exposure |-> credit[s] <= MaxExposure]

\* lens_states: the dock's word on the journal and on the price.
Dock(s, price) ==
  [policy |-> IF findings[s].verdict # "PROVEN" \/ price = Unmeasured
              THEN "unpriced" ELSE Judge(s, price),
   journal |-> IF Outcome(s, judgements[s]) = "entry"
               THEN "entry written" ELSE "not written"]

\* issue: the lines of a settlement's certificate that hold or do not.
Issue(s) ==
  [amount |-> \E p \in findings[s].proofs : Fits(net, p, credit[s]),
   space |-> TRUE,
   uniqueness |-> findings[s].verdict = "PROVEN",
   exhaustive |-> findings[s].exhaustive,
   kernel |-> findings[s].proofs # {}]

\* rows: how far the constraints of a settlement got, its kind of mark.
Row(s) ==
  CASE findings[s].verdict = "PROVEN" -> "holds"
    [] findings[s].verdict = "AMBIGUOUS" /\ findings[s].proofs # {} -> "not unique"
    [] findings[s].verdict = "AMBIGUOUS" /\ findings[s].proofs = {} -> "not reached"
    [] OTHER -> "amount fails"

ControlLoop(s) ==
  [acted |-> Outcome(s, judgements[s]) = "entry",
   agreed |-> Total(net, Common(findings[s])),
   contested |-> Total(net, Disputed(findings[s])),
   contestedOrders |-> Cardinality(Disputed(findings[s]))]

\* The explanations, each with the orders no other one shares; only an
\* ambiguous settlement has a settled part.
ExplanationsOf(s) ==
  LET shared == IF findings[s].verdict = "AMBIGUOUS" THEN Common(findings[s]) ELSE {}
  IN  {[unique |-> p \ shared, shared |-> Cardinality(p \cap shared)] :
         p \in findings[s].proofs}

-----------------------------------------------------------------------------
(* Properties *)

\* What the spine holds back is what attention lists, what the queue exports,
\* what the plan ranks apart from proofs to widen, and what no entry claims.
HeldMoneyIsNamed ==
  /\ Attention.total = Spine.heldAtVerification
  /\ Attention.total =
       Total([s \in DOMAIN ExportRows |-> ExportRows[s].amount], DOMAIN ExportRows)
  /\ Attention.items = Cardinality(DOMAIN ExportRows)
  /\ Attention.total = ValueOf(Unclaimed)
  /\ Attention.total = Total([r \in DOMAIN Plan |-> Plan[r].value],
                             DOMAIN Plan \ {"SEARCH_SPACE_UNCERTAIN"})
  /\ Summary.money["PROVEN"] = Spine.proven

\* Whatever price led to it, a decision is to post exactly when every gate
\* shown for it is passed, and then every line of its certificate holds; what
\* posts is in the journal, unless an entry that could not be built took it
\* along, and what is posted and refused adds up to what was received.
PostedAsPermitted ==
  /\ Summary.decisions["AUTO_POST"] = Posting
  /\ \A s \in Settlements :
       /\ \A price \in Prices \cup {Unmeasured} :
            Judge(s, price) = judgements[s] /\ ~DecisionRaises(s, price) =>
              (s \in Posting <=> \A g \in DOMAIN Gates(s, price) : Gates(s, price)[g])
       /\ \A price \in Prices \cup {Unmeasured} :
            Judge(s, price) = judgements[s] /\ Dock(s, price).policy = "unpriced" =>
              s \notin Posting
       /\ s \in Posting =>
            /\ StoppedAt(s) = "none" /\ Row(s) = "holds"
            /\ \A line \in DOMAIN Issue(s) : Issue(s)[line]
       /\ journal[s] \in {"entry", "refused"} =>
            /\ journal[s] = "entry" <=> ControlLoop(s).acted
            /\ journal[s] = "entry" <=> Activity(s).ledger = "LEDGER UPDATED"
  /\ Written => /\ JournalTotals.posted = Spine.posted
                /\ JournalTotals.posted + JournalTotals.refused = Spine.received

\* An ambiguous settlement shows a dispute: the orders its explanations do not
\* share are those the exception prices, the queue exports and a person is asked
\* to get a reference for, and what they share fits under the credit.
DisputeIsShown ==
  \A s \in Of("AMBIGUOUS") :
    LET inDispute == UNION {e.unique : e \in ExplanationsOf(s)}
    IN  /\ inDispute # {}
        /\ ControlLoop(s).contested = exceptions[s].unexplained
        /\ Total(net, inDispute) = exceptions[s].unexplained
        /\ ExportRows[s].contested = inDispute
        /\ EvidenceRequest(s).ask = "reference" /\ Row(s) = "not unique"
        /\ EvidenceRequest(s).contested = inDispute
        /\ ControlLoop(s).agreed <= credit[s] + Tolerance(Cardinality(Orders))

\* The figures of one run, each derived by a call of its own, agree: verdict,
\* certificate and journal, and the views of the run among themselves.
FiguresOfTheRunAgree ==
  /\ CertificateAgrees
  /\ Shown => HeldMoneyIsNamed /\ PostedAsPermitted /\ DisputeIsShown
=============================================================================
