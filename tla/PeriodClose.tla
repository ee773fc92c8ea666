----------------------------- MODULE PeriodClose -----------------------------
(***************************************************************************)
(* The close of a period, as scripts/benchmark_evaluation.py runs it over  *)
(* the findings of the cascade: classify, judge, decide_period of          *)
(* attest/close/readiness.py, assess_exposure, issue_certificate; and the  *)
(* journal of attest/api.py, written from the same findings.  The period   *)
(* is the whole settlement file, from its first date to its last.          *)
(***************************************************************************)
EXTENDS Exceptions, Posting

CONSTANTS ThresholdBps, Floor, Ceiling      \* MaterialityBound

ASSUME MaterialityAssumption ==
  ThresholdBps \in Nat /\ Floor \in Nat /\ Ceiling \in Nat /\ Floor <= Ceiling

VARIABLES
  exceptions,    \* settlement -> its exception
  judgements,    \* settlement -> what policy decided
  journal,       \* settlement -> outcome of post, "" while unwritten
  verdict,       \* PeriodVerdict
  certificate,   \* CloseCertificate
  closing        \* "findings", "classified", "judged", "decided", "certified"

closeVars == <<exceptions, judgements, journal, verdict, certificate, closing>>
allVars == <<vars, closeVars>>

-----------------------------------------------------------------------------
(* Exposure: attest/close/exposure.py *)

Value(s) == Magnitude(credit[s])

ValueOf(S) == Total([s \in S |-> Value(s)], S)

\* Case A.  Every other settlement of the period becomes an exposure item.
FullyVerified(s) ==
  /\ findings[s].verdict = "PROVEN" /\ Postable(findings[s])
  /\ exceptions[s].unexplained = 0

Items == {s \in Settlements : ~FullyVerified(s)}

\* The part of a settlement's value that counts as verified: of a proof, less
\* what its exception leaves unexplained (cases A and A.2), unless policy
\* withholds it (case A.1).
VerifiedPart(s, withheld) ==
  LET gap == Magnitude(exceptions[s].unexplained)
  IN  IF /\ findings[s].verdict = "PROVEN" /\ Postable(findings[s])
         /\ s \notin withheld /\ gap < Value(s)
      THEN Value(s) - gap ELSE 0

Verified(withheld) ==
  Total([s \in Settlements |-> VerifiedPart(s, withheld)], Settlements)

NetUnresolved(withheld) == ValueOf(Settlements) - Verified(withheld)

\* decide_period hands no judgements to assess_exposure, the certificate's
\* caller does.
Unjudged == NetUnresolved({})

Mut_Withheld ==                  \* what a person must review is withheld too
  {s \in Settlements : judgements[s] # "AUTO_POST"}

Withheld == {s \in Settlements : judgements[s] = "BLOCK"}

-----------------------------------------------------------------------------
(* Readiness: attest/close/materiality.py and readiness.py *)

\* max_allowable_exposure_paise.
Allowable(total) ==
  LET scaled == (total * ThresholdBps) \div 10000
      capped == IF scaled < Ceiling THEN scaled ELSE Ceiling
  IN  IF total <= 0 \/ capped < Floor THEN Floor ELSE capped

Allowed == Allowable(ValueOf(Settlements))

\* is_material, of the exposure assessed without the judgements.
Material == Unjudged > Allowed

\* A blocker refers to the settlements `on`; the one on the period to all.
Blocker(kind, on, exposure) == [kind |-> kind, on |-> on, exposure |-> exposure]

Wholly(s) == exceptions[s].unexplained = credit[s] /\ credit[s] > 0

\* Cited as proven by more than one settlement of the period.
TwiceProven(s) ==
  findings[s].verdict = "PROVEN"
  /\ \E t \in Settlements \ {s} :
       findings[t].verdict = "PROVEN" /\ Cited(s) \cap Cited(t) # {}

Ambiguous(s) ==
  \/ findings[s].verdict = "AMBIGUOUS"
  \/ findings[s].verdict = "PROVEN" /\ ~Postable(findings[s])

\* The rules that block, each with the settlements it blocks.
Rule ==
  [CONTRADICTORY_EVIDENCE |->
     {s \in Settlements : findings[s].verdict = "CONTRADICTED" /\ Wholly(s)},
   DUPLICATE_LEDGER_IMPACT |-> {s \in Settlements : TwiceProven(s)},
   FAILED_INVARIANT |->
     {s \in Settlements : findings[s].verdict = "PROVEN" /\ ~Postable(findings[s])},
   POLICY_BLOCKED |-> {s \in Settlements : judgements[s] = "BLOCK"},
   HIGH_SEVERITY_EXCEPTION |->
     {s \in Settlements : exceptions[s].severity = "HIGH"},
   AMBIGUOUS_MATERIAL_SETTLEMENT |->
     {s \in Items : Ambiguous(s) /\ Value(s) > Allowed},
   UNRESOLVED_MATERIAL_AMOUNT |-> {s \in Items : Material}]

\* What a blocker says is exposed.
Stake(kind, s) ==
  CASE kind \in {"DUPLICATE_LEDGER_IMPACT", "FAILED_INVARIANT", "POLICY_BLOCKED"} -> 0
    [] kind = "AMBIGUOUS_MATERIAL_SETTLEMENT" -> Value(s)
    [] OTHER -> Magnitude(exceptions[s].unexplained)

Blockers ==
  (UNION {{Blocker(kind, {s}, Stake(kind, s)) : s \in Rule[kind]} : kind \in DOMAIN Rule})
  \cup {b \in {Blocker("UNRESOLVED_MATERIAL_AMOUNT", Settlements, Unjudged)} : Material}

\* The exceptions of the period; each is carried unless the period is blocked.
Raised == {s \in Settlements : exceptions[s] # NoException}

Mut_PeriodVerdict ==             \* only contradictions are carried
  LET blocked == Blockers # {}
  IN  [decision |-> IF blocked THEN "BLOCKED"
                    ELSE IF Unjudged > 0 \/ Raised # {}
                    THEN "READY_WITH_CARRY_FORWARD" ELSE "READY_TO_CLOSE",
       blockers |-> Blockers,
       unresolved |-> Unjudged,
       material |-> IF Material THEN Unjudged
                    ELSE Total([b \in Blockers |-> b.exposure], Blockers),
       carried |-> IF blocked THEN {}
                   ELSE {s \in Raised : findings[s].verdict # "AMBIGUOUS"}]

\* decide_period.
PeriodVerdict ==
  LET blocked == Blockers # {}
  IN  [decision |-> IF blocked THEN "BLOCKED"
                    ELSE IF Unjudged > 0 \/ Raised # {}
                    THEN "READY_WITH_CARRY_FORWARD" ELSE "READY_TO_CLOSE",
       blockers |-> Blockers,
       unresolved |-> Unjudged,
       material |-> IF Material THEN Unjudged
                    ELSE Total([b \in Blockers |-> b.exposure], Blockers),
       carried |-> IF blocked THEN {} ELSE Raised]

\* issue_certificate, with the exposure assessed under the judgements.
Certificate ==
  [decision |-> verdict.decision, material |-> verdict.material,
   carried |-> verdict.carried, reconciled |-> Verified(Withheld),
   unresolved |-> NetUnresolved(Withheld), period |-> ValueOf(Settlements)]

-----------------------------------------------------------------------------
(* The close, step by step *)

NoVerdict == [decision |-> "none", blockers |-> {}, unresolved |-> 0,
              material |-> 0, carried |-> {}]
NoCertificate == [decision |-> "none", material |-> 0, carried |-> {},
                  reconciled |-> 0, unresolved |-> 0, period |-> 0]

CloseInit ==
  /\ Init
  /\ exceptions = [s \in Settlements |-> NoException]
  /\ judgements = [s \in Settlements |-> "none"]
  /\ journal = [s \in Settlements |-> "unwritten"]
  /\ verdict = NoVerdict
  /\ certificate = NoCertificate
  /\ closing = "findings"

ClassifyAll ==
  /\ phase = "done" /\ closing = "findings"
  /\ exceptions' = [s \in Settlements |-> Classify(s)]
  /\ closing' = "classified"
  /\ UNCHANGED <<vars, judgements, journal, verdict, certificate>>

\* Each finding is priced by its stratum; what the strata hold was measured on
\* other portfolios and may be anything.
JudgeAll ==
  /\ closing = "classified"
  /\ \E price \in [Settlements -> Prices \cup {Unmeasured}] :
       judgements' = [s \in Settlements |-> Judge(s, price[s])]
  /\ closing' = "judged"
  /\ UNCHANGED <<vars, exceptions, journal, verdict, certificate>>

DecidePeriod ==
  /\ closing = "judged"
  /\ verdict' = PeriodVerdict
  /\ closing' = "decided"
  /\ UNCHANGED <<vars, exceptions, judgements, journal, certificate>>

IssueCertificate ==
  /\ closing = "decided"
  /\ certificate' = Certificate
  /\ closing' = "certified"
  /\ UNCHANGED <<vars, exceptions, judgements, journal, verdict>>

\* journal_view posts every finding in one loop; an entry that cannot be built
\* raises out of it and takes the others along.
WriteJournal ==
  /\ closing \in {"judged", "decided", "certified"}
  /\ \A s \in Settlements : journal[s] = "unwritten"
  /\ journal' = [s \in Settlements |->
       IF \E t \in Settlements : Outcome(t, judgements[t]) = "raised"
       THEN "lost" ELSE Outcome(s, judgements[s])]
  /\ UNCHANGED <<vars, exceptions, judgements, verdict, certificate, closing>>

Reconcile == Next /\ UNCHANGED closeVars

CloseNext == \/ Reconcile \/ ClassifyAll \/ JudgeAll \/ DecidePeriod
             \/ IssueCertificate \/ WriteJournal

CloseSpec == CloseInit /\ [][CloseNext]_allVars

-----------------------------------------------------------------------------
(* Properties *)

Decisions == {"READY_TO_CLOSE", "READY_WITH_CARRY_FORWARD", "BLOCKED"}

Closable == verdict.decision \in Decisions \ {"BLOCKED"}

\* The controller looks for orders that two proven settlements cite and for
\* proofs that may not post; no finding of the engine sets either guard off.
EngineTripsNoGuard ==
  \A b \in verdict.blockers :
    b.kind \notin {"DUPLICATE_LEDGER_IMPACT", "FAILED_INVARIANT"}

\* The settlements whose orders the engine has not handed out.
Unclaimed == {s \in Settlements : Claim(findings[s]) = {}}

\* "every carry-forward is explicitly represented" (readiness.py): a payout
\* without orders is named in the list the period carries forward.
CarryForwardIsExplicit == Closable => Unclaimed \subseteq verdict.carried

\* The exposure is assessed twice, for the verdict without the judgements and
\* for the certificate with them.  A period that may close has one figure, the
\* payouts without orders, within what materiality allows; and the journal books
\* no more than the certificate calls verified.
CertificateAgrees ==
  closing = "certified" =>
    /\ Closable => /\ certificate.unresolved = verdict.unresolved
                   /\ certificate.unresolved = ValueOf(Unclaimed)
                   /\ ValueOf(Unclaimed) <= Allowed
    /\ ValueOf({s \in Settlements : journal[s] = "entry"}) <= certificate.reconciled

\* "The entry this finding implies, or a stated reason there is none."
\* (ledger.py): writing the journal accounts for every finding.
EveryFindingIsAccountedFor == \A s \in Settlements : journal[s] # "lost"
=============================================================================
