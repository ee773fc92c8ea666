------------------------------ MODULE Readiness ------------------------------
(***************************************************************************)
(* The close controller on any books it may be handed: assess_exposure of  *)
(* attest/close/exposure.py and decide_period of attest/close/readiness.py.*)
(* PeriodClose has the books the engine writes, one finding and at most    *)
(* one exception to a settlement; the dashboard and the simulator hand it  *)
(* others.                                                                 *)
(*                                                                         *)
(* Books are a record b:                                                   *)
(*   period      ids of its settlements, listed in their order             *)
(*   net         id -> amount, for the ids of the settlement file          *)
(*   late        ids settled outside the dates of the period               *)
(*   findings    [at, sid, verdict, proofs, postable, lossy], at the place *)
(*               it is listed at; a proof is [orders, gross, net, off],    *)
(*               off what its arithmetic misses by beyond its tolerance    *)
(*   exceptions  [at, id, sid, reason, severity, amount, unexplained,      *)
(*               disputed, partial, established, missing], ids distinct    *)
(*   blocked     ids policy judged BLOCK                                   *)
(* Ids and places are numbers, so that they sort.                          *)
(***************************************************************************)
EXTENDS Amounts, Sequences

CONSTANTS ThresholdBps, Floor, Ceiling      \* MaterialityBound

ASSUME BoundAssumption ==
  ThresholdBps \in Nat /\ Floor \in Nat /\ Ceiling \in Nat /\ Floor <= Ceiling

NoFinding == [at |-> 0, sid |-> 0, verdict |-> "none", proofs |-> <<>>,
              postable |-> FALSE, lossy |-> FALSE]
NoException == [at |-> 0, id |-> 0, sid |-> 0, reason |-> "none", severity |-> "none",
                amount |-> 0, unexplained |-> 0, disputed |-> 0,
                partial |-> FALSE, established |-> 0, missing |-> FALSE]

Lesser(m, n) == IF m < n THEN m ELSE n

\* The one listed before the others.
First(S) == CHOOSE r \in S : \A q \in S : r.at <= q.at

\* What decide_period keeps of the books it is handed.
Scoped(b) ==
  [b EXCEPT !.findings = {f \in @ : f.sid \in b.period},
            !.exceptions = {e \in @ : e.sid \in b.period}]

FindingsOf(b, s) == {f \in b.findings : f.sid = s}
ExceptionsOf(b, s) == {e \in b.exceptions : e.sid = s}

-----------------------------------------------------------------------------
(* Exposure: attest/close/exposure.py *)

Mut_FindingOf(b, s) ==           \* the first finding hides the others
  LET all == FindingsOf(b, s) IN IF all = {} THEN NoFinding ELSE First(all)

\* One finding speaks for a settlement: the first unproven one, if any.
FindingOf(b, s) ==
  LET all == FindingsOf(b, s)
      unproven == {f \in all : f.verdict # "PROVEN"}
  IN  CASE all = {} -> NoFinding
        [] unproven # {} -> First(unproven)
        [] OTHER -> First(all)

\* So does one exception: the first of the largest.
ExceptionOf(b, s) ==
  LET all == ExceptionsOf(b, s)
      largest == {e \in all : \A d \in all : Magnitude(d.unexplained) <= Magnitude(e.unexplained)}
  IN  IF all = {} THEN NoException ELSE First(largest)

Value(b, s) ==
  LET f == FindingOf(b, s)
  IN  CASE s \in DOMAIN b.net -> Magnitude(b.net[s])
        [] s \notin DOMAIN b.net /\ f.proofs # <<>> -> Magnitude(f.proofs[1].net)
        [] OTHER -> Magnitude(ExceptionOf(b, s).amount)

Explained(f) == f.verdict = "PROVEN" /\ f.postable

Item(kind, exposure) == [kind |-> kind, exposure |-> exposure]

\* Case B, the claims of the rival proofs.
Contested(f, e, value) ==
  CASE e.disputed > 0 -> e.disputed
    [] e.disputed <= 0 /\ Len(f.proofs) > 1 ->
         Total([i \in DOMAIN f.proofs |-> f.proofs[i].gross], DOMAIN f.proofs)
    [] OTHER -> IF e.unexplained # 0 THEN Magnitude(e.unexplained) ELSE value

\* Case D, what a contradicted settlement is short of.
Lost(e, value, gap) ==
  IF e = NoException THEN Item("UNVERIFIED", value)
  ELSE Item(IF gap < value THEN "PARTIAL" ELSE "UNVERIFIED", gap)

\* Case F, no finding at all.
Unfound(e, value, gap) ==
  CASE e = NoException -> Item("UNVERIFIED", value)
    [] e # NoException /\ gap = value -> Item("UNVERIFIED", gap)
    [] OTHER -> Item("PARTIAL", gap)

\* The cases of assess_exposure, in the order it tries them; a settlement that
\* is verified (case A) is no item of the assessment.
Classified(f, e, value) ==
  CASE Explained(f) /\ e.unexplained = 0 -> Item("VERIFIED", 0)
    [] Explained(f) /\ e.unexplained > 0 -> Item("PARTIAL", Lesser(value, e.unexplained))
    [] f.verdict = "AMBIGUOUS" -> Item("AMBIGUOUS", Contested(f, e, value))
    [] f.verdict = "INSUFFICIENT" -> Item("INSUFFICIENT", value)
    [] f.verdict = "CONTRADICTED" -> Lost(e, value, Magnitude(e.unexplained))
    [] f.verdict = "PROVEN" /\ ~f.postable -> Item("AMBIGUOUS", 0)
    [] OTHER -> Unfound(e, value, Magnitude(e.unexplained))

ItemOf(b, s) == Classified(FindingOf(b, s), ExceptionOf(b, s), Value(b, s))

Vouched(f, e, item, value) ==
  IF Explained(f) /\ e.unexplained >= 0 THEN value - item.exposure ELSE 0

VerifiedPart(b, s) ==
  Vouched(FindingOf(b, s), ExceptionOf(b, s), ItemOf(b, s), Value(b, s))

Exposed(b, item, total) ==
  [item |-> item,
   items |-> {s \in b.period : item[s].kind # "VERIFIED"},
   total |-> total,
   net |-> total - Total([s \in b.period |-> VerifiedPart(b, s)], b.period),
   gross |-> Total([s \in b.period |-> item[s].exposure], b.period)]

\* assess_exposure, which returns a PeriodExposure.
AssessExposure(b) ==
  Exposed(b, [s \in b.period |-> ItemOf(b, s)],
          Total([s \in b.period |-> Value(b, s)], b.period))

-----------------------------------------------------------------------------
(* Readiness: attest/close/materiality.py and readiness.py *)

\* max_allowable_exposure_paise.
Allowable(total) ==
  LET scaled == (total * ThresholdBps) \div 10000
  IN  IF total <= 0 THEN Floor
      ELSE IF Lesser(scaled, Ceiling) < Floor THEN Floor ELSE Lesser(scaled, Ceiling)

Settlement(s) == <<"settlement", s>>
Exception(e) == <<"exception", e.id>>
SharedOrder(s, o) == <<"order", s, o>>
Period == <<"period">>

\* At: the rule that found it, by its place in decide_period, and the places of
\* the records it was found on.
Blocker(at, kind, ref, exposure) ==
  [at |-> at, kind |-> kind, ref |-> ref, exposure |-> exposure]

Earlier(p, q) ==
  \/ p[1] < q[1]
  \/ p[1] = q[1] /\ (p[2] < q[2] \/ (p[2] = q[2] /\ p[3] < q[3]))

Assignments(all) == {p.orders : p \in UNION {{f.proofs[i] : i \in DOMAIN f.proofs} : f \in all}}

Conflicting(b, s) ==
  LET all == FindingsOf(b, s)
  IN  \/ Cardinality({f.verdict : f \in all}) > 1
      \/ Cardinality(all) > 1 /\ Cardinality(Assignments(all)) > 1

Wholly(e) == e.unexplained = e.amount /\ e.amount > 0

\* The exceptions of a contradicted settlement that explain none of it.
Contradicted(b, f) ==
  {Blocker(<<3, f.at, e.at>>, "CONTRADICTORY_EVIDENCE", Exception(e), e.unexplained)
   : e \in {x \in ExceptionsOf(b, f.sid) : f.verdict = "CONTRADICTED" /\ Wholly(x)}}

Contradictions(b) == UNION {Contradicted(b, f) : f \in b.findings}

ProvenOf(b) == {f \in b.findings : f.verdict = "PROVEN"}

\* order -> the proven settlements that cite it.
Citing(b, o) ==
  {f.sid : f \in {g \in ProvenOf(b) : \E i \in DOMAIN g.proofs : o \in g.proofs[i].orders}}

DuplicateImpact(b) ==
  UNION {{Blocker(<<4, o, s>>, "DUPLICATE_LEDGER_IMPACT", SharedOrder(s, o), 0)
          : s \in Citing(b, o)}
         : o \in {p \in UNION Assignments(ProvenOf(b)) : Cardinality(Citing(b, p)) > 1}}

FailedBy(f) ==
  (IF f.verdict = "PROVEN" /\ ~f.postable
   THEN {Blocker(<<5, f.at, 0>>, "FAILED_INVARIANT", Settlement(f.sid), 0)} ELSE {})
  \cup {Blocker(<<5, f.at, i>>, "FAILED_INVARIANT", Settlement(f.sid), f.proofs[i].off)
         : i \in {j \in DOMAIN f.proofs : f.proofs[j].off > 0}}

FailedInvariants(b) == UNION {FailedBy(f) : f \in b.findings}

\* Settled outside the dates of the period.
Untimely(b) ==
  {Blocker(<<1, s, 0>>, "IMPOSSIBLE_STATE_TRANSITION", Settlement(s), Magnitude(b.net[s]))
   : s \in b.period \cap b.late \cap DOMAIN b.net}

Disagreements(b) ==
  {Blocker(<<2, First(FindingsOf(b, s)).at, 0>>, "CONTRADICTORY_EVIDENCE", Settlement(s), 0)
   : s \in {t \in b.period : Conflicting(b, t)}}

\* Their search left valid candidates out.
Compromised(b) ==
  {Blocker(<<6, f.at, 0>>, "COMPROMISED_INTEGRITY", Settlement(f.sid), 0)
   : f \in {g \in b.findings : g.lossy}}

Prohibited(b) ==
  {Blocker(<<7, s, 0>>, "POLICY_BLOCKED", Settlement(s), 0) : s \in b.period \cap b.blocked}

Serious(b) ==
  {Blocker(<<8, e.at, 0>>, "HIGH_SEVERITY_EXCEPTION", Exception(e), Magnitude(e.unexplained))
   : e \in {x \in b.exceptions : x.severity = "HIGH"}}

Unexamined(b) ==
  {Blocker(<<9, s, 0>>, "MISSING_SETTLEMENT", Settlement(s), 0)
   : s \in {t \in b.period : FindingsOf(b, t) = {} /\ ExceptionsOf(b, t) = {}}}

\* The rules that do not look at materiality: steps 2 to 9.
HardBlockers(b) ==
  Untimely(b) \cup Disagreements(b) \cup Contradictions(b)
  \cup DuplicateImpact(b) \cup FailedInvariants(b) \cup Compromised(b)
  \cup Prohibited(b) \cup Serious(b) \cup Unexamined(b)

\* The place of a settlement among the items, the largest exposure first.
Rank(x, s) ==
  Cardinality({t \in x.items : \/ x.item[t].exposure > x.item[s].exposure
                               \/ x.item[t].exposure = x.item[s].exposure /\ t < s})

\* Step 10: what depends on the exposure x and on materiality.
Contributors(b, x, s) ==
  IF ExceptionsOf(b, s) = {}
  THEN {Blocker(<<12, Rank(x, s), 0>>, "UNRESOLVED_MATERIAL_AMOUNT", Settlement(s),
                x.item[s].exposure)}
  ELSE {Blocker(<<12, Rank(x, s), e.at>>, "UNRESOLVED_MATERIAL_AMOUNT", Exception(e),
                Magnitude(e.unexplained)) : e \in ExceptionsOf(b, s)}

Mut_MaterialBlockers(b, x) ==    \* ambiguity is left to the total
  IF x.gross > Allowable(x.total)
  THEN {Blocker(<<11, 0, 0>>, "UNRESOLVED_MATERIAL_AMOUNT", Period, x.gross)} ELSE {}

MaterialBlockers(b, x) ==
  {Blocker(<<10, Rank(x, s), 0>>, "AMBIGUOUS_MATERIAL_SETTLEMENT", Settlement(s), Value(b, s))
   : s \in {t \in x.items : x.item[t].kind = "AMBIGUOUS" /\ Value(b, t) > Allowable(x.total)}}
  \cup (IF x.net > Allowable(x.total)
        THEN {Blocker(<<11, 0, 0>>, "UNRESOLVED_MATERIAL_AMOUNT", Period, x.net)}
             \cup UNION {Contributors(b, x, s) : s \in x.items}
        ELSE {})

\* Step 11: the first blocker of a kind on a record stands for the others.
Deduplicated(blockers) ==
  {k \in blockers : \A l \in blockers :
     l.kind = k.kind /\ l.ref = k.ref => ~Earlier(l.at, k.at)}

\* Step 12.
Decision(b, x, blockers) ==
  CASE blockers # {} -> "BLOCKED"
    [] blockers = {} /\ x.net <= 0 /\ b.exceptions = {} -> "READY_TO_CLOSE"
    [] OTHER -> "READY_WITH_CARRY_FORWARD"

Mut_Verdict(b, x, blockers, decision) ==  \* an exception over nothing is not carried
  [decision |-> decision, blockers |-> blockers, material |-> 0,
   carried |-> {e \in b.exceptions : e.unexplained > 0},
   net |-> x.net, gross |-> x.gross]

Verdict(b, x, blockers, decision) ==
  [decision |-> decision,
   blockers |-> blockers,
   material |-> CASE decision # "BLOCKED" -> 0
                  [] decision = "BLOCKED" /\ x.net > Allowable(x.total) -> x.net
                  [] OTHER -> Total([k \in blockers |-> k.exposure], blockers),
   carried |-> IF decision = "READY_WITH_CARRY_FORWARD" THEN b.exceptions ELSE {},
   net |-> x.net,
   gross |-> x.gross]

Judged(b, x, blockers) == Verdict(b, x, blockers, Decision(b, x, blockers))

Decided(b, x) == Judged(b, x, Deduplicated(HardBlockers(b) \cup MaterialBlockers(b, x)))

\* decide_period.
DecidePeriod(books) ==
  LET b == Scoped(books) IN Decided(b, AssessExposure(b))

Closeable(verdict) == verdict.decision # "BLOCKED"

\* verdict.blockers, the references without their kinds.
RefsOf(verdict) == {k.ref : k \in verdict.blockers}
=============================================================================
