------------------------------ MODULE Simulator ------------------------------
(***************************************************************************)
(* closepilot/simulator.py: what the close would be if some exceptions     *)
(* were resolved, some blockers cleared, or some days let pass.  A         *)
(* scenario is projected on a copy of the books, and the controller of     *)
(* Readiness decides on the copy.                                          *)
(*                                                                         *)
(* A scenario is [type, resolved, refs, kinds, days]: exception ids to     *)
(* resolve, blocker references and blocker kinds to clear, days to wait.   *)
(***************************************************************************)
EXTENDS Readiness, Predictor

Scenario(type, resolved, refs, kinds, days) ==
  [type |-> type, resolved |-> resolved, refs |-> refs, kinds |-> kinds, days |-> days]

CloseNow == Scenario("CLOSE_NOW", {}, {}, {}, 0)
Resolve(ids) == Scenario("RESOLVE_EXCEPTIONS", ids, {}, {}, 0)
\* Its flag is read by nobody: the projection is the books as they are.
CarryForward == Scenario("CARRY_FORWARD_IMMATERIAL", {}, {}, {}, 0)
Clear(refs, kinds) == Scenario("CLEAR_BLOCKER", {}, refs, kinds, 0)
WaitFor(days) == Scenario("WAIT_PREDICTED_RESOLUTIONS", {}, {}, {}, days)

Ids(b) == {e.id : e \in b.exceptions}

\* The place after which a finding is appended.
Latest(b) ==
  LET places == {f.at : f \in b.findings} \cup {0}
  IN  CHOOSE n \in places : \A m \in places : m <= n

\* _make_hypothetical_proven_finding, for an order of its own.
SimulatedOrder(s) == -s

Hypothetical(b, s, net) ==
  [at |-> Latest(b) + s, sid |-> s, verdict |-> "PROVEN", postable |-> TRUE, lossy |-> FALSE,
   proofs |-> <<[orders |-> {SimulatedOrder(s)}, gross |-> net, net |-> net, off |-> 0]>>]

Hypotheticals(b, S, worth) == {Hypothetical(b, s, worth[s]) : s \in S}

Filed(b, s) == s \in DOMAIN b.net /\ b.net[s] # 0

\* The exceptions a wait is expected to clear: seven chances in ten, in time.
Awaited(b, days) ==
  {e.id : e \in {x \in b.exceptions :
     PredictAsFiled(x).logit >= P70 /\ PredictAsFiled(x).days <= days}}

ToResolve(b, sc) ==
  sc.resolved \cup (IF sc.type = "WAIT_PREDICTED_RESOLUTIONS" THEN Awaited(b, sc.days) ELSE {})

Left(b, ids) == {e \in b.exceptions : e.id \notin ids}

\* The settlements that had exceptions and have none left.
Freed(b, ids) ==
  {e.sid : e \in b.exceptions \ Left(b, ids)} \ {e.sid : e \in Left(b, ids)}

\* Those of them that are then taken to be proven: not all of their findings
\* are already.
Replaced(b, ids) ==
  {s \in Freed(b, ids) : FindingsOf(b, s) = {} \/ \E f \in FindingsOf(b, s) : ~Explained(f)}

ResolvedWorth(b, s) ==
  LET all == FindingsOf(b, s)
  IN  CASE Filed(b, s) -> Magnitude(b.net[s])
        [] ~Filed(b, s) /\ all # {} /\ First(all).proofs # <<>> -> First(all).proofs[1].net
        [] OTHER -> Magnitude(First(ExceptionsOf(b, s)).amount)

Mut_AfterResolving(b, ids) ==     \* what was found before is kept
  [b EXCEPT !.exceptions = Left(b, ids),
            !.findings = @ \cup Hypotheticals(b, Replaced(b, ids),
              [s \in Replaced(b, ids) |-> ResolvedWorth(b, s)])]

\* Step 3.
AfterResolving(b, ids) ==
  [b EXCEPT !.exceptions = Left(b, ids),
            !.findings = {f \in @ : f.sid \notin Replaced(b, ids)}
              \cup Hypotheticals(b, Replaced(b, ids),
                     [s \in Replaced(b, ids) |-> ResolvedWorth(b, s)])]

Mut_Unblocked(b, refs, kinds) == \* clearing anything waives the policy
  IF refs = {} /\ kinds = {} THEN b ELSE [b EXCEPT !.blocked = {}]

\* Step 4.  Policy lets the cleared ones through; a settlement nobody looked at
\* is taken to be proven; so is one with findings that conflict.
Unblocked(b, refs, kinds) ==
  [b EXCEPT !.blocked = {s \in @ : Settlement(s) \notin refs /\ "POLICY_BLOCKED" \notin kinds}]

Absent(b, refs, kinds) ==
  {s \in b.period : FindingsOf(b, s) = {}
                       /\ (Settlement(s) \in refs \/ "MISSING_SETTLEMENT" \in kinds)}

Supplied(b, refs, kinds) ==
  LET worth == [s \in Absent(b, refs, kinds) |->
        IF s \in DOMAIN b.net THEN Magnitude(b.net[s]) ELSE 1000]
  IN  [b EXCEPT !.findings = @ \cup Hypotheticals(b, Absent(b, refs, kinds), worth)]

\* The settlements with more than one finding.
Plural(b) == {f.sid : f \in {g \in b.findings : Cardinality(FindingsOf(b, g.sid)) > 1}}

Harmonised(b, kinds) ==
  LET worth == [s \in Plural(b) |->
        LET proofs == First(FindingsOf(b, s)).proofs
        IN  CASE s \in DOMAIN b.net -> Magnitude(b.net[s])
              [] s \notin DOMAIN b.net /\ proofs # <<>> -> proofs[1].net
              [] OTHER -> 1000]
  IN  IF "CONTRADICTORY_EVIDENCE" \notin kinds THEN b
      ELSE [b EXCEPT !.findings = {f \in @ : f.sid \notin Plural(b)}
                                    \cup Hypotheticals(b, Plural(b), worth)]

AfterClearing(b, refs, kinds) ==
  Harmonised(Supplied(Unblocked(b, refs, kinds), refs, kinds), kinds)

Project(b, sc) == AfterClearing(AfterResolving(b, ToResolve(b, sc)), sc.refs, sc.kinds)

\* _evaluate_scenario_internal.
Outcome(b, sc) ==
  [type |-> sc.type, resolved |-> ToResolve(b, sc), refs |-> sc.refs,
   kinds |-> sc.kinds, verdict |-> DecidePeriod(Project(b, sc))]

\* run_standard_suite, when it is asked for nothing in particular.  Without a
\* blocker it tries the first two exceptions.
Suspects(b, verdict) ==
  IF verdict.blockers # {}
  THEN {id \in Ids(b) : <<"exception", id>> \in RefsOf(verdict)}
  ELSE {e.id : e \in {x \in b.exceptions : Cardinality({d \in b.exceptions : d.at < x.at}) < 2}}

Foremost(blockers) == CHOOSE k \in blockers : \A l \in blockers : ~Earlier(l.at, k.at)

\* A set: no two of its outcomes are of one type.
Proposals(b, verdict, days) ==
  {CarryForward, WaitFor(days)}
  \cup (IF Suspects(b, verdict) = {} THEN {} ELSE {Resolve(Suspects(b, verdict))})
  \cup (IF verdict.blockers = {} THEN {} ELSE {Clear({Foremost(verdict.blockers).ref}, {})})

Suite(b, days) == {Outcome(b, sc) : sc \in Proposals(b, DecidePeriod(b), days)}

Intrusion(outcome) ==
  CASE outcome.type = "WAIT_PREDICTED_RESOLUTIONS" -> 1
    [] outcome.type = "CARRY_FORWARD_IMMATERIAL" -> 2
    [] outcome.type = "RESOLVE_EXCEPTIONS" -> 3
    [] OTHER -> 4

\* The order in which the suite lists its outcomes.
Listed(outcome) ==
  CASE outcome.type = "RESOLVE_EXCEPTIONS" -> 1
    [] outcome.type = "CARRY_FORWARD_IMMATERIAL" -> 2
    [] outcome.type = "CLEAR_BLOCKER" -> 3
    [] OTHER -> 4

Before(o, p) ==                  \* score, of two outcomes that close
  \/ Intrusion(o) < Intrusion(p)
  \/ /\ Intrusion(o) = Intrusion(p)
     /\ \/ Cardinality(o.resolved) < Cardinality(p.resolved)
        \/ Cardinality(o.resolved) = Cardinality(p.resolved) /\ o.verdict.net < p.verdict.net

Nearer(o, p) ==                  \* of two that do not
  \/ o.verdict.material < p.verdict.material
  \/ /\ o.verdict.material = p.verdict.material
     /\ \/ o.verdict.net < p.verdict.net
        \/ o.verdict.net = p.verdict.net /\ Listed(o) < Listed(p)

Closing(suite) == {o \in suite : Closeable(o.verdict)}

\* recommended_scenario.
Recommended(b, suite) ==
  CASE Closeable(DecidePeriod(b)) -> Outcome(b, CloseNow)
    [] ~Closeable(DecidePeriod(b)) /\ Closing(suite) # {} ->
         CHOOSE o \in Closing(suite) : \A p \in Closing(suite) : ~Before(p, o)
    [] OTHER -> CHOOSE o \in suite : \A p \in suite : ~Nearer(p, o)
=============================================================================
