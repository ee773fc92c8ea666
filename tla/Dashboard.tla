------------------------------ MODULE Dashboard ------------------------------
(***************************************************************************)
(* The controller dashboard, closepilot/dashboard.py: the state that       *)
(* create_demo_controller_state builds over the books of a period, and the *)
(* requests it answers from that state.  It composes the controller        *)
(* (Readiness), the simulator, the lineage graph, the investigator, the    *)
(* review queue and the desk at which the queue is worked off.             *)
(*                                                                         *)
(* Every request but a review action only reads; the review queue is the   *)
(* only part of the state a request writes, and no other request reads it. *)
(* A behaviour therefore asks either for analyses or for reviews.          *)
(***************************************************************************)
EXTENDS ReviewDesk, Simulator, Lineage, Investigator, ReviewQueue

CONSTANTS
  Books,         \* the books a period may have
  Staffed,       \* those of them whose queue is worked: Items are its exceptions
  Horizons       \* days a controller may ask to wait

ASSUME StaffedAssumption == \A b \in Staffed : b \in Books /\ Ids(b) = Items

Finding ==
  [at : Int, sid : Nat, verdict : {"PROVEN", "AMBIGUOUS", "INSUFFICIENT", "CONTRADICTED"},
   proofs : Seq([orders : SUBSET Int, gross : Int, net : Int, off : Nat]),
   postable : BOOLEAN, lossy : BOOLEAN]

\* An exception, at its place among them.
ExceptionType(e) ==
  e \in [at : Int, id : Nat \ {0}, sid : Nat, reason : STRING, severity : STRING,
         amount : Int, unexplained : Int, disputed : Int,
         partial : BOOLEAN, established : Nat, missing : BOOLEAN]

Fields == {"period", "net", "late", "findings", "exceptions", "blocked"}

\* Amounts of settlements are never negative (adapters/money.py).
Typed(b) ==
  /\ Fields \subseteq DOMAIN b
  /\ b.period \subseteq Nat /\ DOMAIN b.net \subseteq Nat /\ b.net \in [DOMAIN b.net -> Nat]
  /\ b.findings \subseteq Finding /\ \A e \in b.exceptions : ExceptionType(e)
  /\ IsFiniteSet(b.period) /\ IsFiniteSet(b.findings) /\ IsFiniteSet(b.exceptions)
  /\ \A A \in Assignments(b.findings) : IsFiniteSet(A)
  /\ \A d, e \in b.exceptions : d.id = e.id => d = e

\* Nothing stays unproven without an exception.
Accounted(b) == \A f \in b.findings : f.verdict # "PROVEN" => ExceptionsOf(b, f.sid) # {}

\* Books as they are read and written: what is found, and what is in doubt, is
\* of a settlement that is filed or in the period, and an exception that leaves
\* more open than its settlement is worth is of high severity (classify and
\* _severity of exceptions.py).
WellFormed(b) ==
  /\ Typed(b) /\ Accounted(b)
  /\ \A r \in b.findings \cup b.exceptions : r.sid \in b.period \cup DOMAIN b.net
  /\ \A e \in b.exceptions : Magnitude(e.unexplained) > Value(b, e.sid) => e.severity = "HIGH"

ASSUME BooksAssumption == \A b \in Books : WellFormed(b)

\* Orders are numbered from one, so that the order of a simulated proof is
\* nobody else's; a settlement that is proven is not both short and over; and
\* one that is not filed, whose worth is read off what was found for it, has one
\* finding and one exception at most (classify of exceptions.py).
Plain(b) ==
  /\ \A A \in Assignments(b.findings) : A \subseteq Nat \ {0}
  /\ \A s \in b.period :
       /\ \A d, e \in ExceptionsOf(b, s) :
            d.unexplained < 0 /\ e.unexplained > 0 => ~Explained(FindingOf(b, s))
       /\ \/ s \in DOMAIN b.net
          \/ /\ \A f, g \in FindingsOf(b, s) : f = g
             /\ \A d, e \in ExceptionsOf(b, s) : d = e
             /\ \A f \in FindingsOf(b, s) : Explained(f) => f.proofs # <<>>

ASSUME PlainAssumption == Horizons \subseteq Nat /\ \A b \in Books : Plain(b)

VARIABLES
  book,          \* period, findings, exceptions, judgements, settlements, ...
  verdict,       \* state["verdict"]
  load,          \* what this behaviour asks for: "analysis" or "review"
  answer         \* the answer to the request in hand

analysis == <<book, verdict, load, answer>>
dashVars == <<vars, analysis>>

NoVerdict == [decision |-> "none"]
NoAnswer == [kind |-> "none"]

\* The desk works the queue of these books; a request for an analysis finds the
\* desk at rest.
Loads(b) ==
  {l \in {"analysis"} : ~overlap} \cup {l \in {"review"} : b \in Staffed}

DashInit ==
  /\ Init
  /\ book \in Books
  /\ load \in Loads(book)
  /\ verdict = NoVerdict
  /\ answer = NoAnswer

\* create_demo_controller_state.  Exposure, lineage and tools are functions of
\* the books and the verdict, and nothing changes them afterwards.
CreateState ==
  /\ verdict = NoVerdict
  /\ verdict' = DecidePeriod(book)
  /\ UNCHANGED <<vars, book, load, answer>>

Asked == verdict # NoVerdict /\ load = "analysis" /\ answer = NoAnswer

Respond(content) ==
  /\ answer' = content
  /\ UNCHANGED <<vars, book, verdict, load>>

ClearedKinds ==
  {{"POLICY_BLOCKED"}, {"MISSING_SETTLEMENT"}, {"CONTRADICTORY_EVIDENCE"}}

Scenarios ==
  {CloseNow, CarryForward} \cup {Resolve(ids) : ids \in SUBSET Ids(book)}
  \cup {Clear(refs, {}) : refs \in {{r} : r \in RefsOf(verdict)} \cup {RefsOf(verdict)}}
  \cup {Clear({}, kinds) : kinds \in ClearedKinds}
  \cup {WaitFor(days) : days \in Horizons}
  \cup {Scenario("CUSTOM_COMPOSITE", Ids(book), RefsOf(verdict), UNION ClearedKinds, 0)}

\* _handle_simulate, and simulate_scenario for the scenarios it does not offer.
Simulate ==
  /\ Asked
  /\ \E sc \in Scenarios : Respond([kind |-> "simulation", outcomes |-> {Outcome(book, sc)}])

\* run_standard_suite, which recommends one of its outcomes.
CompareScenarios ==
  /\ Asked
  /\ \E days \in Horizons :
       LET suite == Suite(book, days)
       IN  Respond([kind |-> "simulation", outcomes |-> {Recommended(book, suite)} \cup suite])

Graph == BuildLineage(book, verdict)

Targets ==
  {Settlement(s) : s \in book.period} \cup {<<"exception", id>> : id \in Ids(book)}
  \cup {<<"exception", 0>>}

\* _handle_investigate; the notes a controller adds may read like a directive.
HandleInvestigate ==
  /\ Asked
  /\ \E target \in Targets, suspicious \in BOOLEAN :
       Respond([kind |-> "report", target |-> target,
                report |-> Investigate(book, target, suspicious)])

\* _handle_evidence.  It looks the id up as it was asked for; a node is named
\* by its kind and the id, so no node has that name.
Bare(target) == <<"bare", target[2]>>

HandleEvidence ==
  /\ Asked
  /\ \E target \in Targets :
       Respond([kind |-> "evidence", target |-> target,
                trace |-> TraceBackward(Graph, Bare(target)),
                report |-> Investigate(book, target, FALSE)])

\* unique_blocked_settlements: the settlement a reference or its metadata
\* names; an exception of high severity is listed without one.
BlockedSettlements ==
  {k.ref[2] : k \in {x \in verdict.blockers : x.ref[1] \in {"settlement", "order"}}}
  \cup {e.sid : e \in {x \in Scoped(book).exceptions : \E k \in verdict.blockers :
                         k.kind = "UNRESOLVED_MATERIAL_AMOUNT" /\ k.ref = Exception(x)}}

BlockedExceptions == {r \in RefsOf(verdict) : r[1] = "exception"}

\* The threshold is taken of the settlement file, and in the verdict of the period.
Filing == Total(book.net, DOMAIN book.net)

HandleReadiness ==
  /\ Asked
  /\ Respond([kind |-> "readiness", net |-> verdict.net,
              canClose |-> verdict.decision = "READY_TO_CLOSE",
              threshold |-> Allowable(Filing),
              settlements |-> BlockedSettlements, exceptions |-> BlockedExceptions])

HandleWhyBlocked ==
  /\ Asked
  /\ LET kinds == {k.kind : k \in verdict.blockers}
     IN  Respond([kind |-> "why-blocked", blocked |-> verdict.decision = "BLOCKED",
                  integrity |-> "COMPROMISED_INTEGRITY" \notin kinds,
                  arithmetic |-> "FAILED_INVARIANT" \notin kinds])

HandleMateriality ==
  /\ Asked
  /\ Respond([kind |-> "materiality", exceeds |-> verdict.net > Allowable(Filing),
              material |-> {e.id : e \in {x \in book.exceptions :
                                            x.unexplained > Allowable(Filing)}}])

Answered ==
  /\ answer # NoAnswer
  /\ answer' = NoAnswer
  /\ UNCHANGED <<vars, book, verdict, load>>

Review == verdict # NoVerdict /\ load = "review" /\ Next /\ UNCHANGED analysis

DashNext ==
  \/ CreateState \/ Simulate \/ CompareScenarios \/ HandleInvestigate \/ HandleEvidence
  \/ HandleReadiness \/ HandleWhyBlocked \/ HandleMateriality \/ Answered \/ Review

DashSpec == DashInit /\ [][DashNext]_dashVars

-----------------------------------------------------------------------------
(* Properties *)

Ready == verdict # NoVerdict
Idle == Ready /\ load = "analysis" /\ answer = NoAnswer
Simulated == answer.kind = "simulation"

\* The records a blocker is on, without its stake.
Marks(v) == {[kind |-> k.kind, ref |-> k.ref] : k \in v.blockers}

\* Nor does resolving one more exception, or waiting longer, undo what
\* resolving fewer achieved.
ResolvingMoreNeverHurts ==
  LET after(ids) == DecidePeriod(Project(book, Resolve(ids)))
      noWorse(v, w) == Marks(v) \subseteq Marks(w) /\ v.net <= w.net
  IN  Idle =>
        /\ \A ids \in SUBSET Ids(book), id \in Ids(book) :
             noWorse(after(ids \cup {id}), after(ids))
        /\ \A m \in Horizons, n \in Horizons :
             m <= n => noWorse(after(Awaited(book, n)), after(Awaited(book, m)))

\* The settlements a scenario has acted on.
Touched(o) ==
  {e.sid : e \in {x \in book.exceptions : x.id \in o.resolved}}
  \cup {s \in book.period : Settlement(s) \in o.refs}
  \cup {s \in book.period : "CONTRADICTORY_EVIDENCE" \in o.kinds
                                  /\ Cardinality(FindingsOf(book, s)) > 1}

OrderSharers(ref) == IF ref[1] = "order" THEN Citing(Scoped(book), ref[3]) ELSE {}

\* A hard blocker falls only to what the scenario did: its kind was cleared, or
\* the record it is on was, or the exceptions there were resolved.
Concerns(o, mark) ==
  \/ mark.kind \in o.kinds
  \/ mark.ref[1] = "settlement" /\ mark.ref[2] \in Touched(o)
  \/ mark.ref[1] = "exception" /\ mark.ref[2] \in o.resolved
  \/ mark.ref[1] = "order" /\ OrderSharers(mark.ref) \cap Touched(o) # {}

MaterialityMarks == {m \in Marks(verdict) : m.kind \in MaterialKinds}

\* "Materiality may NEVER override a hard safety blocker" (readiness.py), nor
\* does a simulation: what the scenario did not act on blocks in its outcome.
UntouchedBlockersStay ==
  Simulated => \A o \in answer.outcomes :
    \A mark \in Marks(verdict) \ MaterialityMarks :
      ~Concerns(o, mark) => mark \in Marks(o.verdict)

\* Whether every settlement that is not verified in full is named by an
\* exception the verdict carries.
Names(b, v) ==
  \A s \in b.period :
    VerifiedPart(Scoped(b), s) < Value(Scoped(b), s) => \E e \in v.carried : e.sid = s

\* "Every carry-forward explicitly listed" (readiness.py), of the period as it
\* is and of whatever a simulation says it could be.
NothingUnverifiedIsUnnamed ==
  /\ (Idle /\ Closeable(verdict)) => Names(book, verdict)
  /\ Simulated => \A o \in answer.outcomes :
       LET sc == Scenario("CUSTOM_COMPOSITE", o.resolved, o.refs, o.kinds, 0)
       IN  Closeable(o.verdict) => Names(Project(book, sc), o.verdict)

Backwards(b) ==
  [b EXCEPT !.findings = {[f EXCEPT !.at = -@] : f \in @},
            !.exceptions = {[e EXCEPT !.at = -@] : e \in @}]

\* Where a settlement is proven more than once, all of its proofs may post or none.
Alike(b) == \A f, g \in ProvenOf(b) : f.sid = g.sid => f.postable = g.postable

HardMarks(v) == {m \in Marks(v) : m.kind \notin MaterialKinds}

\* The verdict is one of the evidence and not of the order it is listed in: the
\* decision, the rules broken and by what, and what is carried forward.  So is
\* the net exposure, but where a settlement is proven both to post and not to:
\* the first of these findings speaks for it (exposure.py), and the period is
\* blocked whichever it is.
DecisionIgnoresOrder ==
  Idle => LET other == DecidePeriod(Backwards(book))
          IN  /\ other.decision = verdict.decision
              /\ HardMarks(other) = HardMarks(verdict)
              /\ {e.id : e \in other.carried} = {e.id : e \in verdict.carried}
              /\ Alike(book) => other.net = verdict.net

Ages == {0, 60}
Extremes == {1000, 99000}

\* Whatever their ages and their chances, an exception that blocks the period
\* is shown before every exception of the period that does not.
BlockersRankFirst ==
  Idle => LET x == AssessExposure(Scoped(book))
              within == Scoped(book).exceptions
          IN  \A e \in {y \in within : IsHard(verdict, y)},
                 f \in {y \in within : ~IsHard(verdict, y)}, doubt \in Extremes :
                PriorityScore(verdict, x.total, e, 0, 1000)
                  > PriorityScore(verdict, x.total, f, 60, doubt)

RecordsOf(b, s) ==
  {Settlement(s)} \cup {FindingNode(f.sid) : f \in FindingsOf(b, s)}
  \cup {Order(o) : o \in UNION Assignments(FindingsOf(b, s))}

\* The settlements a blocker is about, by what it refers to; for one about an
\* order that two proofs share there is no way back, see BlockersAreTraced.
Concerned(mark) ==
  CASE mark.ref[1] = "settlement" -> {mark.ref[2]}
    [] mark.ref[1] = "exception" ->
         {e.sid : e \in {y \in book.exceptions : y.id = mark.ref[2]}}
    [] mark.ref = Period -> {s \in book.period : Exposure(s) \in Graph.nodes}
    [] OTHER -> {}

\* From a blocker back, the graph leads to the settlements it is about, to what
\* the engine found for them and to the orders it cites, and nothing dangles.
\* The one exemption is a blocker about an order two proofs share: build_lineage
\* knows the references of exceptions and settlements and materiality, and such
\* a blocker is left without a cause (EveryBlockerHasACause); every other one is
\* about a settlement of the period, so that its trace comes to the money.
\* Every blocker and every item carried is a root cause of the verdict, and an
\* order has an impact on the settlements whose proofs cite it, and on the
\* verdict through them, and on no other.
BlockersAreTraced ==
  Idle => LET graph == Graph
              causes == RootCauses(graph)
          IN  /\ Defects(graph) = {} /\ Orphans(book, graph) = {}
              /\ causes.blockers = {BlockerNode(k) : k \in verdict.blockers}
              /\ causes.carried = {Carried(e) : e \in verdict.carried}
              /\ causes.settlements = {Settlement(s) : s \in book.period}
              /\ \A o \in book.orders :
                   LET impact == OrderImpact(graph, o)
                       citing == {f \in Scoped(book).findings :
                                    o \in UNION Assignments({f})}
                   IN  /\ impact.settlements = {Settlement(f.sid) : f \in citing}
                       /\ impact.reached <=> citing # {}
              /\ \A k \in verdict.blockers :
                   /\ \A s \in Concerned(k) \cap book.period :
                        RecordsOf(book, s) \subseteq TraceBackward(graph, BlockerNode(k))
                   /\ \/ k.kind = "DUPLICATE_LEDGER_IMPACT"
                      \/ Concerned(k) \cap book.period # {}

\* "Trace blocker back to underlying cause" (lineage.py:1006): whatever a blocker
\* is about, its trace comes to a settlement.  No run asks for it: of a blocker
\* about an order that is proven twice the trace is the blocker itself.
EveryBlockerHasACause ==
  Idle => LET graph == Graph
          IN  \A k \in verdict.blockers :
                Kind("settlement", TraceBackward(graph, BlockerNode(k))) # {}

Reported == answer.kind \in {"report", "evidence"}

Naming(s) == UNION {book.names[e.id] : e \in ExceptionsOf(book, s)}

\* A report cites what the tools returned, and of the settlement it is about
\* only: its exceptions, its bank lines, the orders its exceptions name; and it
\* is never completed over a line that reads like a directive.
ReportsAreGrounded ==
  Reported =>
    LET report == answer.report
        subject == Subject(book, answer.target)
    IN  /\ report.cited \subseteq Retrieved(book, answer.target)
        /\ \A ref \in report.cited :
             CASE ref[1] = "exception" ->
                    \E e \in book.exceptions :
                      Exception(e) = ref /\ Settlement(e.sid) = subject
               [] ref[1] = "order" -> ref[2] \in Naming(subject[2])
               [] ref[1] = "bank" ->
                    \E c \in book.credits : CreditRef(c) = ref /\ Settlement(c.utr) = subject
               [] OTHER -> ref = subject
        /\ report.status = "COMPLETED" => Lines(book, answer.target) \cap book.tainted = {}

\* The screens agree with one another and with the books, where the settlement
\* file is that of the period: the threshold is exceeded exactly when the verdict
\* has its blocker; a period that can close leaves nothing open; one that is
\* blocked shows on what; what is carried is within the threshold shown; a passed
\* check means that every finding of the period passes it; a period with an
\* exception that is material alone is blocked.
ScreensAgree ==
  DOMAIN book.net = book.period =>
    CASE answer.kind = "readiness" ->
           /\ answer.canClose => answer.net = 0 /\ book.exceptions = {}
           /\ verdict.decision = "BLOCKED"
                <=> answer.settlements # {} \/ answer.exceptions # {}
           /\ verdict.decision = "READY_WITH_CARRY_FORWARD" => answer.net <= answer.threshold
      [] answer.kind = "why-blocked" ->
           LET findings == Scoped(book).findings
           IN  /\ answer.integrity => \A f \in findings : ~f.lossy
               /\ answer.arithmetic => \A f \in findings :
                    /\ f.verdict = "PROVEN" => f.postable
                    /\ \A i \in DOMAIN f.proofs : f.proofs[i].off = 0
      [] answer.kind = "materiality" ->
           /\ answer.exceeds <=> Period \in RefsOf(verdict)
           /\ answer.exceeds \/ answer.material # {} => verdict.decision = "BLOCKED"
      [] OTHER -> TRUE
=============================================================================
