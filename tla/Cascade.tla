------------------------------- MODULE Cascade -------------------------------
(***************************************************************************)
(* The reconciliation engine: attest/pipeline.py `run` over the PoolIndex  *)
(* of attest/blocking.py.  One settlement at a time, easiest first; each   *)
(* is tried on a ladder of widening capture windows; a postable finding    *)
(* consumes its orders for everyone after it.                              *)
(***************************************************************************)
EXTENDS SubsetSum, SettlementCalendar, Sequences

CONSTANTS
  Settlements,   \* settlement ids
  Nets,          \* the net amounts an order may carry
  Credits,       \* the amounts a settlement may pay out
  CaptureDays,   \* days an order may be captured on
  SettleDays     \* days a payout may land on

ASSUME CascadeAssumption ==
  /\ IsFiniteSet(Settlements) /\ "nobody" \notin Settlements
  /\ Nets \subseteq Int /\ Credits \subseteq Int
  /\ CaptureDays \subseteq Int /\ SettleDays \subseteq Int

VARIABLES
  net, capturedOn,       \* the order file
  credit, settledOn,     \* the settlement file
  work,                  \* order_of_work
  turn,                  \* place in work of the settlement being decided
  rung,                  \* place on the ladder, 0 = tightest
  spent,                 \* PoolIndex._spent
  findings,              \* settlement -> finding
  phase                  \* "cascade", then "cores", then "done"

book == <<net, capturedOn, credit, settledOn, work>>
vars == <<net, capturedOn, credit, settledOn, work,
          turn, rung, spent, findings, phase>>

-----------------------------------------------------------------------------
(* Findings *)

\* LAG_LADDER: business-day lags, tightest first.
LagLadder == <<2, 3, 4>>
LastRung == Len(LagLadder) - 1

Verdicts == {"PROVEN", "AMBIGUOUS", "CONTRADICTED", "INSUFFICIENT"}
Layers == {"L2-single", "L3-skipped", "L3-dp", "L3-dp/exhausted"}

\* The candidate universe a finding was decided over (SearchSpace): who was
\* in it, and how many orders each reduction removed.
SearchSpaces ==
  [members : SUBSET Orders, window : Int, claimed : Int, ceiling : Int]

EmptySpace == [members |-> {}, window |-> 0, claimed |-> 0, ceiling |-> 0]

\* A proof is the set of orders it cites: its figures follow from the book.
FindingType ==
  [verdict : Verdicts \cup {"UNDECIDED"}, proofs : SUBSET SUBSET Orders,
   exhaustive : BOOLEAN, layer : Layers \cup {""}, rung : 0 .. LastRung,
   space : SearchSpaces, core : BOOLEAN]

Undecided ==
  [verdict |-> "UNDECIDED", proofs |-> {}, exhaustive |-> FALSE,
   layer |-> "", rung |-> 0, space |-> EmptySpace, core |-> FALSE]

\* Finding.postable.  A PROVEN finding carries one proof.
Postable(f) ==
  /\ f.verdict = "PROVEN"
  /\ Orders # {}
  /\ f.layer # ""
  /\ f.proofs # {} /\ f.space.members # {}
  /\ \A p \in f.proofs : p \subseteq f.space.members

\* The orders a postable finding takes: those of its one proof.
Claim(f) == IF Postable(f) THEN UNION f.proofs ELSE {}

-----------------------------------------------------------------------------
(* Pools *)

\* Orders captured on a date that some lag up to rung r maps to the payout.
Window(s, r) ==
  {o \in Orders :
     \E i \in 1 .. (r + 1) :
       IsCaptureDate(capturedOn[o], settledOn[s], LagLadder[i])}

Mut_Pool(s, r) == Affordable(net, Window(s, r), credit[s])

\* PoolIndex.pool: in the window, not spent, and affordable.
Pool(s, r) == Affordable(net, Window(s, r) \ spent, credit[s])

\* The account audited_pool keeps of what was excluded.
SpaceOf(s, r) ==
  LET inWindow == Window(s, r)
      unspent == inWindow \ spent
  IN  [members |-> Pool(s, r),
       window  |-> Cardinality(Orders) - Cardinality(inWindow),
       claimed |-> Cardinality(inWindow) - Cardinality(unspent),
       ceiling |-> Cardinality(unspent) - Cardinality(Pool(s, r))]

\* order_of_work: every settlement once, by size of its tightest pool; the
\* sort is stable and the input list may be in any order.
WorkOrders ==
  {q \in [1 .. Cardinality(Settlements) -> Settlements] :
     \A i, j \in DOMAIN q :
       i < j => /\ q[i] # q[j]
                /\ Cardinality(Pool(q[i], 0)) <= Cardinality(Pool(q[j], 0))}

Init ==
  /\ net \in [Orders -> Nets]
  /\ capturedOn \in [Orders -> CaptureDays]
  /\ credit \in [Settlements -> Credits]
  /\ settledOn \in [Settlements -> SettleDays]
  /\ spent = {}
  /\ work \in WorkOrders
  /\ turn = 1
  /\ rung = 0
  /\ findings = [s \in Settlements |-> Undecided]
  /\ phase = "cascade"

-----------------------------------------------------------------------------
(* Deciding the settlement whose turn it is *)

Deciding == phase = "cascade" /\ turn \in DOMAIN work

Current == work[turn]

\* match_single_order: declines unless exactly one order fits on its own.
Singles(s, r) == {o \in Pool(s, r) : Fits(net, {o}, credit[s])}

SingleMatch(s, r) ==
  \E o \in Orders : Singles(s, r) = {o} /\ KernelAccepts(net, {o}, credit[s])

\* The proofs the pipeline keeps of what solve() found.
Proofs(s, r) ==
  {S \in Found(net, Pool(s, r), credit[s]) : KernelAccepts(net, S, credit[s])}

Finding(s, r, verdict, proofs, exhaustive, layer) ==
  [verdict |-> verdict, proofs |-> proofs, exhaustive |-> exhaustive,
   layer |-> layer, rung |-> r, space |-> SpaceOf(s, r), core |-> FALSE]

Mut_ConcludeSpending(f) ==       \* whatever was found is consumed
  /\ findings' = [findings EXCEPT ![Current] = f]
  /\ spent' = spent \cup UNION f.proofs
  /\ turn' = turn + 1
  /\ rung' = 0
  /\ UNCHANGED <<book, phase>>

\* Append the finding, consume its orders if it may post, and move on.
Conclude(f) ==
  /\ findings' = [findings EXCEPT ![Current] = f]
  /\ spent' = spent \cup Claim(f)
  /\ turn' = turn + 1
  /\ rung' = 0
  /\ UNCHANGED <<book, phase>>

\* Layer 2: one order explains the credit by itself.
MatchSingle ==
  /\ Deciding
  /\ SingleMatch(Current, rung)
  /\ Conclude(Finding(Current, rung, "PROVEN",
                      {Singles(Current, rung)}, TRUE, "L2-single"))

\* OutOfEnvelope: the instance is larger than the solver will decide.
Skip ==
  /\ Deciding
  /\ ~SingleMatch(Current, rung)
  /\ ~InEnvelope(Pool(Current, rung), credit[Current])
  /\ Conclude(Finding(Current, rung, "INSUFFICIENT", {}, FALSE, "L3-skipped"))

Searched ==
  /\ Deciding
  /\ ~SingleMatch(Current, rung)
  /\ InEnvelope(Pool(Current, rung), credit[Current])

\* Layer 3: one explanation is PROVEN, several are AMBIGUOUS.
Decide ==
  /\ Searched
  /\ LET proofs == Proofs(Current, rung)
     IN  /\ proofs # {}
         /\ Conclude(Finding(Current, rung,
              IF \E p \in proofs : proofs = {p} THEN "PROVEN" ELSE "AMBIGUOUS",
              proofs, Exhaustive(net, Pool(Current, rung), credit[Current]),
              "L3-dp"))

Mut_Widen ==                     \* the ladder is climbed past its end
  /\ Searched
  /\ Proofs(Current, rung) = {}
  /\ rung' = rung + 1
  /\ UNCHANGED <<book, turn, spent, findings, phase>>

\* Contradicted here: widen the window and try again.
Widen ==
  /\ Searched
  /\ Proofs(Current, rung) = {}
  /\ rung < LastRung
  /\ rung' = rung + 1
  /\ UNCHANGED <<book, turn, spent, findings, phase>>

Mut_Exhaust ==                   \* off by one: the last window never gives up
  /\ Searched
  /\ Proofs(Current, rung) = {}
  /\ rung > LastRung
  /\ Conclude(Finding(Current, rung, "CONTRADICTED", {}, FALSE,
                      "L3-dp/exhausted"))

\* Contradicted in every window.
Exhaust ==
  /\ Searched
  /\ Proofs(Current, rung) = {}
  /\ rung = LastRung
  /\ Conclude(Finding(Current, rung, "CONTRADICTED", {}, FALSE,
                      "L3-dp/exhausted"))

Finish ==
  /\ phase = "cascade"
  /\ turn \notin DOMAIN work
  /\ phase' = "cores"
  /\ UNCHANGED <<book, turn, rung, spent, findings>>

\* A finding that may be given a solver-extracted core: unresolved and
\* without a core of its own (CONTRADICTED and INSUFFICIENT carry one).
Explainable(f) == f.verdict = "AMBIGUOUS"

Mut_WithCore(f) ==               \* a keyword forgotten: its default is False
  [verdict |-> f.verdict, proofs |-> f.proofs, exhaustive |-> FALSE,
   layer |-> f.layer, rung |-> f.rung, space |-> f.space, core |-> TRUE]

\* The finding is built anew, each field handed over by name.
WithCore(f) ==
  [verdict |-> f.verdict, proofs |-> f.proofs, exhaustive |-> f.exhaustive,
   layer |-> f.layer, rung |-> f.rung, space |-> f.space, core |-> TRUE]

\* _attach_cores: which conflicts the packing solver names is its affair, and
\* none at all when it is not installed.
AttachCores ==
  /\ phase = "cores"
  /\ \E named \in SUBSET {s \in Settlements : Explainable(findings[s])} :
       findings' = [s \in Settlements |->
         IF s \in named THEN WithCore(findings[s]) ELSE findings[s]]
  /\ phase' = "done"
  /\ UNCHANGED <<book, turn, rung, spent>>

Next == \/ MatchSingle \/ Skip \/ Decide \/ Widen \/ Exhaust
        \/ Finish \/ AttachCores

Spec == Init /\ [][Next]_vars

\* `run` is a plain loop: it does not stop while it has a step to take.
FairSpec == Spec /\ WF_vars(Next)

-----------------------------------------------------------------------------
(* Properties *)

TypeOK ==
  /\ net \in [Orders -> Nets] /\ capturedOn \in [Orders -> CaptureDays]
  /\ credit \in [Settlements -> Credits] /\ settledOn \in [Settlements -> SettleDays]
  /\ work \in [1 .. Cardinality(Settlements) -> Settlements]
  /\ turn \in 1 .. (Cardinality(Settlements) + 1)
  /\ rung \in 0 .. LastRung
  /\ spent \subseteq Orders
  /\ findings \in [Settlements -> FindingType]
  /\ phase \in {"cascade", "cores", "done"}

\* No order is claimed by two settlements: an order proven to belong to one
\* payout is in no later pool (blocking.py, "cannot belong to another").
NoOrderSpentTwice ==
  \A s, t \in Settlements :
    s # t => Claim(findings[s]) \cap Claim(findings[t]) = {}

\* What the index holds as spent is exactly what the postable findings claim:
\* an ambiguous or refused settlement consumes nothing.
SpentIsAccounted ==
  spent = UNION {Claim(findings[s]) : s \in Settlements}

\* A contradiction is a finished search: no set of the candidates nets to the
\* credit, or to less than it, within the rounding bound and the band searched.
ContradictionIsExhaustive ==
  \A s \in Settlements :
    findings[s].verdict = "CONTRADICTED" =>
      ~\E S \in SUBSET findings[s].space.members :
         InReach(net, findings[s].space.members, S, credit[s])

\* A credit the solver reports as PROVEN has no rival explanation: any other
\* set of candidates that fits, without overshooting, is the proof with more
\* orders of smaller net added to it.
RivalsExtendTheProof ==
  \A s \in Settlements :
    LET f == findings[s]
    IN  (f.verdict = "PROVEN" /\ f.layer = "L3-dp") =>
          \A S \in SUBSET f.space.members :
            InReach(net, f.space.members, S, credit[s])
              => \E p \in f.proofs : p \subseteq S

\* An abstention tells a reviewer what there is to choose from: several sets
\* of its own candidates, each accepted by the kernel; and its flag is exact.  A
\* list that says it is exhaustive starts every explanation in reach, one that
\* says it was cut short (solve() stops at MAX_ENUM) leaves an explanation out.
\* The overlay of cores rebuilds the finding and may lose none of this.
AbstentionsAreComplete ==
  \A s \in Settlements :
    LET f == findings[s]
        fits == {S \in SUBSET f.space.members : S # {} /\ Fits(net, S, credit[s])}
    IN  f.verdict = "AMBIGUOUS" =>
          /\ f.proofs \subseteq fits
          /\ \E p, q \in f.proofs : p # q
          /\ f.exhaustive =>
               \A S \in SUBSET f.space.members :
                 InReach(net, f.space.members, S, credit[s])
                   => \E p \in f.proofs : p \subseteq S
          /\ ~f.exhaustive => \E S \in fits : S \notin f.proofs

\* Every settlement handed to the engine gets an answer.
EverySettlementIsAnswered ==
  <>[](\A s \in Settlements : findings[s].verdict # "UNDECIDED")

\* verdict.py: PROVEN means exactly one assignment satisfies every constraint.
ProvenMeansExactlyOne ==
  \A s \in Settlements :
    findings[s].verdict = "PROVEN" =>
      \A S \in SUBSET findings[s].space.members :
        (S # {} /\ KernelAccepts(net, S, credit[s])) => S \in findings[s].proofs

Owner(o) ==
  IF \E s \in Settlements : o \in Claim(findings[s])
  THEN CHOOSE s \in Settlements : o \in Claim(findings[s])
  ELSE "nobody"

\* The engine implements the claim book: orders are handed out once.
Claims == INSTANCE ClaimBook WITH
  owner <- [o \in Orders |-> Owner(o)],
  answered <- {s \in Settlements : findings[s].verdict # "UNDECIDED"},
  Nobody <- "nobody"

ImplementsClaimBook == Claims!Spec
=============================================================================
