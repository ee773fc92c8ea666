------------------------- MODULE PeriodClose_proofs -------------------------
(***************************************************************************)
(* What does not depend on the size of the portfolio, the amounts or the   *)
(* materiality bound: the controller's two guards against a faulty engine  *)
(* stay silent over this engine, a period that may close lists every       *)
(* payout that is left without orders, and the certificate, the journal    *)
(* and the views of a run derive one set of figures from it.               *)
(***************************************************************************)
EXTENDS RunScreens, Cascade_proofs

\* A proof the cascade records may be posted.
ProvenPosts ==
  \A s \in Settlements : findings[s].verdict = "PROVEN" => Postable(findings[s])

\* The close starts when the cascade is done; until the period is decided there
\* is no verdict, and once it is classified every settlement has its exception.
StageInv ==
  /\ closing # "findings" => phase = "done"
  /\ closing \in {"findings", "classified", "judged"} => verdict = NoVerdict
  /\ closing # "findings" => \A s \in Settlements : exceptions[s].reason # "none"

\* The inductive invariant of the close.
CloseIInv ==
  /\ IInv /\ ProvenPosts /\ StageInv
  /\ EngineTripsNoGuard /\ CarryForwardIsExplicit

-----------------------------------------------------------------------------
(* The engine's proofs may be posted *)

\* What the cascade concludes as PROVEN is made of candidates, so the pool it
\* was found in is not empty.
LEMMA AnswersPost ==
  ASSUME MatchSingle \/ Skip \/ Decide \/ Exhaust
  PROVE  \E f : Conclude(f) /\ (f.verdict = "PROVEN" => Postable(f))
<1>1. CASE MatchSingle
  <2> DEFINE f == Finding(Current, rung, "PROVEN",
                          {Singles(Current, rung)}, TRUE, "L2-single")
  <2>1. Conclude(f)
    BY <1>1 DEF MatchSingle
  <2>2. /\ f.verdict = "PROVEN" /\ f.proofs = {Singles(Current, rung)}
        /\ f.layer = "L2-single" /\ f.space.members = Pool(Current, rung)
    BY SpaceTyped DEF Finding
  <2>3. PICK o \in Orders : Singles(Current, rung) = {o}
    BY <1>1 DEF MatchSingle, SingleMatch
  <2>4. o \in Pool(Current, rung) /\ Singles(Current, rung) \subseteq Pool(Current, rung)
    BY <2>3 DEF Singles
  <2> HIDE DEF f
  <2>5. Postable(f)
    BY <2>2, <2>4 DEF Postable
  <2> QED
    BY <2>1, <2>5
<1>2. CASE Skip
  <2> DEFINE f == Finding(Current, rung, "INSUFFICIENT", {}, FALSE, "L3-skipped")
  <2>1. f.verdict = "INSUFFICIENT"
    BY DEF Finding
  <2>2. Conclude(f)
    BY <1>2 DEF Skip
  <2> QED
    BY <2>1, <2>2
<1>3. CASE Decide
  <2> DEFINE proofs == Proofs(Current, rung)
             v == IF \E p \in proofs : proofs = {p} THEN "PROVEN" ELSE "AMBIGUOUS"
             f == Finding(Current, rung, v, proofs,
                          Exhaustive(net, Pool(Current, rung), credit[Current]), "L3-dp")
  <2>1. proofs # {} /\ Conclude(f)
    BY <1>3 DEF Decide
  <2>2. /\ f.proofs = proofs /\ f.layer = "L3-dp"
        /\ f.space.members = Pool(Current, rung)
    BY SpaceTyped DEF Finding
  <2>3. \A p \in proofs : p \subseteq Pool(Current, rung) /\ p # {}
    BY ProofsAreCandidates DEF Proofs, Found, Explanations
  <2>4. Pool(Current, rung) \subseteq Orders
    BY PoolIsFree
  <2> HIDE DEF f, proofs, v
  <2>5. f.verdict = "PROVEN" => Postable(f)
    BY <2>1, <2>2, <2>3, <2>4 DEF Postable
  <2> QED
    BY <2>1, <2>5
<1>4. CASE Exhaust
  <2> DEFINE f == Finding(Current, rung, "CONTRADICTED", {}, FALSE, "L3-dp/exhausted")
  <2>1. f.verdict = "CONTRADICTED"
    BY DEF Finding
  <2>2. Conclude(f)
    BY <1>4 DEF Exhaust
  <2> QED
    BY <2>1, <2>2
<1> QED
  BY <1>1, <1>2, <1>3, <1>4

LEMMA WithCorePosts ==
  ASSUME NEW f \in FindingType
  PROVE  /\ WithCore(f).verdict = f.verdict
         /\ Postable(f) => Postable(WithCore(f))
<1>1. /\ WithCore(f).verdict = f.verdict /\ WithCore(f).proofs = f.proofs
      /\ WithCore(f).layer = f.layer /\ WithCore(f).space = f.space
  BY DEF WithCore
<1> QED
  BY <1>1 DEF Postable

LEMMA NextProvenPosts ==
  ASSUME IInv, ProvenPosts, Next
  PROVE  ProvenPosts'
<1>0. TypeOK
  BY DEF IInv
<1>1. CASE MatchSingle \/ Skip \/ Decide \/ Exhaust
  <2>1. PICK f : Conclude(f) /\ (f.verdict = "PROVEN" => Postable(f))
    BY <1>1, AnswersPost
  <2>2. findings' = [findings EXCEPT ![Current] = f]
    BY <2>1 DEF Conclude
  <2>3. \A s \in Settlements : findings'[s] = f \/ findings'[s] = findings[s]
    BY <1>0, <2>2 DEF TypeOK
  <2> QED
    BY <2>1, <2>3 DEF ProvenPosts, Postable
<1>2. CASE Widen \/ Finish
  <2>1. findings' = findings
    BY <1>2 DEF Widen, Finish
  <2> QED
    BY <2>1 DEF ProvenPosts, Postable
<1>3. CASE AttachCores
  <2>1. \A s \in Settlements :
          findings'[s] = findings[s] \/ findings'[s] = WithCore(findings[s])
    BY <1>3 DEF AttachCores
  <2>2. \A s \in Settlements : findings[s] \in FindingType
    BY <1>0 DEF TypeOK
  <2>3. \A s \in Settlements :
          /\ findings'[s].verdict = findings[s].verdict
          /\ Postable(findings[s]) => Postable(findings'[s])
    BY <2>1, <2>2, WithCorePosts
  <2> QED
    BY <2>3 DEF ProvenPosts, Postable
<1> QED
  BY <1>1, <1>2, <1>3 DEF Next

-----------------------------------------------------------------------------
(* The controller over such findings *)

\* The rule on orders proven twice and the rule on proofs that may not post
\* block no settlement.
LEMMA GuardsAreSilent ==
  ASSUME NoOrderSpentTwice, ProvenPosts
  PROVE  /\ Rule["DUPLICATE_LEDGER_IMPACT"] = {}
         /\ Rule["FAILED_INVARIANT"] = {}
<1>1. \A s \in Settlements : findings[s].verdict = "PROVEN" => Claim(findings[s]) = Cited(s)
  BY DEF ProvenPosts, Claim, Cited
<1>2. \A s \in Settlements : ~TwiceProven(s)
  BY <1>1 DEF NoOrderSpentTwice, TwiceProven
<1>3. Rule["DUPLICATE_LEDGER_IMPACT"] = {s \in Settlements : TwiceProven(s)}
  BY DEF Rule
<1>4. Rule["FAILED_INVARIANT"] =
        {s \in Settlements : findings[s].verdict = "PROVEN" /\ ~Postable(findings[s])}
  BY DEF Rule
<1> QED
  BY <1>2, <1>3, <1>4 DEF ProvenPosts

LEMMA BlockersAreOfRules ==
  ASSUME NEW b \in Blockers
  PROVE  \/ b.kind = "UNRESOLVED_MATERIAL_AMOUNT"
         \/ Rule[b.kind] # {}
<1>1. \A kind, on, x : Blocker(kind, on, x).kind = kind
  BY DEF Blocker
<1>2. CASE b = Blocker("UNRESOLVED_MATERIAL_AMOUNT", Settlements, Unjudged)
  BY <1>1, <1>2
<1>3. CASE \E kind \in DOMAIN Rule :
             b \in {Blocker(kind, {s}, Stake(kind, s)) : s \in Rule[kind]}
  <2>1. PICK kind \in DOMAIN Rule :
          b \in {Blocker(kind, {s}, Stake(kind, s)) : s \in Rule[kind]}
    BY <1>3
  <2>2. PICK s \in Rule[kind] : b = Blocker(kind, {s}, Stake(kind, s))
    BY <2>1
  <2> QED
    BY <1>1, <2>2
<1> QED
  BY <1>2, <1>3 DEF Blockers

LEMMA EveryoneIsClassified ==
  ASSUME NEW s
  PROVE  Classify(s).reason # "none"
<1>1. \A reason, x : reason # "none" => Unresolved(s, reason, x).reason # "none"
  BY DEF Unresolved
<1>2. Uncertain(s).reason # "none"
  BY DEF Uncertain
<1>3. Contradicted(s).reason # "none"
  BY <1>1 DEF Contradicted
<1> QED
  BY <1>1, <1>2, <1>3 DEF Classify

LEMMA InitCloseIInv == CloseInit => CloseIInv
<1> SUFFICES ASSUME CloseInit PROVE CloseIInv
  OBVIOUS
<1>1. IInv
  BY InitIInv DEF CloseInit
<1>2. ProvenPosts
  BY DEF CloseInit, Init, ProvenPosts, Undecided
<1>3. StageInv /\ EngineTripsNoGuard /\ CarryForwardIsExplicit
  BY DEF CloseInit, StageInv, EngineTripsNoGuard, CarryForwardIsExplicit,
         Closable, Decisions, NoVerdict
<1> QED
  BY <1>1, <1>2, <1>3 DEF CloseIInv

\* A step that leaves the engine alone leaves its invariant alone.
LEMMA EngineUntouched ==
  ASSUME IInv, ProvenPosts, UNCHANGED vars
  PROVE  IInv' /\ ProvenPosts'
<1>1. IInv'
  BY NextIInv
<1>2. findings' = findings
  BY DEF vars
<1> QED
  BY <1>1, <1>2 DEF ProvenPosts, Postable

\* No property here looks at what is unchanged.
LEMMA VerdictUntouched ==
  ASSUME EngineTripsNoGuard, CarryForwardIsExplicit,
         verdict' = verdict, verdict = NoVerdict \/ findings' = findings
  PROVE  EngineTripsNoGuard' /\ CarryForwardIsExplicit'
<1>1. EngineTripsNoGuard'
  BY DEF EngineTripsNoGuard
<1>2. CASE verdict = NoVerdict
  BY <1>1, <1>2 DEF CarryForwardIsExplicit, Closable, Decisions, NoVerdict
<1>3. CASE findings' = findings
  BY <1>1, <1>3 DEF CarryForwardIsExplicit, Closable, Unclaimed, Claim, Postable
<1> QED
  BY <1>2, <1>3

\* The step that decides the period.
LEMMA DecideCloses ==
  ASSUME CloseIInv, DecidePeriod
  PROVE  EngineTripsNoGuard' /\ CarryForwardIsExplicit'
<1>1. NoOrderSpentTwice /\ ProvenPosts /\ StageInv
  BY DEF CloseIInv, IInv
<1>2. /\ verdict'.blockers = Blockers
      /\ verdict'.decision = IF Blockers # {} THEN "BLOCKED"
                             ELSE IF Unjudged > 0 \/ Raised # {}
                             THEN "READY_WITH_CARRY_FORWARD" ELSE "READY_TO_CLOSE"
      /\ verdict'.carried = IF Blockers # {} THEN {} ELSE Raised
      /\ closing = "judged" /\ findings' = findings
  BY DEF DecidePeriod, PeriodVerdict, vars
<1>3. EngineTripsNoGuard'
  <2> SUFFICES ASSUME NEW b \in Blockers
               PROVE  b.kind \notin {"DUPLICATE_LEDGER_IMPACT", "FAILED_INVARIANT"}
    BY <1>2 DEF EngineTripsNoGuard
  <2> QED
    BY <1>1, GuardsAreSilent, BlockersAreOfRules
<1>4. CarryForwardIsExplicit'
  <2> SUFFICES ASSUME Blockers = {}
               PROVE  Unclaimed' \subseteq Raised
    BY <1>2 DEF CarryForwardIsExplicit, Closable, Decisions
  <2>1. \A s \in Settlements : exceptions[s].reason # "none"
    BY <1>1, <1>2 DEF StageInv
  <2>2. NoException.reason = "none"
    BY DEF NoException
  <2>3. Raised = Settlements
    BY <2>1, <2>2 DEF Raised
  <2> QED
    BY <2>3 DEF Unclaimed
<1> QED
  BY <1>3, <1>4

LEMMA NextCloseIInv == CloseIInv /\ [CloseNext]_allVars => CloseIInv'
<1> SUFFICES ASSUME CloseIInv, [CloseNext]_allVars PROVE CloseIInv'
  OBVIOUS
<1>0. /\ IInv /\ ProvenPosts /\ StageInv
      /\ EngineTripsNoGuard /\ CarryForwardIsExplicit
  BY DEF CloseIInv
<1>1. CASE Reconcile
  <2>1. Next /\ UNCHANGED closeVars
    BY <1>1 DEF Reconcile
  <2>2. IInv' /\ ProvenPosts'
    BY <1>0, <2>1, NextIInv, NextProvenPosts
  <2>3. phase # "done"
    BY <2>1 DEF Next, MatchSingle, Skip, Decide, Widen, Exhaust, Finish,
                AttachCores, Searched, Deciding
  <2>4. closing = "findings" /\ verdict = NoVerdict
    BY <1>0, <2>3 DEF StageInv
  <2>5. /\ closing' = closing /\ verdict' = verdict
    BY <2>1 DEF closeVars
  <2> QED
    BY <1>0, <2>2, <2>4, <2>5, VerdictUntouched DEF CloseIInv, StageInv
<1>2. CASE ClassifyAll
  <2>1. /\ UNCHANGED vars /\ verdict' = verdict /\ phase = "done"
        /\ closing = "findings" /\ closing' = "classified"
        /\ exceptions' = [s \in Settlements |-> Classify(s)]
    BY <1>2 DEF ClassifyAll
  <2>2. \A s \in Settlements : exceptions'[s].reason # "none"
    BY <2>1, EveryoneIsClassified
  <2>3. StageInv'
    BY <1>0, <2>1, <2>2 DEF StageInv, vars
  <2> QED
    BY <1>0, <2>1, <2>3, EngineUntouched, VerdictUntouched DEF CloseIInv, vars
<1>3. CASE DecidePeriod
  <2>1. /\ UNCHANGED vars /\ exceptions' = exceptions
        /\ closing = "judged" /\ closing' = "decided"
    BY <1>3 DEF DecidePeriod
  <2>2. StageInv'
    BY <1>0, <2>1 DEF StageInv, vars
  <2> QED
    BY <1>0, <1>3, <2>1, <2>2, EngineUntouched, DecideCloses DEF CloseIInv
<1>4. CASE JudgeAll \/ IssueCertificate \/ WriteJournal \/ UNCHANGED allVars
  <2>1. UNCHANGED vars /\ verdict' = verdict /\ exceptions' = exceptions
    BY <1>4 DEF JudgeAll, IssueCertificate, WriteJournal, allVars, closeVars
  <2>2. \/ closing' = closing
        \/ closing = "classified" /\ closing' = "judged"
        \/ closing = "decided" /\ closing' = "certified"
    BY <1>4 DEF JudgeAll, IssueCertificate, WriteJournal, allVars, closeVars
  <2>3. StageInv'
    BY <1>0, <2>1, <2>2 DEF StageInv, vars
  <2> QED
    BY <1>0, <2>1, <2>3, EngineUntouched, VerdictUntouched DEF CloseIInv, vars
<1> QED
  BY <1>1, <1>2, <1>3, <1>4 DEF CloseNext

-----------------------------------------------------------------------------
(* Theorems *)

\* The inductive invariant of the close, over the cascade's own.
THEOREM CloseInvariant == CloseSpec => []CloseIInv
<1>1. CloseInit => CloseIInv
  BY InitCloseIInv
<1>2. CloseIInv /\ [CloseNext]_allVars => CloseIInv'
  BY NextCloseIInv
<1> QED
  BY <1>1, <1>2, PTL DEF CloseSpec

\* Over findings of this engine neither the rule on orders proven twice nor the
\* rule on proofs that may not post ever blocks a period (readiness.py, 4 and 5).
THEOREM GuardsNeverTrip == CloseSpec => []EngineTripsNoGuard
<1>1. CloseIInv => EngineTripsNoGuard
  BY DEF CloseIInv
<1> QED
  BY <1>1, CloseInvariant, PTL

\* A period that may close carries forward every payout without orders, by name
\* (readiness.py, "every carry-forward is explicitly represented").
THEOREM CarriedByName == CloseSpec => []CarryForwardIsExplicit
<1>1. CloseIInv => CarryForwardIsExplicit
  BY DEF CloseIInv
<1> QED
  BY <1>1, CloseInvariant, PTL

-----------------------------------------------------------------------------
(* The figures of one run *)

\* What a reader of a finding counts on, beside its being faithful: a proof
\* cites orders and is the only one, an ambiguity has two explanations, and
\* they are candidates that fit.
Sound(f, n, x) ==
  /\ f.verdict = "PROVEN" => f.exhaustive /\ \E p : f.proofs = {p} /\ p # {}
  /\ f.verdict = "AMBIGUOUS" =>
       /\ \E p, q \in f.proofs : p # q
       /\ \A p \in f.proofs : p \subseteq f.space.members /\ Fits(n, p, x)

SoundInv == \A s \in Settlements : Sound(findings[s], net, credit[s])

LEMMA AnswersAreSound ==
  ASSUME EngineOK, MatchSingle \/ Skip \/ Decide \/ Exhaust
  PROVE  \E f : Sound(f, net, credit[Current]) /\ Conclude(f)
<1> DEFINE x == credit[Current]
           pool == Pool(Current, rung)
           all == Explanations(net, pool, x)
<1>0. net \in [Orders -> Int]
  BY DEF EngineOK
<1>1. /\ pool \in SUBSET Orders /\ Affordable(net, pool, x) = pool
      /\ SpaceOf(Current, rung).members = pool
  BY PoolIsAffordable, SpaceTyped
<1>2. CASE MatchSingle
  <2> DEFINE p == Singles(Current, rung)
             f == Finding(Current, rung, "PROVEN", {p}, TRUE, "L2-single")
  <2>1. p # {}
    BY <1>2 DEF MatchSingle, SingleMatch
  <2>2. f.verdict = "PROVEN" /\ f.proofs = {p} /\ f.exhaustive
    BY DEF Finding
  <2>3. Conclude(f)
    BY <1>2 DEF MatchSingle
  <2> HIDE DEF f, p
  <2>4. Sound(f, net, x)
    BY <2>1, <2>2 DEF Sound
  <2> QED
    BY <2>3, <2>4
<1>3. CASE Skip
  <2> DEFINE f == Finding(Current, rung, "INSUFFICIENT", {}, FALSE, "L3-skipped")
  <2>1. f.verdict = "INSUFFICIENT"
    BY DEF Finding
  <2>2. Conclude(f)
    BY <1>3 DEF Skip
  <2> HIDE DEF f
  <2>3. Sound(f, net, x)
    BY <2>1 DEF Sound
  <2> QED
    BY <2>2, <2>3
<1>4. CASE Exhaust
  <2> DEFINE f == Finding(Current, rung, "CONTRADICTED", {}, FALSE, "L3-dp/exhausted")
  <2>1. f.verdict = "CONTRADICTED"
    BY DEF Finding
  <2>2. Conclude(f)
    BY <1>4 DEF Exhaust
  <2> HIDE DEF f
  <2>3. Sound(f, net, x)
    BY <2>1 DEF Sound
  <2> QED
    BY <2>2, <2>3
<1>5. CASE Decide
  <2> DEFINE proofs == Proofs(Current, rung)
             e == Exhaustive(net, pool, x)
             v == IF \E p \in proofs : proofs = {p} THEN "PROVEN" ELSE "AMBIGUOUS"
             f == Finding(Current, rung, v, proofs, e, "L3-dp")
  <2>1. /\ f.verdict = v /\ f.proofs = proofs /\ f.exhaustive = e
        /\ f.space.members = pool
    BY <1>1 DEF Finding
  <2>2. Conclude(f) /\ proofs # {}
    BY <1>5 DEF Decide
  <2>3. /\ proofs = Found(net, pool, x)
        /\ \A p : proofs = {p} => all = {p}
    <3>1. proofs = Found(net, pool, x)
      BY ProofsAreFound
    <3> HIDE DEF pool, x, proofs
    <3> QED
      BY <1>0, <1>1, <3>1, FoundIsAll
  <2>4. \A p \in proofs : p # {} /\ p \subseteq pool /\ Fits(net, p, x)
    <3>1. \A p \in proofs : p \in all
      BY <1>1, <2>3 DEF Found
    <3> QED
      BY <3>1 DEF Explanations
  <2>5. v = "PROVEN" => e
    <3> SUFFICES ASSUME v = "PROVEN" PROVE e
      OBVIOUS
    <3>1. PICK p \in proofs : proofs = {p}
      OBVIOUS
    <3>2. Cardinality(all) = 1
      BY <2>3, <3>1, FS_Singleton
    <3>3. 1 <= MaxEnum
      BY SubsetSumAssumption
    <3> QED
      BY <1>1, <3>2, <3>3 DEF Exhaustive
  <2>6. /\ v = "PROVEN" => \E p \in proofs : proofs = {p}
        /\ v = "AMBIGUOUS" => \E p, q \in proofs : p # q
    BY <2>2
  <2> HIDE DEF f, v, e, proofs, pool, x
  <2>7. Sound(f, net, x)
    BY <2>1, <2>4, <2>5, <2>6 DEF Sound
  <2> QED
    BY <2>2, <2>7 DEF x
<1> QED
  BY <1>2, <1>3, <1>4, <1>5

LEMMA NextSoundInv ==
  ASSUME EngineOK, SoundInv, Next \/ UNCHANGED vars
  PROVE  SoundInv'
<1>0. net' = net /\ credit' = credit
  BY DEF Next, MatchSingle, Skip, Decide, Widen, Exhaust, Finish, AttachCores, Conclude,
         book, vars
<1>1. CASE MatchSingle \/ Skip \/ Decide \/ Exhaust
  <2>1. PICK f : Sound(f, net, credit[Current]) /\ Conclude(f)
    BY <1>1, AnswersAreSound
  <2>2. findings' = [findings EXCEPT ![Current] = f]
    BY <2>1 DEF Conclude
  <2>3. \A s \in Settlements : findings'[s] = IF s = Current THEN f ELSE findings[s]
    BY <2>2 DEF EngineOK
  <2> QED
    BY <1>0, <2>1, <2>3 DEF SoundInv
<1>2. CASE AttachCores
  <2>1. \A s \in Settlements :
          findings'[s] = findings[s] \/ findings'[s] = WithCore(findings[s])
    BY <1>2 DEF AttachCores
  <2>2. \A f \in FindingType : \A n, x : Sound(f, n, x) => Sound(WithCore(f), n, x)
    <3> SUFFICES ASSUME NEW f \in FindingType, NEW n, NEW x, Sound(f, n, x)
                 PROVE  Sound(WithCore(f), n, x)
      OBVIOUS
    <3>1. /\ WithCore(f).verdict = f.verdict /\ WithCore(f).proofs = f.proofs
          /\ WithCore(f).space = f.space /\ WithCore(f).exhaustive = f.exhaustive
      BY DEF WithCore, FindingType
    <3> QED
      BY <3>1 DEF Sound
  <2>3. \A s \in Settlements : findings[s] \in FindingType
    BY DEF EngineOK
  <2> QED
    BY <1>0, <2>1, <2>2, <2>3 DEF SoundInv
<1>3. CASE Widen \/ Finish \/ UNCHANGED vars
  <2>1. findings' = findings
    BY <1>3 DEF Widen, Finish, vars
  <2> QED
    BY <1>0, <2>1 DEF SoundInv
<1> QED
  BY <1>1, <1>2, <1>3 DEF Next

\* Those whose turn has come have their answer, and the cascade ends when
\* everyone's has.
AnswerInv ==
  /\ \A i \in DOMAIN work : i < turn => findings[work[i]].verdict \in Verdicts
  /\ phase # "cascade" => turn \notin DOMAIN work

LEMMA NextAnswerInv ==
  ASSUME IInv, AnswerInv, Next \/ UNCHANGED vars
  PROVE  AnswerInv'
<1>0. /\ EngineOK /\ TypeOK /\ work' = work
      /\ \A i \in DOMAIN work : i \in Int /\ work[i] \in Settlements
      /\ turn \in Int
  <2>1. EngineOK /\ TypeOK
    BY TypesOfTheEngine DEF IInv
  <2>2. work' = work
    BY DEF Next, MatchSingle, Skip, Decide, Widen, Exhaust, Finish, AttachCores, Conclude,
           book, vars
  <2> QED
    BY <2>1, <2>2, SettlementCount DEF TypeOK
<1>1. CASE MatchSingle \/ Skip \/ Decide \/ Exhaust
  <2>1. Deciding
    BY <1>1 DEF MatchSingle, Skip, Decide, Exhaust, Searched
  <2>2. PICK f \in FindingType : f.verdict # "UNDECIDED" /\ Conclude(f)
    BY <1>0, <1>1, AnswersConclude
  <2>3. f.verdict \in Verdicts
    BY <2>2 DEF FindingType
  <2>4. /\ findings' = [findings EXCEPT ![Current] = f]
        /\ turn' = turn + 1 /\ phase' = phase /\ phase = "cascade"
    BY <2>1, <2>2 DEF Conclude, Deciding
  <2>5. \A s \in Settlements : findings'[s] = IF s = Current THEN f ELSE findings[s]
    BY <1>0, <2>4 DEF EngineOK
  <2>6. ASSUME NEW i \in DOMAIN work, i < turn + 1
        PROVE  findings'[work[i]].verdict \in Verdicts
    <3>1. i = turn \/ i < turn
      BY <1>0, <2>6
    <3>2. CASE i = turn
      BY <1>0, <2>3, <2>5, <3>2 DEF Current
    <3>3. CASE i < turn
      BY <1>0, <2>3, <2>5, <3>3 DEF AnswerInv
    <3> QED
      BY <3>1, <3>2, <3>3
  <2> QED
    BY <1>0, <2>4, <2>6 DEF AnswerInv
<1>2. CASE Widen \/ UNCHANGED vars
  BY <1>2 DEF AnswerInv, Widen, book, vars
<1>3. CASE Finish
  BY <1>3 DEF AnswerInv, Finish, book
<1>4. CASE AttachCores
  <2>1. \A s \in Settlements : findings'[s].verdict = findings[s].verdict
    BY <1>0, <1>4, AttachCoresKeeps
  <2>2. turn' = turn /\ phase # "cascade"
    BY <1>4 DEF AttachCores
  <2> QED
    BY <1>0, <2>1, <2>2 DEF AnswerInv
<1> QED
  BY <1>1, <1>2, <1>3, <1>4 DEF Next

\* A list without repetition, as long as there are settlements, has them all.
LEMMA WorkHasEveryone ==
  ASSUME IInv, NEW s \in Settlements
  PROVE  \E i \in DOMAIN work : work[i] = s
<1> DEFINE n == Cardinality(Settlements)
<1>1. n \in Nat /\ IsFiniteSet(Settlements)
  BY SettlementCount, CascadeAssumption
<1>2. IsFiniteSet(1 .. n) /\ Cardinality(1 .. n) = n
  <2> HIDE DEF n
  <2> QED
    BY <1>1, FS_Interval
<1>3. work \in [1 .. n -> Settlements] /\ \A i, j \in 1 .. n : work[i] = work[j] => i = j
  BY DEF IInv, TypeOK, WorkInv
<1>4. work \in Injection(1 .. n, Settlements)
  BY <1>3 DEF Injection, IsInjective
<1>5. work \in Surjection(1 .. n, Settlements)
  BY <1>1, <1>2, <1>4, FS_Injection
<1> QED
  BY <1>5 DEF Surjection

LEMMA EveryoneIsAnswered ==
  ASSUME IInv, AnswerInv, phase = "done", NEW s \in Settlements
  PROVE  findings[s].verdict \in Verdicts
<1>1. PICK i \in DOMAIN work : work[i] = s
  BY WorkHasEveryone
<1>2. i < turn
  <2>1. /\ DOMAIN work = 1 .. Cardinality(Settlements)
        /\ turn \in 1 .. (Cardinality(Settlements) + 1)
    BY DEF IInv, TypeOK
  <2>2. turn \notin DOMAIN work
    BY DEF AnswerInv
  <2> QED
    BY <1>1, <2>1, <2>2, SettlementCount
<1> QED
  BY <1>1, <1>2 DEF AnswerInv

\* What classification says of a verdict.
Classified(s) ==
  /\ findings[s].verdict = "PROVEN" => exceptions[s].unexplained = 0
  /\ findings[s].verdict = "PROVEN" <=> exceptions[s].reason = "SEARCH_SPACE_UNCERTAIN"
  /\ findings[s].verdict = "AMBIGUOUS" =>
       exceptions[s].unexplained = Total(net, Disputed(findings[s]))

\* What each stage of the close leaves behind for those that read it: the
\* classes, a price for every judgement, one exposure in the verdict and one in
\* the certificate, and a journal that is whole or lost.
BookInv ==
  /\ closing \in {"findings", "classified", "judged", "decided", "certified"}
  /\ closing # "findings" => \A s \in Settlements : Classified(s)
  /\ closing \in {"judged", "decided", "certified"} =>
       \A s \in Settlements :
         \E price \in Prices \cup {Unmeasured} : judgements[s] = Judge(s, price)
  /\ closing \in {"decided", "certified"} =>
       /\ verdict.unresolved = Unjudged
       /\ Closable => ~Material /\ Withheld = {}
  /\ closing = "certified" =>
       /\ certificate.unresolved = NetUnresolved(Withheld)
       /\ certificate.reconciled = Verified(Withheld)
  /\ \/ \A s \in Settlements : journal[s] = "unwritten"
     \/ \A s \in Settlements : journal[s] = "lost"
     \/ \A s \in Settlements :
          journal[s] = Outcome(s, judgements[s]) /\ journal[s] \in {"entry", "refused"}
  /\ closing \in {"findings", "classified"} =>
       \A s \in Settlements : journal[s] = "unwritten"

LEMMA ClassesAre ==
  ASSUME NEW s \in Settlements
  PROVE  LET e == Classify(s)
         IN  /\ findings[s].verdict = "PROVEN" => e.unexplained = 0
             /\ findings[s].verdict = "PROVEN" <=> e.reason = "SEARCH_SPACE_UNCERTAIN"
             /\ findings[s].verdict = "AMBIGUOUS" =>
                  e.unexplained = Total(net, Disputed(findings[s]))
<1>1. \A reason, x : /\ Unresolved(s, reason, x).reason = reason
                     /\ Unresolved(s, reason, x).unexplained = x
  BY DEF Unresolved
<1>2. CASE findings[s].verdict = "PROVEN"
  BY <1>2 DEF Classify, Uncertain
<1>3. CASE findings[s].verdict = "INSUFFICIENT"
  BY <1>1, <1>3 DEF Classify
<1>4. CASE findings[s].verdict = "AMBIGUOUS"
  BY <1>1, <1>4 DEF Classify
<1>5. CASE findings[s].verdict \notin {"PROVEN", "INSUFFICIENT", "AMBIGUOUS"}
  <2>1. Classify(s) = Contradicted(s)
    BY <1>5 DEF Classify
  <2>2. Contradicted(s).reason # "SEARCH_SPACE_UNCERTAIN"
    BY <1>1 DEF Contradicted
  <2> QED
    BY <1>5, <2>1, <2>2
<1> QED
  BY <1>2, <1>3, <1>4, <1>5

\* The figures stand while what they are derived from does.
LEMMA FiguresStand ==
  ASSUME UNCHANGED <<vars, exceptions>>
  PROVE  /\ Unjudged' = Unjudged /\ Material' = Material
         /\ \A s \in Settlements : Classified(s)' = Classified(s)
         /\ \A s \in Settlements : \A price : Judge(s, price)' = Judge(s, price)
         /\ \A s \in Settlements : \A j : Outcome(s, j)' = Outcome(s, j)
<1>1. net' = net /\ credit' = credit /\ findings' = findings /\ exceptions' = exceptions
  BY DEF vars
<1>2. \A s \in Settlements : Value(s)' = Value(s)
  BY <1>1 DEF Value
<1>3. ValueOf(Settlements)' = ValueOf(Settlements)
  BY <1>1 DEF ValueOf, Value
<1>4. \A W : Verified(W)' = Verified(W)
  BY <1>1 DEF Verified, VerifiedPart, Value, Postable
<1>5. Unjudged' = Unjudged
  BY <1>3, <1>1 DEF Unjudged, NetUnresolved, Verified, VerifiedPart, Value, Postable
<1>6. Material' = Material
  BY <1>3, <1>5 DEF Material, Allowed
<1>7. \A s \in Settlements : Classified(s)' = Classified(s)
  BY <1>1 DEF Classified, Disputed
<1>8. \A s \in Settlements : \A price : Judge(s, price)' = Judge(s, price)
  BY <1>1 DEF Judge
<1>9. \A s \in Settlements : \A j : Outcome(s, j)' = Outcome(s, j)
  BY <1>1 DEF Outcome, Refused, Unbalanced, Postable, Cited, FeeLine, Debits, Discharged
<1> QED
  BY <1>5, <1>6, <1>7, <1>8, <1>9

LEMMA CertificateStands ==
  ASSUME UNCHANGED <<vars, exceptions, judgements>>
  PROVE  /\ Withheld' = Withheld
         /\ NetUnresolved(Withheld)' = NetUnresolved(Withheld)
         /\ Verified(Withheld)' = Verified(Withheld)
<1>1. /\ credit' = credit /\ findings' = findings /\ exceptions' = exceptions
      /\ judgements' = judgements
  BY DEF vars
<1>2. Withheld' = Withheld
  BY <1>1 DEF Withheld
<1>3. Verified(Withheld)' = Verified(Withheld)
  BY <1>1, <1>2 DEF Verified, VerifiedPart, Value, Postable
<1> QED
  BY <1>1, <1>2, <1>3 DEF NetUnresolved, ValueOf, Value

\* A period without blockers is not material and withholds nothing.
LEMMA NothingBlocks ==
  ASSUME Blockers = {}
  PROVE  ~Material /\ Withheld = {}
<1>1. ~Material
  BY DEF Blockers
<1>2. ASSUME NEW s \in Withheld PROVE FALSE
  <2>1. s \in Rule["POLICY_BLOCKED"] /\ "POLICY_BLOCKED" \in DOMAIN Rule
    BY <1>2 DEF Withheld, Rule
  <2> DEFINE k == "POLICY_BLOCKED"
             named == {Blocker(k, {t}, Stake(k, t)) : t \in Rule[k]}
  <2>2. Blocker(k, {s}, Stake(k, s)) \in named
    BY <2>1
  <2>3. UNION {{Blocker(kind, {t}, Stake(kind, t)) : t \in Rule[kind]} : kind \in DOMAIN Rule}
          \subseteq Blockers
    BY DEF Blockers
  <2>4. named \in {{Blocker(kind, {t}, Stake(kind, t)) : t \in Rule[kind]} : kind \in DOMAIN Rule}
    BY <2>1
  <2> HIDE DEF named
  <2> QED
    BY <2>2, <2>3, <2>4
<1> QED
  BY <1>1, <1>2

LEMMA NextBookInv ==
  ASSUME CloseIInv, BookInv, [CloseNext]_allVars
  PROVE  BookInv'
<1>0. StageInv
  BY DEF CloseIInv
<1>1. CASE Reconcile
  <2>1. Next /\ UNCHANGED closeVars
    BY <1>1 DEF Reconcile
  <2>2. phase # "done"
    BY <2>1 DEF Next, MatchSingle, Skip, Decide, Widen, Exhaust, Finish,
                AttachCores, Searched, Deciding
  <2>3. closing = "findings" /\ closing' = closing /\ journal' = journal
    BY <1>0, <2>1, <2>2 DEF StageInv, closeVars
  <2> QED
    BY <2>3 DEF BookInv
<1>2. CASE ClassifyAll
  <2>1. /\ UNCHANGED vars /\ journal' = journal
        /\ closing = "findings" /\ closing' = "classified"
        /\ exceptions' = [s \in Settlements |-> Classify(s)]
    BY <1>2 DEF ClassifyAll
  <2>2. net' = net /\ findings' = findings
    BY <2>1 DEF vars
  <2>3. \A s \in Settlements : Classified(s)'
    BY <2>1, <2>2, ClassesAre DEF Classified, Disputed
  <2> QED
    BY <2>1, <2>3 DEF BookInv
<1>3. CASE JudgeAll
  <2>1. /\ UNCHANGED vars /\ exceptions' = exceptions /\ journal' = journal
        /\ closing = "classified" /\ closing' = "judged"
        /\ \E price \in [Settlements -> Prices \cup {Unmeasured}] :
             judgements' = [s \in Settlements |-> Judge(s, price[s])]
    BY <1>3 DEF JudgeAll
  <2>2. \A s \in Settlements :
          \E price \in Prices \cup {Unmeasured} : judgements'[s] = Judge(s, price)
    BY <2>1
  <2>3. \A s \in Settlements :
          \E price \in Prices \cup {Unmeasured} : judgements'[s] = Judge(s, price)'
    BY <2>1, <2>2, FiguresStand
  <2>4. \A s \in Settlements : Classified(s)'
    BY <2>1, FiguresStand DEF BookInv
  <2> QED
    BY <2>1, <2>3, <2>4 DEF BookInv
<1>4. CASE DecidePeriod \/ IssueCertificate \/ WriteJournal \/ UNCHANGED allVars
  <2>1. /\ UNCHANGED vars /\ exceptions' = exceptions /\ judgements' = judgements
        /\ \/ closing' = closing
           \/ closing = "judged" /\ closing' = "decided"
           \/ closing = "decided" /\ closing' = "certified"
    BY <1>4 DEF DecidePeriod, IssueCertificate, WriteJournal, allVars, closeVars
  <2>2. /\ closing' \in {"findings", "classified", "judged", "decided", "certified"}
        /\ closing' # "findings" => \A s \in Settlements : Classified(s)'
    BY <2>1, FiguresStand DEF BookInv
  <2>3. closing' \in {"judged", "decided", "certified"} =>
          \A s \in Settlements :
            \E price \in Prices \cup {Unmeasured} : judgements'[s] = Judge(s, price)'
    BY <2>1, FiguresStand DEF BookInv
  <2>4. closing' \in {"decided", "certified"} =>
          /\ verdict'.unresolved = Unjudged'
          /\ Closable' => ~Material' /\ Withheld' = {}
    <3>1. CASE DecidePeriod
      <4>1. /\ verdict'.unresolved = Unjudged
            /\ verdict'.decision = "BLOCKED" \/ Blockers = {}
        BY <3>1 DEF DecidePeriod, PeriodVerdict
      <4>2. Closable' => Blockers = {}
        BY <4>1 DEF Closable
      <4> QED
        BY <2>1, <4>1, <4>2, NothingBlocks, FiguresStand, CertificateStands
    <3>2. CASE ~DecidePeriod
      <4>1. /\ verdict' = verdict
            /\ closing' \in {"decided", "certified"} => closing \in {"decided", "certified"}
        BY <1>4, <3>2 DEF IssueCertificate, WriteJournal, allVars, closeVars
      <4>2. Closable' = Closable
        BY <4>1 DEF Closable
      <4> QED
        BY <2>1, <4>1, <4>2, FiguresStand, CertificateStands DEF BookInv
    <3> QED
      BY <3>1, <3>2
  <2>5. closing' = "certified" =>
          /\ certificate'.unresolved = NetUnresolved(Withheld)'
          /\ certificate'.reconciled = Verified(Withheld)'
    <3>1. CASE IssueCertificate
      <4>1. /\ certificate'.unresolved = NetUnresolved(Withheld)
            /\ certificate'.reconciled = Verified(Withheld)
        BY <3>1 DEF IssueCertificate, Certificate
      <4> QED
        BY <2>1, <4>1, CertificateStands
    <3>2. CASE ~IssueCertificate
      <4>1. certificate' = certificate /\ (closing' = "certified" => closing = "certified")
        BY <1>4, <3>2 DEF DecidePeriod, WriteJournal, allVars, closeVars
      <4> QED
        BY <2>1, <4>1, CertificateStands DEF BookInv
    <3> QED
      BY <3>1, <3>2
  <2>6. \/ \A s \in Settlements : journal'[s] = "unwritten"
        \/ \A s \in Settlements : journal'[s] = "lost"
        \/ \A s \in Settlements : /\ journal'[s] = Outcome(s, judgements[s])
                                  /\ journal'[s] \in {"entry", "refused"}
    <3>1. CASE WriteJournal
      <4>1. journal' = [s \in Settlements |->
              IF \E t \in Settlements : Outcome(t, judgements[t]) = "raised"
              THEN "lost" ELSE Outcome(s, judgements[s])]
        BY <3>1 DEF WriteJournal
      <4>2. \A s \in Settlements : Outcome(s, judgements[s]) \in {"entry", "refused", "raised"}
        BY DEF Outcome
      <4> QED
        BY <4>1, <4>2
    <3>2. CASE ~WriteJournal
      <4>1. journal' = journal
        BY <1>4, <3>2 DEF DecidePeriod, IssueCertificate, allVars, closeVars
      <4> QED
        BY <4>1 DEF BookInv
    <3> QED
      BY <3>1, <3>2
  <2>7. \/ \A s \in Settlements : journal'[s] = "unwritten"
        \/ \A s \in Settlements : journal'[s] = "lost"
        \/ \A s \in Settlements : /\ journal'[s] = Outcome(s, judgements[s])'
                                  /\ journal'[s] \in {"entry", "refused"}
    <3>1. \A s \in Settlements : Outcome(s, judgements[s])' = Outcome(s, judgements[s])
      <4> SUFFICES ASSUME NEW s \in Settlements
                   PROVE  Outcome(s, judgements[s])' = Outcome(s, judgements[s])
        OBVIOUS
      <4>1. net' = net /\ credit' = credit /\ findings' = findings /\ judgements' = judgements
        BY <2>1 DEF vars
      <4> QED
        BY <4>1 DEF Outcome, Refused, Unbalanced, Postable, Cited, FeeLine, Debits, Discharged
    <3> QED
      BY <2>6, <3>1
  <2>8. closing' \in {"findings", "classified"} =>
          \A s \in Settlements : journal'[s] = "unwritten"
    BY <1>4 DEF BookInv, DecidePeriod, IssueCertificate, WriteJournal, allVars, closeVars
  <2> QED
    BY <2>2, <2>3, <2>4, <2>5, <2>7, <2>8 DEF BookInv
<1> QED
  BY <1>1, <1>2, <1>3, <1>4 DEF CloseNext

\* The inductive invariant of the figures.
ScreenIInv ==
  /\ CloseIInv /\ EngineOK /\ SearchInv /\ SoundInv /\ AnswerInv /\ BookInv

LEMMA InitScreenIInv == CloseInit => ScreenIInv
<1> SUFFICES ASSUME CloseInit PROVE ScreenIInv
  OBVIOUS
<1>1. CloseIInv /\ Init
  BY InitCloseIInv DEF CloseInit
<1>2. EngineOK /\ SearchInv
  BY <1>1, TypesOfTheEngine, InitSearchInv DEF CloseIInv, IInv
<1>3. SoundInv
  BY <1>1 DEF Init, SoundInv, Sound, Undecided
<1>4. AnswerInv
  <2>1. turn = 1 /\ phase = "cascade" /\ DOMAIN work = 1 .. Cardinality(Settlements)
    BY <1>1 DEF Init, WorkOrders
  <2> QED
    BY <2>1, SettlementCount DEF AnswerInv
<1>5. BookInv
  BY DEF CloseInit, BookInv
<1> QED
  BY <1>1, <1>2, <1>3, <1>4, <1>5 DEF ScreenIInv

LEMMA NextScreenIInv == ScreenIInv /\ [CloseNext]_allVars => ScreenIInv'
<1> SUFFICES ASSUME ScreenIInv, [CloseNext]_allVars PROVE ScreenIInv'
  OBVIOUS
<1>1. CloseIInv' /\ BookInv'
  BY NextCloseIInv, NextBookInv DEF ScreenIInv
<1>2. Next \/ UNCHANGED vars
  BY DEF CloseNext, Reconcile, ClassifyAll, JudgeAll, DecidePeriod, IssueCertificate,
         WriteJournal, allVars
<1>3. [Next]_vars
  BY <1>2
<1>4. EngineOK' /\ SearchInv'
  BY <1>3, NextEngineOK, NextSearchInv DEF ScreenIInv
<1>5. SoundInv' /\ AnswerInv'
  BY <1>2, NextSoundInv, NextAnswerInv DEF ScreenIInv, CloseIInv
<1> QED
  BY <1>1, <1>4, <1>5 DEF ScreenIInv

\* What the views of a run read off: through the cascade and the close every
\* finding is sound, everyone is answered, and each stage leaves one story.
THEOREM ScreenInvariant == CloseSpec => []ScreenIInv
<1> QED
  BY InitScreenIInv, NextScreenIInv, PTL DEF CloseSpec

-----------------------------------------------------------------------------
(* The sums *)

\* The settlements whose credit stays held: those that are not proven.
Held == Settlements \ Of("PROVEN")

LEMMA HeldAre ==
  ASSUME ScreenIInv, phase = "done"
  PROVE  /\ Proven = Of("PROVEN") /\ Unclaimed = Held
         /\ \A s \in Held : findings[s].verdict \in {"AMBIGUOUS", "CONTRADICTED", "INSUFFICIENT"}
         /\ \A s \in Of("PROVEN") : findings[s].verdict = "PROVEN"
<1>1. Proven = Of("PROVEN")
  BY DEF ScreenIInv, CloseIInv, ProvenPosts, Proven, Of
<1>2. ASSUME NEW s \in Settlements
      PROVE  Claim(findings[s]) = {} <=> findings[s].verdict # "PROVEN"
  <2>1. CASE findings[s].verdict = "PROVEN"
    <3>1. PICK p : findings[s].proofs = {p} /\ p # {}
      BY <2>1 DEF ScreenIInv, SoundInv, Sound
    <3>2. Postable(findings[s])
      BY <2>1 DEF ScreenIInv, CloseIInv, ProvenPosts
    <3> QED
      BY <2>1, <3>1, <3>2 DEF Claim
  <2>2. CASE findings[s].verdict # "PROVEN"
    BY <2>2 DEF Claim, Postable
  <2> QED
    BY <2>1, <2>2
<1>3. Unclaimed = Held
  BY <1>2 DEF Unclaimed, Held, Of
<1>4. \A s \in Settlements : findings[s].verdict \in Verdicts
  BY EveryoneIsAnswered DEF ScreenIInv, CloseIInv
<1> QED
  BY <1>1, <1>3, <1>4 DEF Held, Of, Verdicts

LEMMA Books ==
  ASSUME ScreenIInv, Credits \subseteq Nat
  PROVE  /\ IsFiniteSet(Settlements) /\ credit \in [Settlements -> Nat]
         /\ credit \in [Settlements -> Int] /\ net \in [Orders -> Int]
         /\ \A s \in Settlements : Value(s) = credit[s]
<1>1. credit \in [Settlements -> Credits] /\ net \in [Orders -> Int]
  BY DEF ScreenIInv, CloseIInv, IInv, TypeOK, EngineOK
<1>2. credit \in [Settlements -> Nat]
  BY <1>1
<1> QED
  BY <1>1, <1>2, CascadeAssumption DEF Value, Magnitude

\* What a set of settlements pays and what it is worth to the controller are
\* the same, payouts being amounts received.
LEMMA WorthIsPaid ==
  ASSUME ScreenIInv, Credits \subseteq Nat, NEW S \in SUBSET Settlements
  PROVE  ValueOf(S) = Paid(S) /\ Paid(S) \in Int
<1>1. IsFiniteSet(S) /\ S \subseteq S
  BY Books, FS_Subset
<1>2. [s \in S |-> Value(s)] \in [S -> Int] /\ \A s \in S : [t \in S |-> Value(t)][s] = credit[s]
  BY Books
<1> DEFINE v == [s \in S |-> Value(s)]
<1> HIDE DEF v
<1>3. v \in [S -> Int] /\ \A s \in S : v[s] = credit[s]
  BY <1>2 DEF v
<1>4. Total(v, S) = Total(credit, S)
  BY <1>1, <1>3, Books, TotalSame
<1> QED
  BY <1>4, Books, TotalStep DEF ValueOf, Paid, v

\* The two sides of the period.
LEMMA PaidApart ==
  ASSUME ScreenIInv, Credits \subseteq Nat, NEW S \in SUBSET Settlements, NEW P \in SUBSET S
  PROVE  Paid(S) = Paid(P) + Paid(S \ P) /\ Paid(S) \in Int /\ Paid(P) \in Int
BY Books, TotalOfPart DEF Paid

\* Of a proof, once it is classified, the whole value counts as verified.
LEMMA VerifiedIs ==
  ASSUME ScreenIInv, Credits \subseteq Nat, phase = "done", closing # "findings",
         NEW W, NEW s \in Settlements
  PROVE  VerifiedPart(s, W) = IF findings[s].verdict = "PROVEN" /\ s \notin W
                              THEN credit[s] ELSE 0
<1>1. findings[s].verdict = "PROVEN" =>
        Postable(findings[s]) /\ exceptions[s].unexplained = 0
  BY DEF ScreenIInv, CloseIInv, ProvenPosts, BookInv, Classified
<1>2. Magnitude(0) = 0 /\ credit[s] \in Nat /\ Value(s) = credit[s]
  BY Books DEF Magnitude
<1> QED
  BY <1>1, <1>2 DEF VerifiedPart

LEMMA VerifiedSum ==
  ASSUME ScreenIInv, Credits \subseteq Nat, phase = "done", closing # "findings", NEW W
  PROVE  LET P == {s \in Of("PROVEN") : s \notin W}
         IN  Verified(W) = Paid(P)
<1> DEFINE P == {s \in Of("PROVEN") : s \notin W}
           v == [s \in Settlements |-> VerifiedPart(s, W)]
<1>1. P \in SUBSET Settlements
  BY DEF Of
<1>2. v \in [Settlements -> Int]
  BY VerifiedIs, Books
<1>3. \A s \in P : v[s] = credit[s]
  BY VerifiedIs DEF Of
<1>4. \A s \in Settlements \ P : v[s] = 0
  BY VerifiedIs DEF Of
<1>5. Verified(W) = Total(v, Settlements)
  BY DEF Verified
<1> HIDE DEF v, P
<1>6. Total(v, Settlements) = Total(v, P) + Total(v, Settlements \ P) /\ Total(v, P) \in Int
  BY <1>1, <1>2, Books, TotalOfPart
<1>7. Total(v, Settlements \ P) = 0
  BY <1>2, <1>4, Books, TotalOfNothing
<1>8. Total(v, P) = Total(credit, P)
  BY <1>1, <1>2, <1>3, Books, TotalSame
<1> QED
  BY <1>5, <1>6, <1>7, <1>8 DEF Paid, P

\* The exposure of the period is what is held.
LEMMA ExposureIs ==
  ASSUME ScreenIInv, Credits \subseteq Nat, phase = "done", closing # "findings"
  PROVE  NetUnresolved({}) = Paid(Held) /\ Paid(Held) \in Int
<1>1. {s \in Of("PROVEN") : s \notin {}} = Of("PROVEN")
  OBVIOUS
<1>2. Verified({}) = Paid(Of("PROVEN"))
  BY <1>1, VerifiedSum
<1>3. Of("PROVEN") \in SUBSET Settlements /\ Settlements \in SUBSET Settlements
  BY DEF Of
<1>4. ValueOf(Settlements) = Paid(Settlements)
  BY <1>3, WorthIsPaid
<1>5. Paid(Settlements) = Paid(Of("PROVEN")) + Paid(Held)
      /\ Paid(Settlements) \in Int /\ Paid(Of("PROVEN")) \in Int
  BY <1>3, PaidApart DEF Held
<1>6. Paid(Held) \in Int
  BY WorthIsPaid DEF Held
<1> QED
  BY <1>2, <1>4, <1>5, <1>6 DEF NetUnresolved

-----------------------------------------------------------------------------
(* Certificate and verdict *)

LEMMA AllowedIsInt ==
  ASSUME ScreenIInv, Credits \subseteq Nat
  PROVE  Allowed \in Int
<1>1. ValueOf(Settlements) \in Int
  BY WorthIsPaid
<1>2. ThresholdBps \in Nat /\ Floor \in Nat /\ Ceiling \in Nat
  BY MaterialityAssumption
<1> DEFINE total == ValueOf(Settlements)
           scaled == (total * ThresholdBps) \div 10000
<1>3. scaled \in Int
  <2> DEFINE x == total * ThresholdBps
  <2>1. x \in Int
    BY <1>1, <1>2
  <2> HIDE DEF x
  <2>2. x \div 10000 \in Int
    BY <2>1
  <2> QED
    BY <2>2 DEF x
<1> HIDE DEF scaled
<1> QED
  BY <1>2, <1>3 DEF Allowed, Allowable, scaled

LEMMA CertificateIsOne ==
  ASSUME ScreenIInv, Credits \subseteq Nat
  PROVE  CertificateAgrees
<1> SUFFICES ASSUME closing = "certified" PROVE CertificateAgrees
  BY DEF CertificateAgrees
<1>1. /\ phase = "done" /\ closing # "findings" /\ BookInv
  BY DEF ScreenIInv, CloseIInv, StageInv
<1>2. /\ certificate.unresolved = NetUnresolved(Withheld)
      /\ certificate.reconciled = Verified(Withheld)
      /\ verdict.unresolved = Unjudged
      /\ Closable => ~Material /\ Withheld = {}
  BY <1>1 DEF BookInv
<1>3. NetUnresolved({}) = ValueOf(Unclaimed) /\ ValueOf(Unclaimed) \in Int
  <2>1. Unclaimed = Held /\ Held \in SUBSET Settlements
    BY <1>1, HeldAre DEF Held
  <2> QED
    BY <1>1, <2>1, ExposureIs, WorthIsPaid
<1>4. Closable => /\ certificate.unresolved = verdict.unresolved
                  /\ certificate.unresolved = ValueOf(Unclaimed)
                  /\ ValueOf(Unclaimed) <= Allowed
  BY <1>2, <1>3, AllowedIsInt DEF Unjudged, Material
<1>5. ValueOf({s \in Settlements : journal[s] = "entry"}) <= certificate.reconciled
  <2> DEFINE E == {s \in Settlements : journal[s] = "entry"}
             P == {s \in Of("PROVEN") : s \notin Withheld}
  <2>1. E \subseteq P
    <3> SUFFICES ASSUME NEW s \in Settlements, journal[s] = "entry" PROVE s \in P
      OBVIOUS
    <3>1. Outcome(s, judgements[s]) = "entry"
      BY <1>1 DEF BookInv
    <3>2. ~Refused(s, judgements[s])
      BY <3>1 DEF Outcome
    <3> QED
      BY <3>2 DEF Refused, Of, Withheld
  <2>2. P \in SUBSET Settlements /\ E \in SUBSET P /\ E \in SUBSET Settlements
    BY <2>1 DEF Of
  <2>3. Verified(Withheld) = Paid(P)
    BY <1>1, VerifiedSum
  <2> HIDE DEF E, P
  <2>4. Paid(P) = Paid(E) + Paid(P \ E) /\ Paid(E) \in Int
    BY <2>2, PaidApart
  <2>5. Paid(P \ E) >= 0 /\ Paid(P \ E) \in Int
    <3>1. \A s \in P \ E : credit[s] >= 0
      BY <2>2, Books
    <3> QED
      BY <2>2, <3>1, Books, TotalIsPositive, TotalStep DEF Paid
  <2>6. ValueOf(E) = Paid(E)
    BY <2>2, WorthIsPaid
  <2> QED
    BY <1>2, <2>3, <2>4, <2>5, <2>6 DEF E
<1> QED
  BY <1>4, <1>5 DEF CertificateAgrees

-----------------------------------------------------------------------------
(* The views *)

GroupNames == {"contradicted", "insufficient", "highValue", "ambiguity"}

\* The group a held settlement is listed under.
GroupName(s) ==
  IF findings[s].verdict = "CONTRADICTED" THEN "contradicted"
  ELSE IF findings[s].verdict = "INSUFFICIENT" THEN "insufficient"
  ELSE IF credit[s] >= HighValue THEN "highValue" ELSE "ambiguity"

LEMMA GroupsAreThose ==
  ASSUME ScreenIInv, Credits \subseteq Nat, phase = "done"
  PROVE  /\ DOMAIN Groups = GroupNames /\ IsFiniteSet(GroupNames)
         /\ \A k \in GroupNames : Groups[k] = {s \in Held : GroupName(s) = k}
<1>1. /\ DOMAIN Groups = GroupNames
      /\ Groups["contradicted"] = Of("CONTRADICTED")
      /\ Groups["insufficient"] = Of("INSUFFICIENT")
      /\ Groups["highValue"] = {s \in Of("AMBIGUOUS") : credit[s] >= HighValue}
      /\ Groups["ambiguity"] = {s \in Of("AMBIGUOUS") : credit[s] < HighValue}
  BY DEF Groups, GroupNames
<1>2. IsFiniteSet(GroupNames)
  <2>1. IsFiniteSet({"contradicted"})
    BY FS_Singleton
  <2>2. IsFiniteSet({"contradicted"} \cup {"insufficient"})
    BY <2>1, FS_AddElement
  <2>3. IsFiniteSet({"contradicted"} \cup {"insufficient"} \cup {"highValue"})
    BY <2>2, FS_AddElement
  <2>4. IsFiniteSet({"contradicted"} \cup {"insufficient"} \cup {"highValue"} \cup {"ambiguity"})
    BY <2>3, FS_AddElement
  <2>5. GroupNames =
          {"contradicted"} \cup {"insufficient"} \cup {"highValue"} \cup {"ambiguity"}
    BY DEF GroupNames
  <2> QED
    BY <2>4, <2>5
<1>3. HighValue \in Nat /\ \A s \in Settlements : credit[s] \in Nat
  BY HighValueAssumption, Books
<1>4. \A s \in Held :
        /\ s \in Settlements
        /\ findings[s].verdict \in {"AMBIGUOUS", "CONTRADICTED", "INSUFFICIENT"}
  BY HeldAre DEF Held
<1>5. Of("CONTRADICTED") \cup Of("INSUFFICIENT") \cup Of("AMBIGUOUS") \subseteq Held
  BY DEF Held, Of
<1>6. {s \in Held : GroupName(s) = "contradicted"} = Of("CONTRADICTED")
  BY <1>4, <1>5 DEF GroupName, Of
<1>7. {s \in Held : GroupName(s) = "insufficient"} = Of("INSUFFICIENT")
  BY <1>4, <1>5 DEF GroupName, Of
<1>8. {s \in Held : GroupName(s) = "highValue"} = {s \in Of("AMBIGUOUS") : credit[s] >= HighValue}
  BY <1>3, <1>4, <1>5 DEF GroupName, Of
<1>9. {s \in Held : GroupName(s) = "ambiguity"} = {s \in Of("AMBIGUOUS") : credit[s] < HighValue}
  BY <1>3, <1>4, <1>5 DEF GroupName, Of
<1>10. \A k \in GroupNames : Groups[k] = {s \in Held : GroupName(s) = k}
  BY <1>1, <1>6, <1>7, <1>8, <1>9 DEF GroupNames
<1> QED
  BY <1>1, <1>2, <1>10

\* What attention lists, as so many items and so much money, is what is held.
LEMMA AttentionIs ==
  ASSUME ScreenIInv, Credits \subseteq Nat, phase = "done"
  PROVE  Attention.total = Paid(Held) /\ Attention.items = Cardinality(Held)
<1>1. PICK key \in [Held -> GroupNames] : \A s \in Held : key[s] = GroupName(s)
  <2>1. [s \in Held |-> GroupName(s)] \in [Held -> GroupNames]
    BY DEF GroupName, GroupNames
  <2> QED
    BY <2>1
<1>2. \A k \in GroupNames : Groups[k] = {s \in Held : key[s] = k}
  BY <1>1, GroupsAreThose
<1>3. /\ DOMAIN Groups = GroupNames /\ IsFiniteSet(GroupNames)
      /\ Held \in SUBSET Settlements /\ IsFiniteSet(Settlements)
      /\ credit \in [Settlements -> Int]
  BY GroupsAreThose, Books DEF Held
<1>4. Attention.total = Paid(Held)
  <2> DEFINE sub == [k \in GroupNames |-> Paid(Groups[k])]
  <2>1. \A k \in GroupNames : Groups[k] \in SUBSET Settlements
    BY <1>2, <1>3
  <2>2. sub \in [GroupNames -> Int]
    BY <2>1, WorthIsPaid
  <2>3. \A k \in GroupNames : sub[k] = Total(credit, {s \in Held : key[s] = k})
    BY <1>2 DEF Paid
  <2>4. Attention.total = Total(sub, GroupNames)
    BY <1>3 DEF Attention
  <2> HIDE DEF sub
  <2>5. Total(sub, GroupNames) = Total(credit, Held)
    BY <1>3, <2>2, <2>3, TotalByKey
  <2> QED
    BY <2>4, <2>5 DEF Paid
<1>5. Attention.items = Cardinality(Held)
  <2> DEFINE sub == [k \in GroupNames |-> Cardinality(Groups[k])]
  <2>1. \A k \in GroupNames : IsFiniteSet(Groups[k]) /\ Groups[k] \in SUBSET Settlements
    BY <1>2, <1>3, FS_Subset
  <2>2. sub \in [GroupNames -> Int]
    BY <2>1, FS_CardinalityType
  <2>3. PICK one \in [Settlements -> Int] : \A s \in Settlements : one[s] = 1
    <3>1. [s \in Settlements |-> 1] \in [Settlements -> Int]
      OBVIOUS
    <3> QED
      BY <3>1
  <2>4. \A k \in GroupNames : sub[k] = Total(one, {s \in Held : key[s] = k})
    <3> SUFFICES ASSUME NEW k \in GroupNames
                 PROVE  sub[k] = Total(one, {s \in Held : key[s] = k})
      OBVIOUS
    <3>1. sub[k] = Cardinality(Groups[k])
      OBVIOUS
    <3>2. Total(one, Groups[k]) = Cardinality(Groups[k])
      BY <1>3, <2>1, <2>3, TotalCounts
    <3> QED
      BY <1>2, <3>1, <3>2
  <2>5. Attention.items = Total(sub, GroupNames)
    BY <1>3 DEF Attention
  <2> HIDE DEF sub
  <2>6. Total(sub, GroupNames) = Total(one, Held)
    BY <1>3, <2>2, <2>4, TotalByKey
  <2>7. Total(one, Held) = Cardinality(Held)
    BY <1>3, <2>3, TotalCounts
  <2> QED
    BY <2>5, <2>6, <2>7
<1> QED
  BY <1>4, <1>5

\* The actions of the plan, apart from proofs to widen, are worth what is held.
LEMMA PlanIs ==
  ASSUME ScreenIInv, Credits \subseteq Nat, phase = "done", closing # "findings"
  PROVE  Total([r \in DOMAIN Plan |-> Plan[r].value], DOMAIN Plan \ {"SEARCH_SPACE_UNCERTAIN"})
           = Paid(Held)
<1> DEFINE R == {exceptions[s].reason : s \in Raised}
           K == R \ {"SEARCH_SPACE_UNCERTAIN"}
           value == [r \in R |-> Paid(Because(r))]
<1>1. Raised = Settlements
  <2>1. \A s \in Settlements : exceptions[s].reason # "none"
    BY DEF ScreenIInv, CloseIInv, StageInv
  <2> QED
    BY <2>1 DEF Raised, NoException
<1>2. \A s \in Settlements :
        findings[s].verdict = "PROVEN" <=> exceptions[s].reason = "SEARCH_SPACE_UNCERTAIN"
  BY DEF ScreenIInv, BookInv, Classified
<1>3. IsFiniteSet(Settlements) /\ credit \in [Settlements -> Int] /\ Held \in SUBSET Settlements
  BY Books DEF Held
<1>4. IsFiniteSet(R)
  <2>1. R = {exceptions[s].reason : s \in Settlements}
    BY <1>1
  <2>2. PICK f : \A s \in Settlements : f[s] = exceptions[s].reason
    <3>1. \A s \in Settlements : [t \in Settlements |-> exceptions[t].reason][s] = exceptions[s].reason
      OBVIOUS
    <3> QED
      BY <3>1
  <2>3. IsFiniteSet({f[s] : s \in Settlements})
    BY <1>3, ImageIsFinite
  <2>4. R = {f[s] : s \in Settlements}
    BY <2>1, <2>2
  <2> QED
    BY <2>3, <2>4
<1>5. K \in SUBSET R /\ IsFiniteSet(K)
  BY <1>4, FS_Subset
<1>6. \A r \in R : Because(r) \in SUBSET Settlements
  BY <1>1 DEF Because
<1>7. value \in [R -> Int]
  BY <1>6, WorthIsPaid
<1>8. PICK key \in [Held -> K] : \A s \in Held : key[s] = exceptions[s].reason
  <2>1. \A s \in Held : exceptions[s].reason \in K
    BY <1>1, <1>2 DEF Held, Of
  <2>2. [s \in Held |-> exceptions[s].reason] \in [Held -> K]
    BY <2>1
  <2> HIDE DEF K
  <2> QED
    BY <2>2
<1>9. PICK sub \in [K -> Int] : \A r \in K : sub[r] = value[r]
  <2>1. [r \in K |-> value[r]] \in [K -> Int]
    BY <1>5, <1>7
  <2> HIDE DEF K, value
  <2> QED
    BY <2>1
<1>10. \A r \in K : sub[r] = Total(credit, {s \in Held : key[s] = r})
  <2> SUFFICES ASSUME NEW r \in K PROVE sub[r] = Total(credit, {s \in Held : key[s] = r})
    OBVIOUS
  <2>1. Because(r) = {s \in Held : key[s] = r}
    <3>1. r # "SEARCH_SPACE_UNCERTAIN"
      OBVIOUS
    <3>2. Because(r) = {s \in Settlements : exceptions[s].reason = r}
      BY <1>1 DEF Because
    <3>3. \A s \in Settlements : exceptions[s].reason = r => s \in Held
      BY <1>2, <3>1 DEF Held, Of
    <3> QED
      BY <1>3, <1>8, <3>2, <3>3
  <2>2. sub[r] = Paid(Because(r))
    BY <1>5, <1>9
  <2> QED
    BY <2>1, <2>2 DEF Paid
<1>11. Total(sub, K) = Paid(Held)
  <2> HIDE DEF K
  <2> QED
    BY <1>3, <1>5, <1>10, TotalByKey DEF Paid
<1>12. Total(value, K) = Total(sub, K)
  <2> HIDE DEF K, R, value
  <2> QED
    BY <1>4, <1>5, <1>7, <1>9, TotalSame
<1>13. DOMAIN Plan = R /\ [r \in DOMAIN Plan |-> Plan[r].value] = value
  BY DEF Plan
<1> QED
  BY <1>11, <1>12, <1>13

LEMMA ExportIs ==
  ASSUME ScreenIInv, Credits \subseteq Nat
  PROVE  /\ DOMAIN ExportRows = Held
         /\ Total([s \in DOMAIN ExportRows |-> ExportRows[s].amount], DOMAIN ExportRows)
              = Paid(Held)
<1>1. DOMAIN ExportRows = Held /\ \A s \in Held : ExportRows[s].amount = credit[s]
  BY DEF ExportRows, Held
<1> DEFINE v == [s \in Held |-> ExportRows[s].amount]
<1>2. /\ Held \in SUBSET Settlements /\ IsFiniteSet(Settlements) /\ IsFiniteSet(Held)
      /\ credit \in [Settlements -> Int]
  BY Books, FS_Subset DEF Held
<1>3. v \in [Held -> Int] /\ \A s \in Held : v[s] = credit[s]
  BY <1>1, <1>2
<1> HIDE DEF v
<1>4. Total(v, Held) = Total(credit, Held)
  BY <1>2, <1>3, TotalSame
<1> QED
  BY <1>1, <1>4 DEF Paid, v

LEMMA HeldIsNamed ==
  ASSUME ScreenIInv, Credits \subseteq Nat, phase = "done", closing # "findings"
  PROVE  HeldMoneyIsNamed
<1>1. /\ Attention.total = Paid(Held) /\ Attention.items = Cardinality(Held)
      /\ Proven = Of("PROVEN") /\ Unclaimed = Held /\ Held \in SUBSET Settlements
  BY AttentionIs, HeldAre DEF Held
<1>2. /\ Spine.heldAtVerification = Paid(Settlements) - Paid(Proven)
      /\ Spine.proven = Paid(Proven)
  BY DEF Spine
<1>3. Paid(Settlements) - Paid(Proven) = Paid(Held)
  <2>1. Of("PROVEN") \in SUBSET Settlements /\ Settlements \in SUBSET Settlements
    BY DEF Of
  <2>2. /\ Paid(Settlements) = Paid(Of("PROVEN")) + Paid(Held)
        /\ Paid(Settlements) \in Int /\ Paid(Of("PROVEN")) \in Int
    BY <2>1, PaidApart DEF Held
  <2>3. Paid(Held) \in Int
    BY <1>1, WorthIsPaid
  <2> QED
    BY <1>1, <2>2, <2>3
<1>4. Summary.money["PROVEN"] = Paid(Of("PROVEN"))
  BY DEF Summary, Verdicts
<1>5. ValueOf(Unclaimed) = Paid(Held)
  BY <1>1, WorthIsPaid
<1> QED
  BY <1>1, <1>2, <1>3, <1>4, <1>5, ExportIs, PlanIs DEF HeldMoneyIsNamed

\* What a settlement that posts has behind it.
LEMMA PostingIs ==
  ASSUME ScreenIInv, NEW s \in Posting
  PROVE  /\ s \in Settlements /\ findings[s].verdict = "PROVEN" /\ Postable(findings[s])
         /\ judgements[s] = "AUTO_POST" /\ findings[s].exhaustive
         /\ \E p : /\ findings[s].proofs = {p} /\ Cited(s) = p
                   /\ KernelAccepts(net, p, credit[s])
<1>1. /\ s \in Settlements /\ findings[s].verdict = "PROVEN" /\ Postable(findings[s])
      /\ judgements[s] = "AUTO_POST"
  BY DEF Posting, Proven
<1>2. findings[s].exhaustive
  BY <1>1 DEF ScreenIInv, SoundInv, Sound
<1>3. Faithful(findings[s], net, credit[s])
  BY <1>1 DEF ScreenIInv, SearchInv
<1>4. PICK p \in findings[s].proofs :
        findings[s].proofs = {p} /\ KernelAccepts(net, p, credit[s])
  BY <1>1, <1>3 DEF Faithful
<1>5. Cited(s) = p
  BY <1>4 DEF Cited
<1> QED
  BY <1>1, <1>2, <1>4, <1>5

LEMMA LossIsInt ==
  ASSUME NEW price \in Prices, NEW amount \in Int
  PROVE  ExpectedLoss(price, amount) \in Int
<1>1. price \in Int /\ WrongPostFixed \in Int /\ WrongPostBps \in Int
  BY PostingAssumption
<1> DEFINE a == amount * WrongPostBps
<1>2. a \in Int
  BY <1>1
<1> HIDE DEF a
<1>3. WrongPostFixed + a \div 10000 \in Int
  BY <1>1, <1>2
<1>4. WrongPost(amount) \in Int
  BY <1>3 DEF WrongPost, a
<1> DEFINE b == price * WrongPost(amount)
<1>5. b \in Int
  BY <1>1, <1>4
<1> HIDE DEF b
<1>6. -((-b) \div 1000) \in Int
  BY <1>5
<1> QED
  BY <1>6 DEF ExpectedLoss, b

\* A decision is to post exactly when every gate shown for it is passed.
LEMMA GatesDecide ==
  ASSUME ScreenIInv, Credits \subseteq Nat, NEW s \in Settlements,
         NEW price \in Prices \cup {Unmeasured},
         Judge(s, price) = judgements[s], ~DecisionRaises(s, price)
  PROVE  s \in Posting <=> \A g \in DOMAIN Gates(s, price) : Gates(s, price)[g]
<1> DEFINE G == Gates(s, price)
<1>1. /\ DOMAIN G = {"unique", "kernel", "space", "loss", "exposure"}
      /\ G["unique"] = (findings[s].verdict = "PROVEN")
      /\ G["kernel"] = (findings[s].verdict = "PROVEN")
      /\ G["space"] = (s \in Proven)
      /\ G["loss"] = (s \in Proven /\ ExpectedLoss(price, credit[s]) < ReviewCost)
      /\ G["exposure"] = (credit[s] <= MaxExposure)
  BY DEF Gates
<1> HIDE DEF G
<1>2. s \in Proven <=> findings[s].verdict = "PROVEN"
  BY DEF ScreenIInv, CloseIInv, ProvenPosts, Proven
<1>3. CASE findings[s].verdict # "PROVEN"
  <2>1. s \notin Posting
    BY <1>2, <1>3 DEF Posting
  <2>2. ~G["unique"] /\ "unique" \in DOMAIN G
    BY <1>1, <1>3
  <2> QED
    BY <2>1, <2>2 DEF G
<1>4. CASE findings[s].verdict = "PROVEN"
  <2>1. price # Unmeasured /\ price \in Prices
    BY <1>4 DEF DecisionRaises
  <2>2. credit[s] \in Int /\ MaxExposure \in Int /\ ReviewCost \in Int
        /\ ExpectedLoss(price, credit[s]) \in Int
    BY <2>1, Books, LossIsInt, PostingAssumption
  <2>3. judgements[s] = "AUTO_POST" <=>
          ~(credit[s] > MaxExposure) /\ ~(ExpectedLoss(price, credit[s]) >= ReviewCost)
    BY <1>4, <2>1 DEF Judge, Judgement
  <2>4. s \in Posting <=> judgements[s] = "AUTO_POST"
    BY <1>2, <1>4 DEF Posting
  <2>5. (\A g \in DOMAIN G : G[g]) <=>
          credit[s] <= MaxExposure /\ ExpectedLoss(price, credit[s]) < ReviewCost
    BY <1>1, <1>2, <1>4
  <2> QED
    BY <2>2, <2>3, <2>4, <2>5 DEF G
<1> QED
  BY <1>3, <1>4

\* What is said to be priced is not, and nothing of it posts.
LEMMA UnpricedDoesNotPost ==
  ASSUME ScreenIInv, NEW s \in Settlements, NEW price \in Prices \cup {Unmeasured},
         Judge(s, price) = judgements[s], Dock(s, price).policy = "unpriced"
  PROVE  s \notin Posting
<1>1. findings[s].verdict # "PROVEN" \/ price = Unmeasured
  BY DEF Dock, Judge, Judgement
<1>2. judgements[s] # "AUTO_POST"
  BY <1>1 DEF Judge, Judgement
<1> QED
  BY <1>2 DEF Posting

LEMMA PostedIsPermitted ==
  ASSUME ScreenIInv, Credits \subseteq Nat, phase = "done", Shown
  PROVE  PostedAsPermitted
<1>0. /\ closing \in {"judged", "decided", "certified"}
      /\ \/ \A s \in Settlements : journal[s] = "unwritten"
         \/ \A s \in Settlements : journal[s] = "lost"
         \/ \A s \in Settlements :
              journal[s] = Outcome(s, judgements[s]) /\ journal[s] \in {"entry", "refused"}
  BY DEF Shown, ScreenIInv, BookInv
<1>1. Summary.decisions["AUTO_POST"] = Posting
  <2>1. Summary.decisions["AUTO_POST"] = {s \in Settlements : judgements[s] = "AUTO_POST"}
    BY DEF Summary
  <2>2. \A s \in Settlements : judgements[s] = "AUTO_POST" => findings[s].verdict = "PROVEN"
    BY <1>0 DEF ScreenIInv, BookInv, Judge, Judgement
  <2> QED
    BY <2>1, <2>2 DEF Posting, Proven, ScreenIInv, CloseIInv, ProvenPosts
<1>2. ASSUME NEW s \in Posting
      PROVE  /\ StoppedAt(s) = "none" /\ Row(s) = "holds"
             /\ \A line \in DOMAIN Issue(s) : Issue(s)[line]
  <2>1. PICK p : /\ findings[s].proofs = {p} /\ Cited(s) = p
                 /\ KernelAccepts(net, p, credit[s])
    BY PostingIs
  <2>2. /\ findings[s].verdict = "PROVEN" /\ findings[s].exhaustive
        /\ findings[s].space.members # {}
    BY PostingIs DEF Postable
  <2>3. StoppedAt(s) = "none"
    BY <2>2 DEF StoppedAt, Posting
  <2>4. Row(s) = "holds"
    BY <2>2 DEF Row
  <2>5. \E q \in findings[s].proofs : Fits(net, q, credit[s])
    BY <2>1 DEF KernelAccepts
  <2>6. \A line \in DOMAIN Issue(s) : Issue(s)[line]
    <3>1. /\ DOMAIN Issue(s) = {"amount", "space", "uniqueness", "exhaustive", "kernel"}
          /\ Issue(s)["amount"] = (\E q \in findings[s].proofs : Fits(net, q, credit[s]))
          /\ Issue(s)["space"] = TRUE
          /\ Issue(s)["uniqueness"] = (findings[s].verdict = "PROVEN")
          /\ Issue(s)["exhaustive"] = findings[s].exhaustive
          /\ Issue(s)["kernel"] = (findings[s].proofs # {})
      BY DEF Issue
    <3>2. /\ Issue(s)["amount"] /\ Issue(s)["space"] /\ Issue(s)["uniqueness"]
          /\ Issue(s)["exhaustive"] /\ Issue(s)["kernel"]
      BY <2>1, <2>2, <2>5, <3>1
    <3> QED
      BY <3>1, <3>2
  <2> QED
    BY <2>3, <2>4, <2>6
<1>3. ASSUME NEW s \in Settlements, journal[s] \in {"entry", "refused"}
      PROVE  /\ journal[s] = Outcome(s, judgements[s])
             /\ journal[s] = "entry" <=> s \in Posting
  <2>1. journal[s] = Outcome(s, judgements[s])
    BY <1>0, <1>3
  <2>2. ASSUME journal[s] = "entry" PROVE s \in Posting
    BY <2>1, <2>2 DEF Outcome, Refused, Posting, Proven
  <2>3. ASSUME s \in Posting PROVE journal[s] = "entry"
    <3>1. ~Refused(s, judgements[s])
      BY <2>3, PostingIs DEF Refused
    <3> QED
      BY <1>3, <2>1, <3>1 DEF Outcome
  <2> QED
    BY <2>1, <2>2, <2>3
<1>4. ASSUME NEW s \in Settlements, journal[s] \in {"entry", "refused"}
      PROVE  /\ journal[s] = "entry" <=> ControlLoop(s).acted
             /\ journal[s] = "entry" <=> Activity(s).ledger = "LEDGER UPDATED"
  <2>1. ControlLoop(s).acted = (Outcome(s, judgements[s]) = "entry")
    BY DEF ControlLoop
  <2>2. Activity(s).ledger = IF s \in Posting THEN "LEDGER UPDATED" ELSE "LEDGER UNCHANGED"
    BY DEF Activity
  <2> QED
    BY <1>3, <1>4, <2>1, <2>2
<1>5. ASSUME Written
      PROVE  /\ JournalTotals.posted = Spine.posted
             /\ JournalTotals.posted + JournalTotals.refused = Spine.received
  <2> DEFINE E == {s \in Settlements : journal[s] = "entry"}
             R == {s \in Settlements : journal[s] = "refused"}
  <2>1. \A s \in Settlements : journal[s] \in {"entry", "refused"}
    BY <1>0, <1>5 DEF Written
  <2>2. E = Posting
    BY <1>3, <2>1 DEF Posting, Proven
  <2>3. R = Settlements \ E /\ E \in SUBSET Settlements /\ Settlements \in SUBSET Settlements
    BY <2>1
  <2>4. /\ JournalTotals.posted = Paid(E) /\ JournalTotals.refused = Paid(R)
        /\ Spine.posted = Paid(Posting) /\ Spine.received = Paid(Settlements)
    BY DEF JournalTotals, Spine
  <2> HIDE DEF E, R
  <2>5. Paid(Settlements) = Paid(E) + Paid(Settlements \ E)
    BY <2>3, PaidApart
  <2> QED
    BY <2>2, <2>3, <2>4, <2>5
<1>6. \A s \in Settlements :
        /\ \A price \in Prices \cup {Unmeasured} :
             Judge(s, price) = judgements[s] /\ ~DecisionRaises(s, price) =>
               (s \in Posting <=> \A g \in DOMAIN Gates(s, price) : Gates(s, price)[g])
        /\ \A price \in Prices \cup {Unmeasured} :
             Judge(s, price) = judgements[s] /\ Dock(s, price).policy = "unpriced" =>
               s \notin Posting
  BY GatesDecide, UnpricedDoesNotPost
<1> QED
  BY <1>1, <1>2, <1>4, <1>5, <1>6 DEF PostedAsPermitted

\* The dispute of an ambiguous settlement is the same wherever it is shown.
LEMMA DisputesAreShown ==
  ASSUME ScreenIInv, Credits \subseteq Nat, phase = "done", closing # "findings"
  PROVE  DisputeIsShown
<1> SUFFICES ASSUME NEW s \in Of("AMBIGUOUS")
             PROVE  LET inDispute == UNION {e.unique : e \in ExplanationsOf(s)}
                    IN  /\ inDispute # {}
                        /\ ControlLoop(s).contested = exceptions[s].unexplained
                        /\ Total(net, inDispute) = exceptions[s].unexplained
                        /\ ExportRows[s].contested = inDispute
                        /\ EvidenceRequest(s).ask = "reference" /\ Row(s) = "not unique"
                        /\ EvidenceRequest(s).contested = inDispute
                        /\ ControlLoop(s).agreed <=
                             credit[s] + Tolerance(Cardinality(Orders))
  BY DEF DisputeIsShown
<1> DEFINE f == findings[s]
           shared == Common(f)
           inDispute == UNION {e.unique : e \in ExplanationsOf(s)}
<1>1. s \in Settlements /\ f.verdict = "AMBIGUOUS"
  BY DEF Of
<1>2. PICK p, q \in f.proofs : p # q
  BY <1>1 DEF ScreenIInv, SoundInv, Sound
<1>3. /\ f.proofs \subseteq SUBSET Orders
      /\ \A r \in f.proofs : r \subseteq f.space.members /\ Fits(net, r, credit[s])
      /\ Affordable(net, f.space.members, credit[s]) = f.space.members
  <2>1. f \in FindingType
    BY <1>1 DEF ScreenIInv, EngineOK
  <2>2. Sound(f, net, credit[s]) /\ Faithful(f, net, credit[s])
    BY <1>1 DEF ScreenIInv, SoundInv, SearchInv
  <2> HIDE DEF f
  <2>3. f.proofs \subseteq SUBSET Orders
    BY <2>1 DEF FindingType
  <2> QED
    BY <1>1, <2>2, <2>3 DEF Sound, Faithful
<1>4. shared = {o \in Orders : \A r \in f.proofs : o \in r}
  BY <1>2 DEF Common
<1>5. inDispute = UNION {r \ shared : r \in f.proofs}
  <2> HIDE DEF f
  <2>1. ExplanationsOf(s) =
          {[unique |-> r \ shared, shared |-> Cardinality(r \cap shared)] : r \in f.proofs}
    BY <1>1 DEF ExplanationsOf, f
  <2> HIDE DEF shared
  <2>2. ASSUME NEW e \in ExplanationsOf(s) PROVE \E r \in f.proofs : e.unique = r \ shared
    <3>1. PICK r \in f.proofs :
            e = [unique |-> r \ shared, shared |-> Cardinality(r \cap shared)]
      BY <2>1, <2>2
    <3>2. e.unique = r \ shared
      BY <3>1
    <3> QED
      BY <3>2
  <2>3. ASSUME NEW r \in f.proofs PROVE \E e \in ExplanationsOf(s) : e.unique = r \ shared
    <3>1. [unique |-> r \ shared, shared |-> Cardinality(r \cap shared)] \in ExplanationsOf(s)
      BY <2>1
    <3> QED
      BY <3>1
  <2> QED
    BY <2>2, <2>3
<1>6. inDispute = Disputed(f)
  <2>1. Disputed(f) = (UNION f.proofs) \ shared
    BY <1>4 DEF Disputed
  <2> HIDE DEF f, shared, inDispute
  <2> QED
    BY <1>5, <2>1
<1>7. inDispute # {}
  <2>1. PICK o \in Orders : (o \in p /\ o \notin q) \/ (o \in q /\ o \notin p)
    BY <1>2, <1>3
  <2>2. o \notin shared
    BY <1>2, <1>4, <2>1
  <2> HIDE DEF f, shared, inDispute
  <2> QED
    BY <1>2, <1>5, <2>1, <2>2
<1>8. exceptions[s].unexplained = Total(net, Disputed(f))
  BY <1>1 DEF ScreenIInv, BookInv, Classified
<1>9. ControlLoop(s).contested = Total(net, Disputed(f)) /\ ControlLoop(s).agreed = Total(net, shared)
  BY DEF ControlLoop
<1>10. ExportRows[s].contested = Disputed(f)
  BY <1>1 DEF ExportRows, Of
<1>11. /\ EvidenceRequest(s).contested = Disputed(f)
       /\ EvidenceRequest(s).ask = "reference" /\ Row(s) = "not unique"
  <2>1. Disputed(f) # {} /\ f.proofs # {}
    BY <1>2, <1>6, <1>7
  <2> QED
    BY <1>1, <2>1 DEF EvidenceRequest, Row
<1>12. Total(net, shared) <= credit[s] + Tolerance(Cardinality(Orders))
  <2>1. net \in [Orders -> Int] /\ IsFiniteSet(Orders) /\ credit[s] \in Int
    BY <1>1, Books, SubsetSumAssumption
  <2>2. p \in SUBSET Orders /\ shared \in SUBSET p
    BY <1>2, <1>3, <1>4
  <2>3. \A o \in p : net[o] >= 0
    <3>1. \A o \in p : o \in Affordable(net, f.space.members, credit[s])
      BY <1>2, <1>3
    <3> HIDE DEF f
    <3>2. \A o \in p : 0 < net[o] /\ net[o] \in Int
      BY <2>1, <2>2, <3>1 DEF Affordable
    <3> QED
      BY <3>2
  <2>4. Fits(net, p, credit[s])
    BY <1>2, <1>3
  <2> HIDE DEF f, shared
  <2>5. /\ Total(net, p) = Total(net, shared) + Total(net, p \ shared)
        /\ Total(net, p) \in Int /\ Total(net, shared) \in Int /\ Total(net, p \ shared) \in Int
    BY <2>1, <2>2, TotalOfPart
  <2>6. Total(net, p \ shared) >= 0
    BY <2>1, <2>2, <2>3, TotalIsPositive
  <2>7. /\ Cardinality(p) <= Cardinality(Orders)
        /\ Cardinality(p) \in Nat /\ Cardinality(Orders) \in Nat
    BY <2>1, <2>2, FS_Subset, FS_CardinalityType
  <2>8. Total(net, p) <= credit[s] + Cardinality(p)
    BY <2>1, <2>4, <2>5, <2>7 DEF Fits, Residual, Magnitude, Tolerance
  <2> QED
    BY <2>1, <2>5, <2>6, <2>7, <2>8 DEF Tolerance
<1> HIDE DEF f, shared, inDispute
<1>13. /\ inDispute # {}
       /\ ControlLoop(s).contested = exceptions[s].unexplained
       /\ Total(net, inDispute) = exceptions[s].unexplained
       /\ ExportRows[s].contested = inDispute
       /\ EvidenceRequest(s).ask = "reference" /\ Row(s) = "not unique"
       /\ EvidenceRequest(s).contested = inDispute
       /\ ControlLoop(s).agreed <= credit[s] + Tolerance(Cardinality(Orders))
  BY <1>6, <1>7, <1>8, <1>9, <1>10, <1>11, <1>12
<1> QED
  BY <1>13 DEF inDispute

\* However the book, the prices and the bounds are, as long as payouts are
\* amounts received: verdict, certificate and journal give one figure, and the
\* views of the run agree with them and among themselves.
THEOREM OneSetOfFigures ==
  ASSUME Credits \subseteq Nat
  PROVE  CloseSpec => []FiguresOfTheRunAgree
<1>1. ScreenIInv => FiguresOfTheRunAgree
  <2> SUFFICES ASSUME ScreenIInv PROVE FiguresOfTheRunAgree
    OBVIOUS
  <2>1. CertificateAgrees
    BY CertificateIsOne
  <2>2. Shown => phase = "done" /\ closing # "findings"
    BY DEF Shown, ScreenIInv, CloseIInv, StageInv
  <2> QED
    BY <2>1, <2>2, HeldIsNamed, PostedIsPermitted, DisputesAreShown DEF FiguresOfTheRunAgree
<1> QED
  BY <1>1, ScreenInvariant, PTL
=============================================================================
