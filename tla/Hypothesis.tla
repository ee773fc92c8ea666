------------------------------ MODULE Hypothesis ------------------------------
(***************************************************************************)
(* The hypothesis loop, attest/hypothesis.py: a proposer that sees no      *)
(* amount names orders it believes were settled together, and the anchor   *)
(* is tested against the explanations the engine listed for an ambiguous   *)
(* settlement.  Proposers: the deterministic batch_proposer and the model  *)
(* of attest/advisors.py, which may name anything.                         *)
(***************************************************************************)
EXTENDS Cascade
Seqs == INSTANCE SequencesExt

CONSTANTS
  Ghosts,       \* ids a model may cite that no record carries
  MaxRounds     \* MAX_ROUNDS, 3

ASSUME HypothesisAssumption == MaxRounds \in Nat /\ Ghosts \cap Orders = {}

VARIABLES
  subject,      \* the settlement investigated
  loop,         \* "idle", "running", "done"
  round,
  tried,        \* Evidence.tried: anchors refuted
  rejected,     \* Evidence.rejected: orders the refutations named
  anchor,       \* the anchor that settled it, on the trail
  proposed      \* the finding investigate returns

loopvars == <<subject, loop, round, tried, rejected, anchor, proposed>>

\* The engine has not been asked: subject is any settlement.
LoopInit ==
  /\ subject \in Settlements
  /\ loop = "idle" /\ round = 0 /\ tried = {} /\ rejected = {}
  /\ anchor = {} /\ proposed = Undecided

-----------------------------------------------------------------------------
(* falsify *)

Listed == findings[subject].proofs
Candidates == findings[subject].space.members

Containing(names, proofs) == {p \in proofs : names \subseteq p}

Mut_Accepts(names, proofs) ==    \* the first of those that contain it
  IF names \subseteq Candidates
  THEN {p \in Containing(names, proofs) : KernelAccepts(net, p, credit[subject])}
  ELSE {}

\* The explanations an anchor leaves standing.  It is refuted unless they are
\* exactly one, and the kernel accepts that one.
Accepts(names, proofs) ==
  IF names \subseteq Candidates /\ Cardinality(Containing(names, proofs)) = 1
  THEN {p \in Containing(names, proofs) : KernelAccepts(net, p, credit[subject])}
  ELSE {}

\* The orders a refutation names: the ghosts, or the whole anchor when no
\* explanation contains it, or none when several do.
Ruled(names, proofs) ==
  IF ~(names \subseteq Candidates) THEN names \ Candidates
  ELSE IF Containing(names, proofs) = {} THEN names
  ELSE {}

-----------------------------------------------------------------------------
(* Proposers.  A proposal is the sequence of anchors offered in one round.   *)

\* _hypotheses: one anchor of two to four ids, or silence, which is also what
\* an advisor that cannot be reached answers.
ModelProposals ==
  {<<>>} \cup {<<names>> : names \in {S \in SUBSET (Candidates \cup Ghosts) :
                                        Cardinality(S) \in 2 .. 4}}

CapturedOn(d) == {o \in Candidates : capturedOn[o] = d}

\* The three first ids of a day: Position numbers the ids as they sort.
FirstThree(S) == {o \in S : Cardinality({p \in S : Position[p] < Position[o]}) < 3}

\* Days with a batch whose anchor was not refuted, the densest first.
Batches ==
  {d \in {capturedOn[o] : o \in Candidates} :
     Cardinality(CapturedOn(d)) >= 2 /\ FirstThree(CapturedOn(d)) \notin tried}

Denser(d, e) ==
  \/ Cardinality(CapturedOn(d)) > Cardinality(CapturedOn(e))
  \/ Cardinality(CapturedOn(d)) = Cardinality(CapturedOn(e)) /\ d < e

\* batch_proposer: at most two anchors, and silence once any order was ruled
\* out.
BatchProposal ==
  IF rejected # {} THEN <<>>
  ELSE LET days == Seqs!SetToSortSeq({d \in Batches : Cardinality({e \in Batches : Denser(e, d)}) < 2},
                                Denser)
       IN  [k \in DOMAIN days |-> FirstThree(CapturedOn(days[k]))]

-----------------------------------------------------------------------------
(* investigate *)

\* Only an abstention is investigated: every other finding is returned as it
\* is.
Investigate ==
  /\ phase = "done" /\ loop = "idle"
  /\ findings[subject].verdict # "UNDECIDED"
  /\ proposed' = findings[subject]
  /\ loop' = IF findings[subject].verdict = "AMBIGUOUS" /\ MaxRounds > 0
             THEN "running" ELSE "done"
  /\ round' = 1
  /\ UNCHANGED <<subject, tried, rejected, anchor, vars>>

Mut_Promoted(f, proof) ==        \* the finding keeps the space of the search
  [f EXCEPT !.verdict = "PROVEN", !.proofs = {proof}, !.layer = "L3-dp+anchor"]

\* The finding an accepted anchor makes: rebuilt without a search space.
Promoted(f, proof) ==
  [f EXCEPT !.verdict = "PROVEN", !.proofs = {proof}, !.layer = "L3-dp+anchor",
            !.space = EmptySpace, !.core = FALSE]

\* The hypotheses of a proposal that have not been refuted before.
Fresh(proposal) == {k \in DOMAIN proposal : proposal[k] \notin tried}

Accepted(proposal) ==
  {k \in Fresh(proposal) : Accepts(proposal[k], Listed) # {}}

\* The first fresh anchor that settles it ends the loop.
Accept(proposal) ==
  /\ Accepted(proposal) # {}
  /\ anchor' = proposal[Sets!Min(Accepted(proposal))]
  /\ \E p \in Accepts(anchor', Listed) : proposed' = Promoted(proposed, p)
  /\ loop' = "done"
  /\ UNCHANGED <<round, tried, rejected>>

\* Silence, or nothing but what was refuted already, or the last round: the
\* verdict stands.
Abstain(proposal) ==
  /\ Accepted(proposal) = {}
  /\ Fresh(proposal) = {} \/ round = MaxRounds
  /\ loop' = "done"
  /\ UNCHANGED <<round, tried, rejected, anchor, proposed>>

\* Another round.  All that was offered is marked as tried; only the last
\* refutation says which orders it ruled out.
Refute(proposal) ==
  /\ Accepted(proposal) = {}
  /\ Fresh(proposal) # {} /\ round < MaxRounds
  /\ tried' = tried \cup {proposal[k] : k \in DOMAIN proposal}
  /\ rejected' = rejected \cup Ruled(proposal[Sets!Max(Fresh(proposal))], Listed)
  /\ round' = round + 1
  /\ UNCHANGED <<loop, anchor, proposed>>

Round(proposal) ==
  /\ loop = "running"
  /\ Accept(proposal) \/ Abstain(proposal) \/ Refute(proposal)
  /\ UNCHANGED <<subject, vars>>

AskModel == \E proposal \in ModelProposals : Round(proposal)
AskBatch == Round(BatchProposal)

-----------------------------------------------------------------------------
(* Properties *)

\* An anchor only chooses among explanations arithmetic validated (falsify:
\* "never beyond them").  What the loop promotes is listed and holds the anchor;
\* when the list is complete, every other set of candidates that fits the
\* credit and holds the anchor is a listed explanation with orders added to it:
\* the one promoted, or one the anchor is not in.
AnchorsOnlyChoose ==
  (loop = "done" /\ proposed # findings[subject]) =>
    /\ \E p \in Listed : proposed.proofs = {p} /\ anchor \subseteq p
    /\ proposed.exhaustive =>
         \A S \in SUBSET Candidates :
           (anchor \subseteq S /\ InReach(net, Candidates, S, credit[subject])) =>
              \E q \in Listed : q \subseteq S /\ ({q} = proposed.proofs \/ ~(anchor \subseteq q))
=============================================================================
