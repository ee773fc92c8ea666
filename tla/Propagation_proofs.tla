-------------------------- MODULE Propagation_proofs --------------------------
(***************************************************************************)
(* What propagation may not do, for every book, every number of settlements  *)
(* and every bound on rounds: post, unpost, move a claim, or rule out what   *)
(* may still be true.  The packing layer runs beside it and, seen from the   *)
(* findings, only names cores, so all of this holds with it in place.  Of    *)
(* the packing itself: what the groups return apart is a best packing of the *)
(* whole book, and a forced pick has no rival in it.                         *)
(***************************************************************************)
EXTENDS Packing, Cascade_proofs

\* The cascade's invariant survives the rounds because they change findings
\* that claim nothing into findings that claim nothing.
PropIInv ==
  /\ IInv
  /\ stage # "waiting" => phase = "done"
  /\ stage = "waiting" => \A o \in Orders : claimed[o] = Nobody

-----------------------------------------------------------------------------
\* A finding without a search space claims nothing (CORE-001).
LEMMA NoSpaceClaimsNothing ==
  ASSUME NEW f, f.space = EmptySpace
  PROVE  Claim(f) = {}
<1>1. EmptySpace.members = {}
  BY DEF EmptySpace
<1> QED
  BY <1>1 DEF Claim, Postable

LEMMA RewrittenIsTyped ==
  ASSUME TypeOK, NEW s \in Settlements
  PROVE  /\ Rewritten(s) \in FindingType
         /\ Rewritten(s).space = EmptySpace
<1> DEFINE f == findings[s]
           v == IF Survivors(s) = {} THEN "CONTRADICTED"
                ELSE IF \E p \in Survivors(s) : Survivors(s) = {p} THEN "PROVEN"
                ELSE "AMBIGUOUS"
<1>1. f \in FindingType
  BY DEF TypeOK
<1>2. v \in Verdicts \cup {"UNDECIDED"}
  BY DEF Verdicts
<1>3. Survivors(s) \in SUBSET SUBSET Orders
  BY <1>1 DEF Survivors, FindingType
<1>4. EmptySpace \in SearchSpaces
  BY DEF EmptySpace, SearchSpaces
<1>5. (f.exhaustive /\ Survivors(s) # {}) \in BOOLEAN
  OBVIOUS
<1>6. Rewritten(s) = [f EXCEPT !.verdict = v, !.proofs = Survivors(s),
        !.exhaustive = f.exhaustive /\ Survivors(s) # {},
        !.space = EmptySpace, !.core = FALSE]
  BY DEF Rewritten
<1> HIDE DEF v, f
<1> QED
  BY <1>1, <1>2, <1>3, <1>4, <1>5, <1>6 DEF FindingType

\* Only an ambiguous finding is rewritten, and neither it nor what replaces it
\* may be posted.
LEMMA EliminateKeeps ==
  ASSUME TypeOK, Eliminate
  PROVE  \A s \in Settlements :
           /\ findings'[s] \in FindingType
           /\ Claim(findings'[s]) = Claim(findings[s])
           /\ findings[s] = Undecided => findings'[s] = Undecided
<1> SUFFICES ASSUME NEW s \in Settlements
             PROVE  /\ findings'[s] \in FindingType
                    /\ Claim(findings'[s]) = Claim(findings[s])
                    /\ findings[s] = Undecided => findings'[s] = Undecided
  OBVIOUS
<1>1. findings'[s] = IF Refuted(s) THEN Rewritten(s) ELSE findings[s]
  BY DEF Eliminate
<1>2. CASE ~Refuted(s)
  BY <1>1, <1>2 DEF TypeOK
<1>3. CASE Refuted(s)
  <2>1. findings[s].verdict = "AMBIGUOUS"
    BY <1>3 DEF Refuted
  <2>2. Claim(findings[s]) = {}
    BY <2>1 DEF Claim, Postable
  <2>3. Claim(Rewritten(s)) = {} /\ Rewritten(s) \in FindingType
    BY RewrittenIsTyped, NoSpaceClaimsNothing
  <2>4. findings[s] # Undecided
    <3>1. Undecided.verdict = "UNDECIDED"
      BY DEF Undecided
    <3> QED
      BY <2>1, <3>1
  <2> QED
    BY <1>1, <1>3, <2>2, <2>3, <2>4
<1> QED
  BY <1>2, <1>3

LEMMA EliminateIInv ==
  ASSUME IInv, Eliminate
  PROVE  IInv'
<1>0. TypeOK /\ WorkInv /\ SpentIsAccounted /\ NoOrderSpentTwice
  BY DEF IInv
<1>1. UNCHANGED <<net, capturedOn, credit, settledOn, work, turn, rung, spent, phase>>
  BY DEF Eliminate, book
<1>2. \A s \in Settlements :
        /\ findings'[s] \in FindingType
        /\ Claim(findings'[s]) = Claim(findings[s])
        /\ findings[s] = Undecided => findings'[s] = Undecided
  BY <1>0, EliminateKeeps
<1>3. TypeOK'
  <2>1. findings' \in [Settlements -> FindingType]
    BY <1>2 DEF Eliminate
  <2> QED
    BY <1>0, <1>1, <2>1 DEF TypeOK
<1>4. WorkInv'
  <2>1. \A i \in DOMAIN work : work[i] \in Settlements
    BY <1>0 DEF TypeOK
  <2> QED
    BY <1>0, <1>1, <1>2, <2>1 DEF WorkInv
<1>5. SpentIsAccounted'
  BY <1>0, <1>1, <1>2 DEF SpentIsAccounted
<1>6. NoOrderSpentTwice'
  BY <1>0, <1>2 DEF NoOrderSpentTwice
<1> QED
  BY <1>3, <1>4, <1>5, <1>6 DEF IInv

\* Once the cascade is done it takes no further step.
LEMMA CascadeIsOver == phase = "done" => ~Next
BY DEF Next, MatchSingle, Skip, Decide, Widen, Exhaust, Finish, AttachCores,
       Searched, Deciding

LEMMA PropNextIInv == PropIInv /\ [PropNext]_pvars => PropIInv'
<1> SUFFICES ASSUME PropIInv, [PropNext]_pvars PROVE PropIInv'
  OBVIOUS
<1>0. IInv
  BY DEF PropIInv
<1>1. CASE Cascading
  <2>1. IInv'
    BY <1>0, <1>1, NextIInv DEF Cascading
  <2>2. UNCHANGED <<stage, claimed>>
    BY <1>1 DEF Cascading, deduction
  <2>3. stage = "waiting"
    BY <1>1, CascadeIsOver DEF Cascading, PropIInv
  <2> QED
    BY <2>1, <2>2, <2>3 DEF PropIInv
<1>2. CASE Seed
  <2>1. UNCHANGED vars /\ stage' = "deduce" /\ phase = "done"
    BY <1>2 DEF Seed
  <2>2. IInv'
    BY <1>0, <2>1, NextIInv
  <2> QED
    BY <2>1, <2>2 DEF PropIInv, vars
<1>3. CASE Deduce
  <2>1. UNCHANGED vars /\ stage' = "eliminate" /\ stage = "deduce"
    BY <1>3 DEF Deduce
  <2>2. IInv'
    BY <1>0, <2>1, NextIInv
  <2> QED
    BY <2>1, <2>2 DEF PropIInv, vars
<1>4. CASE Eliminate
  <2>1. stage' # "waiting" /\ stage # "waiting" /\ phase' = phase
    BY <1>4 DEF Eliminate
  <2> QED
    BY <1>0, <1>4, <2>1, EliminateIInv DEF PropIInv
<1>5. CASE UNCHANGED pvars
  <2>1. UNCHANGED vars /\ UNCHANGED <<stage, claimed>>
    BY <1>5 DEF pvars, deduction
  <2>2. IInv'
    BY <1>0, <2>1, NextIInv
  <2> QED
    BY <2>1, <2>2 DEF PropIInv, vars
<1> QED
  BY <1>1, <1>2, <1>3, <1>4, <1>5 DEF PropNext

\* The engine's invariant holds through propagation.
THEOREM PropagationInvariant == PropSpec => []PropIInv
<1>1. PropInit => PropIInv
  BY InitIInv DEF PropInit, PropIInv
<1>2. PropIInv /\ [PropNext]_pvars => PropIInv'
  BY PropNextIInv
<1> QED
  BY <1>1, <1>2, PTL DEF PropSpec

\* Propagation neither posts nor takes back: every settlement claims in the
\* books what the cascade gave it, however many findings were promoted.
THEOREM PropagationIsNeutral == PropSpec => DeductionPostsNothing
<1>1. ASSUME PropIInv, [PropNext]_pvars
      PROVE  [stage # "waiting" =>
                \A s \in Settlements : Claim(findings'[s]) = Claim(findings[s])]_pvars
  <2> SUFFICES ASSUME PropNext, stage # "waiting"
               PROVE  \A s \in Settlements : Claim(findings'[s]) = Claim(findings[s])
    BY <1>1
  <2>1. phase = "done" /\ TypeOK
    BY <1>1 DEF PropIInv, IInv
  <2>2. CASE Cascading
    BY <2>1, <2>2, CascadeIsOver DEF Cascading
  <2>3. CASE Seed \/ Deduce
    BY <2>3 DEF Seed, Deduce, vars
  <2>4. CASE Eliminate
    BY <2>1, <2>4, EliminateKeeps
  <2> QED
    BY <2>2, <2>3, <2>4 DEF PropNext
<1> QED
  BY <1>1, PropagationInvariant, PTL DEF PropSpec, DeductionPostsNothing

-----------------------------------------------------------------------------
(* What propagation removes was impossible *)

\* The book explained as a whole by w, after what was deduced so far.
WorldInv(w) ==
  /\ DOMAIN w \subseteq Settlements
  /\ \A s, t \in DOMAIN w : s # t => w[s] \cap w[t] = {}
  /\ \A o \in Orders : claimed[o] # Nobody =>
       claimed[o] \in DOMAIN w /\ o \in w[claimed[o]]
  /\ \A s \in Settlements : findings[s].exhaustive /\ findings[s].proofs # {} =>
       s \in DOMAIN w /\ w[s] \in findings[s].proofs
  /\ \A s \in DOMAIN w : w[s] \in received[s] => w[s] \in findings[s].proofs

\* The owners deduced and the explanations kept support each other, so neither
\* of the two properties is inductive without the other.
EntailInv ==
  /\ stage = "waiting" => worlds = {} /\ SearchInv
  /\ \A w \in worlds : WorldInv(w)

\* While the cascade's findings stand, a list that was not cut short is all
\* there is to list, and so is the one explanation of a proven settlement.
LEMMA ListsAreFull ==
  ASSUME SearchInv, NEW s \in Settlements
  PROVE  /\ findings[s].exhaustive => Candidates(s) = findings[s].proofs
         /\ findings[s].verdict = "PROVEN" =>
              \E p \in findings[s].proofs : findings[s].proofs = {p} /\ Candidates(s) = {p}
<1>1. Faithful(findings[s], net, credit[s])
  BY DEF SearchInv
<1> QED
  BY <1>1 DEF Faithful, Candidates

\* A list of places has a last one.
LEMMA LastIsIn ==
  ASSUME NEW n \in Nat, NEW S, S \subseteq 1 .. n, S # {}
  PROVE  Last(S) \in S
<1> DEFINE D == {n - x : x \in S}
<1>1. \A x \in S : n - x \in Nat
  OBVIOUS
<1>2. D \subseteq Nat /\ D # {}
  <2>1. D \subseteq Nat
    BY <1>1
  <2>2. PICK x : x \in S
    OBVIOUS
  <2>3. n - x \in D
    BY <2>2
  <2> HIDE DEF D
  <2> QED
    BY <2>1, <2>3
<1>3. PICK d \in D : \A e \in D : d <= e
  <2> HIDE DEF D
  <2> QED
    BY <1>2, LeastNumber
<1>4. PICK m \in S : d = n - m
  OBVIOUS
<1>5. \A x \in S : x <= m
  <2> SUFFICES ASSUME NEW x \in S PROVE x <= m
    OBVIOUS
  <2>1. n - m <= n - x
    BY <1>3, <1>4
  <2> QED
    BY <2>1
<1> QED
  BY <1>5 DEF Last

\* An order given to a settlement has a place in the list that gives it.
LEMMA LastPlace ==
  ASSUME TypeOK, NEW S, S \subseteq DOMAIN work, S # {}
  PROVE  Last(S) \in S /\ work[Last(S)] \in Settlements
<1>1. PICK n \in Nat : DOMAIN work = 1 .. n
  BY WorkIsAList
<1>2. Last(S) \in S
  BY <1>1, LastIsIn
<1> QED
  BY <1>1, <1>2 DEF TypeOK

\* The worlds the round starts from are consistent with what the cascade
\* proved: its one explanation is the one every world takes.
LEMMA SeedEntails ==
  ASSUME TypeOK, EntailInv, Seed
  PROVE  EntailInv'
<1>1. stage = "waiting" /\ stage' = "deduce" /\ SearchInv
  BY DEF Seed, EntailInv
<1>2. /\ findings' = findings /\ worlds' = Worlds
      /\ received' = [s \in Settlements |-> findings[s].proofs]
      /\ claimed' = [o \in Orders |->
           IF Seeding(o) # {} THEN work[Last(Seeding(o))] ELSE Nobody]
  BY DEF Seed, vars
<1> DEFINE explained == {s \in Settlements : findings[s].proofs # {}}
<1>3. ASSUME NEW w \in Worlds
      PROVE  /\ DOMAIN w = explained
             /\ \A s \in explained : w[s] \in Candidates(s)
             /\ \A s, t \in explained : s # t => w[s] \cap w[t] = {}
  BY DEF Worlds
<1>4. ASSUME NEW w \in Worlds, NEW o \in Orders, claimed'[o] # Nobody
      PROVE  claimed'[o] \in DOMAIN w /\ o \in w[claimed'[o]]
  <2>1. Seeding(o) # {} /\ claimed'[o] = work[Last(Seeding(o))]
    BY <1>2, <1>4
  <2>2. PICK i : i = Last(Seeding(o))
    OBVIOUS
  <2>3. i \in Seeding(o) /\ work[i] \in Settlements
    BY <2>1, <2>2, LastPlace DEF Seeding
  <2>4. PICK s : s = work[i]
    OBVIOUS
  <2>5. s \in Settlements /\ findings[s].verdict = "PROVEN" /\ o \in UNION findings[s].proofs
    BY <2>3, <2>4 DEF Seeding
  <2>6. PICK p \in findings[s].proofs : findings[s].proofs = {p} /\ Candidates(s) = {p}
    BY <1>1, <2>5, ListsAreFull
  <2>7. o \in p /\ w[s] = p /\ s \in DOMAIN w
    BY <1>3, <2>5, <2>6
  <2> QED
    BY <2>1, <2>2, <2>4, <2>7
<1>5. ASSUME NEW w \in Worlds, NEW s \in Settlements,
             findings[s].exhaustive, findings[s].proofs # {}
      PROVE  s \in DOMAIN w /\ w[s] \in findings[s].proofs
  <2>1. Candidates(s) = findings[s].proofs
    BY <1>1, <1>5, ListsAreFull
  <2>2. s \in explained
    BY <1>5
  <2> HIDE DEF explained
  <2>3. s \in DOMAIN w /\ w[s] \in Candidates(s)
    BY <1>3, <2>2
  <2> QED
    BY <2>1, <2>3
<1>6. ASSUME NEW w \in Worlds PROVE WorldInv(w)'
  <2>1. DOMAIN w = explained /\ DOMAIN w \subseteq Settlements
    BY <1>3
  <2>2. \A s, t \in DOMAIN w : s # t => w[s] \cap w[t] = {}
    BY <1>3, <2>1
  <2> HIDE DEF explained
  <2>3. \A s \in DOMAIN w : w[s] \in received'[s] => w[s] \in findings'[s].proofs
    BY <1>2, <2>1
  <2>4. \A o \in Orders : claimed'[o] # Nobody =>
          claimed'[o] \in DOMAIN w /\ o \in w[claimed'[o]]
    BY <1>4
  <2>5. \A s \in Settlements : findings'[s].exhaustive /\ findings'[s].proofs # {} =>
          s \in DOMAIN w /\ w[s] \in findings'[s].proofs
    BY <1>2, <1>5
  <2> QED
    BY <2>1, <2>2, <2>3, <2>4, <2>5 DEF WorldInv
<1> QED
  BY <1>1, <1>2, <1>6 DEF EntailInv

\* What all explanations of a complete list share is in the one a world takes.
LEMMA DeduceEntails ==
  ASSUME TypeOK, EntailInv, Deduce
  PROVE  EntailInv'
<1>1. /\ stage' = "eliminate" /\ findings' = findings /\ received' = received
      /\ worlds' = worlds
      /\ claimed' = [o \in Orders |->
           IF o \in Deduced THEN work[Last(Forcing(o))] ELSE claimed[o]]
  BY DEF Deduce, vars
<1>2. ASSUME NEW w \in worlds PROVE WorldInv(w)'
  <2>0. WorldInv(w)
    BY <1>2 DEF EntailInv
  <2>1. ASSUME NEW o \in Orders, claimed'[o] # Nobody
        PROVE  claimed'[o] \in DOMAIN w /\ o \in w[claimed'[o]]
    <3>1. CASE o \notin Deduced
      BY <1>1, <2>0, <2>1, <3>1 DEF WorldInv
    <3>2. CASE o \in Deduced
      <4>1. PICK i : i = Last(Forcing(o))
        OBVIOUS
      <4>2. i \in Forcing(o) /\ work[i] \in Settlements
        BY <3>2, <4>1, LastPlace DEF Forcing, Deduced
      <4>3. PICK s : s = work[i]
        OBVIOUS
      <4>4. s \in Settlements /\ o \in ForcedMembers(findings[s])
        BY <4>2, <4>3 DEF Forcing
      <4>5. /\ findings[s].proofs # {} /\ findings[s].exhaustive
            /\ \A p \in findings[s].proofs : o \in p
        BY <4>4 DEF ForcedMembers
      <4>6. s \in DOMAIN w /\ w[s] \in findings[s].proofs
        BY <2>0, <4>4, <4>5 DEF WorldInv
      <4>7. claimed'[o] = s
        BY <1>1, <3>2, <4>1, <4>3
      <4> QED
        BY <4>5, <4>6, <4>7
    <3> QED
      BY <3>1, <3>2
  <2> QED
    BY <1>1, <2>0, <2>1 DEF WorldInv
<1> QED
  BY <1>1, <1>2 DEF EntailInv

\* An explanation a world takes loses no order to another settlement: in that
\* world the order is the settlement's own.
LEMMA WorldsSurvive ==
  ASSUME TypeOK, NEW w, WorldInv(w), NEW s \in DOMAIN w, w[s] \in findings[s].proofs
  PROVE  w[s] \in Survivors(s)
<1>1. s \in Settlements
  BY DEF WorldInv
<1>2. w[s] \subseteq Orders
  BY <1>1 DEF TypeOK, FindingType
<1>3. ASSUME NEW o \in w[s], claimed[o] # Nobody PROVE claimed[o] = s
  BY <1>2, <1>3 DEF WorldInv
<1> QED
  BY <1>3 DEF Survivors

LEMMA EliminateEntails ==
  ASSUME TypeOK, EntailInv, Eliminate
  PROVE  EntailInv'
<1>1. /\ stage' # "waiting" /\ claimed' = claimed /\ received' = received
      /\ worlds' = worlds
      /\ \A s \in Settlements :
           findings'[s] = IF Refuted(s) THEN Rewritten(s) ELSE findings[s]
  BY DEF Eliminate
<1>2. \A s \in Settlements :
        /\ findings'[s].proofs = findings[s].proofs \/ findings'[s].proofs = Survivors(s)
        /\ findings'[s].exhaustive => findings[s].exhaustive
  <2> SUFFICES ASSUME NEW s \in Settlements
               PROVE  /\ \/ findings'[s].proofs = findings[s].proofs
                         \/ findings'[s].proofs = Survivors(s)
                      /\ findings'[s].exhaustive => findings[s].exhaustive
    OBVIOUS
  <2>1. findings[s] \in FindingType
    BY DEF TypeOK
  <2>2. Rewritten(s).proofs = Survivors(s)
    BY <2>1 DEF Rewritten, FindingType
  <2>3. Rewritten(s).exhaustive = (findings[s].exhaustive /\ Survivors(s) # {})
    BY <2>1 DEF Rewritten, FindingType
  <2> QED
    BY <1>1, <2>2, <2>3
<1>3. \A s \in Settlements : Survivors(s) \subseteq findings[s].proofs
  BY DEF Survivors
<1>4. ASSUME NEW w \in worlds PROVE WorldInv(w)'
  <2>0. WorldInv(w)
    BY <1>4 DEF EntailInv
  <2>1. \A s \in DOMAIN w : w[s] \in findings[s].proofs => w[s] \in findings'[s].proofs
    <3> SUFFICES ASSUME NEW s \in DOMAIN w, w[s] \in findings[s].proofs
                 PROVE  w[s] \in findings'[s].proofs
      OBVIOUS
    <3>1. s \in Settlements /\ w[s] \in Survivors(s)
      BY <2>0, WorldsSurvive DEF WorldInv
    <3> QED
      BY <1>2, <3>1
  <2>2. ASSUME NEW s \in Settlements, findings'[s].exhaustive, findings'[s].proofs # {}
        PROVE  s \in DOMAIN w /\ w[s] \in findings'[s].proofs
    <3>1. findings[s].exhaustive /\ findings[s].proofs # {}
      BY <1>2, <1>3, <2>2
    <3> QED
      BY <2>0, <2>1, <3>1 DEF WorldInv
  <2> QED
    BY <1>1, <2>0, <2>1, <2>2 DEF WorldInv
<1> QED
  BY <1>1, <1>4 DEF EntailInv

LEMMA PropNextEntails == PropIInv /\ EntailInv /\ [PropNext]_pvars => EntailInv'
<1> SUFFICES ASSUME PropIInv, EntailInv, [PropNext]_pvars PROVE EntailInv'
  OBVIOUS
<1>0. TypeOK
  BY DEF PropIInv, IInv
<1>1. CASE Cascading
  <2>1. stage = "waiting" /\ UNCHANGED deduction
    BY <1>1, CascadeIsOver DEF Cascading, PropIInv
  <2>2. SearchInv'
    BY <1>0, <1>1, <2>1, NextSearchInv, TypesOfTheEngine DEF Cascading, EntailInv
  <2> QED
    BY <2>1, <2>2 DEF EntailInv, deduction
<1>2. CASE UNCHANGED pvars
  BY <1>2 DEF EntailInv, WorldInv, SearchInv, pvars, vars, deduction
<1> QED
  BY <1>0, <1>1, <1>2, SeedEntails, DeduceEntails, EliminateEntails DEF PropNext

\* Owners deduced and explanations kept agree with every way of explaining the
\* whole book, those with explanations the cap left off the lists included.
THEOREM EntailmentInvariant == PropSpec => []EntailInv
<1>1. PropInit => EntailInv
  <2> SUFFICES ASSUME PropInit PROVE EntailInv
    OBVIOUS
  <2>1. worlds = {} /\ Init
    BY DEF PropInit
  <2> QED
    BY <2>1, InitSearchInv DEF EntailInv
<1>2. PropIInv /\ EntailInv /\ [PropNext]_pvars => EntailInv'
  BY PropNextEntails
<1> QED
  BY <1>1, <1>2, PropagationInvariant, PTL DEF PropSpec

\* Propagation only removes possibilities that were already impossible: an
\* explanation that is part of some consistent explanation of the whole book
\* is never taken off the list it was on.
THEOREM NothingPossibleIsRemoved == PropSpec => []OnlyTheImpossibleIsRemoved
<1>1. EntailInv => OnlyTheImpossibleIsRemoved
  BY DEF EntailInv, WorldInv, OnlyTheImpossibleIsRemoved
<1> QED
  BY <1>1, EntailmentInvariant, PTL

\* An owner deduced is the owner in every consistent explanation of the book.
THEOREM DeducedOwnersAreEntailed == PropSpec => []OwnersAreEntailed
<1>1. EntailInv => OwnersAreEntailed
  BY DEF EntailInv, WorldInv, OwnersAreEntailed
<1> QED
  BY <1>1, EntailmentInvariant, PTL

-----------------------------------------------------------------------------
(* The packing layer beside it *)

\* Whatever pack computes, and whether or not a solver is installed, the engine
\* with it takes only steps of the engine without: it may name cores, and the
\* rest of what it finds stays out of the findings (pipeline._attach_cores).
THEOREM PackingOnlyNamesCores == PackSpec => PropSpec
<1>1. PackInit => PropInit
  BY DEF PackInit
<1>2. [PackNext]_packvars => [PropNext]_pvars
  <2> SUFFICES ASSUME [PackNext]_packvars PROVE [PropNext]_pvars
    OBVIOUS
  <2>1. CASE Engine
    BY <2>1 DEF Engine
  <2>2. CASE Collect \/ Pack \/ UNCHANGED packvars
    BY <2>2 DEF Collect, Pack, packvars
  <2>3. CASE Overlay \/ NoSolver
    <3>1. AttachCores /\ UNCHANGED deduction
      BY <2>3 DEF Overlay, NoSolver
    <3> QED
      BY <3>1 DEF PropNext, Cascading, Next
  <2> QED
    BY <2>1, <2>2, <2>3 DEF PackNext
<1> QED
  BY <1>1, <1>2, PTL DEF PackSpec, PropSpec
-----------------------------------------------------------------------------
(* The packing by groups *)

\* Whether standing apart is seen from inside or from outside is the same.
LEMMA RestIsApart ==
  ASSUME NEW lists, NEW B \in SUBSET Settlements, Apart(lists, B)
  PROVE  Apart(lists, Settlements \ B)
<1> SUFFICES ASSUME NEW s \in Settlements \ B, NEW t \in Settlements \ (Settlements \ B)
             PROVE  (UNION lists[s]) \cap (UNION lists[t]) = {}
  BY DEF Apart
<1>1. t \in B
  OBVIOUS
<1>2. (UNION lists[t]) \cap (UNION lists[s]) = {}
  BY <1>1 DEF Apart
<1> QED
  BY <1>2

\* A group has its settlement in it and stands apart.
LEMMA GroupIsApart ==
  ASSUME NEW lists, NEW s \in Settlements
  PROVE  /\ s \in GroupOf(lists, s) /\ GroupOf(lists, s) \subseteq Settlements
         /\ Apart(lists, GroupOf(lists, s))
<1> DEFINE G == GroupOf(lists, s)
<1>1. s \in G /\ G \subseteq Settlements
  BY DEF GroupOf
<1>2. ASSUME NEW a \in G, NEW t \in Settlements \ G
      PROVE  (UNION lists[a]) \cap (UNION lists[t]) = {}
  <2>1. PICK B \in SUBSET Settlements : s \in B /\ Apart(lists, B) /\ t \notin B
    BY <1>2 DEF GroupOf
  <2>2. a \in B
    BY <1>2, <2>1 DEF GroupOf
  <2> QED
    BY <1>2, <2>1, <2>2 DEF Apart
<1> QED
  BY <1>1, <1>2 DEF Apart

\* It is the least of those that do.
LEMMA GroupIsLeast ==
  ASSUME NEW lists, NEW s \in Settlements, NEW B \in SUBSET Settlements,
         s \in B, Apart(lists, B)
  PROVE  GroupOf(lists, s) \subseteq B
BY DEF GroupOf

\* Two groups are one or have nothing in common.
LEMMA GroupsAreDisjoint ==
  ASSUME NEW lists, NEW G \in Components(lists), NEW H \in Components(lists),
         NEW u, u \in G, u \in H
  PROVE  G = H
<1>1. ASSUME NEW s \in Settlements, u \in GroupOf(lists, s)
      PROVE  u \in Settlements /\ GroupOf(lists, u) = GroupOf(lists, s)
  <2> DEFINE K == GroupOf(lists, u)
  <2>1. /\ GroupOf(lists, s) \subseteq Settlements /\ Apart(lists, GroupOf(lists, s))
        /\ s \in GroupOf(lists, s)
    BY GroupIsApart
  <2>2. u \in Settlements /\ K \subseteq GroupOf(lists, s)
    BY <1>1, <2>1, GroupIsLeast
  <2>3. u \in K /\ K \subseteq Settlements /\ Apart(lists, K)
    BY <2>2, GroupIsApart
  <2>4. s \in K
    <3> SUFFICES ASSUME s \notin K PROVE FALSE
      OBVIOUS
    <3>1. Apart(lists, Settlements \ K) /\ s \in Settlements \ K
      BY <2>3, RestIsApart
    <3>2. GroupOf(lists, s) \subseteq Settlements \ K
      BY <3>1, GroupIsLeast
    <3> QED
      BY <1>1, <2>3, <3>2
  <2>5. GroupOf(lists, s) \subseteq K
    BY <2>3, <2>4, GroupIsLeast
  <2> QED
    BY <2>2, <2>5
<1>2. PICK s \in Settlements : G = GroupOf(lists, s)
  BY DEF Components
<1>3. PICK t \in Settlements : H = GroupOf(lists, t)
  BY DEF Components
<1> QED
  BY <1>1, <1>2, <1>3

\* The book is the union of its groups, each of which stands apart.
LEMMA GroupsAreAll ==
  ASSUME NEW lists
  PROVE  /\ UNION Components(lists) = Settlements
         /\ \A G \in Components(lists) : Apart(lists, G)
<1>1. \A s \in Settlements : /\ s \in GroupOf(lists, s)
                            /\ GroupOf(lists, s) \subseteq Settlements
                            /\ Apart(lists, GroupOf(lists, s))
  BY GroupIsApart
<1> QED
  BY <1>1 DEF Components

-----------------------------------------------------------------------------
\* What it takes to be a packing.
Packs(lists, group, w) ==
  /\ DOMAIN w \subseteq group
  /\ w = [s \in DOMAIN w |-> w[s]]
  /\ \A s \in DOMAIN w : w[s] \in lists[s]
  /\ \A s, t \in DOMAIN w : s # t => w[s] \cap w[t] = {}

LEMMA PackingsAre ==
  ASSUME NEW lists, NEW group, NEW w
  PROVE  w \in Packings(lists, group) <=> Packs(lists, group, w)
<1>1. ASSUME w \in Packings(lists, group)
      PROVE  Packs(lists, group, w)
  <2>1. PICK part \in SUBSET group :
          /\ w \in [part -> UNION {lists[s] : s \in part}]
          /\ \A s \in part : /\ w[s] \in lists[s]
                             /\ \A t \in part \ {s} : w[s] \cap w[t] = {}
    BY <1>1 DEF Packings
  <2> QED
    BY <2>1 DEF Packs
<1>2. ASSUME Packs(lists, group, w)
      PROVE  w \in Packings(lists, group)
  <2> DEFINE part == DOMAIN w
             these == {v \in [part -> UNION {lists[s] : s \in part}] :
                         \A s \in part : /\ v[s] \in lists[s]
                                         /\ \A t \in part \ {s} : v[s] \cap v[t] = {}}
  <2>1. w \in [part -> UNION {lists[s] : s \in part}]
    <3>1. \A s \in part : w[s] \in UNION {lists[t] : t \in part}
      BY <1>2 DEF Packs
    <3>2. w = [s \in part |-> w[s]]
      BY <1>2 DEF Packs
    <3> QED
      BY <3>1, <3>2
  <2>2. w \in these
    BY <1>2, <2>1 DEF Packs
  <2>3. part \in SUBSET group
    BY <1>2 DEF Packs
  <2> QED
    BY <2>2, <2>3 DEF Packings
<1> QED
  BY <1>1, <1>2

\* The part of a packing that is about a group.
Within(w, B) == [s \in DOMAIN w \cap B |-> w[s]]

LEMMA PartPacks ==
  ASSUME NEW lists, NEW A, NEW B, NEW w, Packs(lists, A, w)
  PROVE  Packs(lists, A \cap B, Within(w, B))
BY DEF Packs, Within

\* Two packings side by side.
Beside(v, w) ==
  [s \in DOMAIN v \cup DOMAIN w |-> IF s \in DOMAIN v THEN v[s] ELSE w[s]]

\* Packings of two groups do not get into each other's way.
LEMMA BesidePacks ==
  ASSUME NEW lists, NEW A \in SUBSET Settlements, NEW B \in SUBSET Settlements,
         A \cap B = {}, Apart(lists, A),
         NEW v, Packs(lists, A, v), NEW w, Packs(lists, B, w)
  PROVE  Packs(lists, A \cup B, Beside(v, w))
<1> DEFINE x == Beside(v, w)
<1>1. /\ DOMAIN x = DOMAIN v \cup DOMAIN w
      /\ x = [s \in DOMAIN x |-> x[s]]
      /\ \A s \in DOMAIN v : x[s] = v[s]
      /\ \A s \in DOMAIN w : s \notin DOMAIN v => x[s] = w[s]
  BY DEF Beside
<1>2. DOMAIN v \subseteq A /\ DOMAIN w \subseteq B
  BY DEF Packs
<1>3. \A s \in DOMAIN w : x[s] = w[s] /\ s \in B /\ s \notin A
  BY <1>1, <1>2
<1>4. \A s \in DOMAIN x : x[s] \in lists[s]
  BY <1>1, <1>3 DEF Packs
<1>5. ASSUME NEW s \in DOMAIN v, NEW t \in DOMAIN w
      PROVE  x[s] \cap x[t] = {}
  <2>1. x[s] \in lists[s] /\ x[t] \in lists[t]
    BY <1>1, <1>4
  <2>2. s \in A /\ t \in Settlements \ A
    BY <1>2, <1>3
  <2>3. (UNION lists[s]) \cap (UNION lists[t]) = {}
    BY <2>2 DEF Apart
  <2> QED
    BY <2>1, <2>3
<1>6. \A s, t \in DOMAIN v : s # t => x[s] \cap x[t] = {}
  BY <1>1 DEF Packs
<1>7. \A s, t \in DOMAIN w : s # t => x[s] \cap x[t] = {}
  BY <1>3 DEF Packs
<1>8. \A s, t \in DOMAIN x : s # t => x[s] \cap x[t] = {}
  <2> SUFFICES ASSUME NEW s \in DOMAIN x, NEW t \in DOMAIN x, s # t
               PROVE  x[s] \cap x[t] = {}
    OBVIOUS
  <2>1. CASE s \in DOMAIN v /\ t \in DOMAIN w
    BY <1>5, <2>1
  <2>2. CASE t \in DOMAIN v /\ s \in DOMAIN w
    <3>1. x[t] \cap x[s] = {}
      BY <1>5, <2>2
    <3> QED
      BY <3>1
  <2>3. CASE s \in DOMAIN v /\ t \in DOMAIN v
    BY <1>6, <2>3
  <2>4. CASE s \in DOMAIN w /\ t \in DOMAIN w
    BY <1>7, <2>4
  <2> QED
    BY <1>1, <2>1, <2>2, <2>3, <2>4
<1>9. DOMAIN x \subseteq A \cup B
  BY <1>1, <1>2
<1> QED
  BY <1>1, <1>4, <1>8, <1>9 DEF Packs
-----------------------------------------------------------------------------
\* Most settlements, then most rupees.
AtLeast(w, v) ==
  \/ Cardinality(DOMAIN v) < Cardinality(DOMAIN w)
  \/ Cardinality(DOMAIN v) = Cardinality(DOMAIN w) /\ Rupees(v) <= Rupees(w)

LEMMA BestAre ==
  ASSUME NEW P, \A w \in P : Cardinality(DOMAIN w) \in Int, NEW w
  PROVE  w \in Best(P) <=> w \in P /\ \A v \in P : AtLeast(w, v)
<1> DEFINE most == {x \in P : \A v \in P : Cardinality(DOMAIN v) <= Cardinality(DOMAIN x)}
<1>1. Best(P) = {x \in most : \A v \in most : Rupees(v) <= Rupees(x)}
  BY DEF Best
<1>2. ASSUME w \in Best(P) PROVE w \in P /\ \A v \in P : AtLeast(w, v)
  <2>1. w \in most /\ \A v \in most : Rupees(v) <= Rupees(w)
    BY <1>1, <1>2
  <2> SUFFICES ASSUME NEW v \in P PROVE AtLeast(w, v)
    BY <2>1
  <2>2. Cardinality(DOMAIN v) <= Cardinality(DOMAIN w)
    BY <2>1
  <2>3. CASE Cardinality(DOMAIN v) = Cardinality(DOMAIN w)
    <3>1. v \in most
      BY <2>1, <2>3
    <3> QED
      BY <2>1, <2>3, <3>1 DEF AtLeast
  <2>4. w \in P
    BY <2>1
  <2> QED
    BY <2>2, <2>3, <2>4 DEF AtLeast
<1>3. ASSUME w \in P, \A v \in P : AtLeast(w, v) PROVE w \in Best(P)
  <2>1. w \in most
    BY <1>3 DEF AtLeast
  <2>2. \A v \in most : Rupees(v) <= Rupees(w)
    <3> SUFFICES ASSUME NEW v \in most PROVE Rupees(v) <= Rupees(w)
      OBVIOUS
    <3>1. Cardinality(DOMAIN w) <= Cardinality(DOMAIN v)
      BY <1>3
    <3> QED
      BY <1>3, <3>1 DEF AtLeast
  <2> QED
    BY <1>1, <2>1, <2>2
<1> QED
  BY <1>2, <1>3

\* What a packing explains is finite and can be counted in two parts.
LEMMA SplitsInTwo ==
  ASSUME credit \in [Settlements -> Int], NEW w, DOMAIN w \subseteq Settlements,
         NEW A, NEW B, A \cap B = {}, DOMAIN w \subseteq A \cup B
  PROVE  /\ Cardinality(DOMAIN w) \in Int /\ Rupees(w) \in Int
         /\ Cardinality(DOMAIN Within(w, A)) \in Int /\ Rupees(Within(w, A)) \in Int
         /\ Cardinality(DOMAIN Within(w, B)) \in Int /\ Rupees(Within(w, B)) \in Int
         /\ Cardinality(DOMAIN w) =
              Cardinality(DOMAIN Within(w, A)) + Cardinality(DOMAIN Within(w, B))
         /\ Rupees(w) = Rupees(Within(w, A)) + Rupees(Within(w, B))
<1> DEFINE D == DOMAIN w
<1>1. DOMAIN Within(w, A) = D \cap A /\ DOMAIN Within(w, B) = D \cap B
  BY DEF Within
<1>2. IsFiniteSet(D) /\ IsFiniteSet(D \cap A) /\ IsFiniteSet(D \cap B)
  BY CascadeAssumption, FS_Subset
<1>3. D = (D \cap A) \cup (D \cap B) /\ (D \cap A) \cap (D \cap B) = {}
  OBVIOUS
<1>4. Cardinality(D) = Cardinality(D \cap A) + Cardinality(D \cap B)
      /\ Cardinality(D) \in Nat /\ Cardinality(D \cap A) \in Nat /\ Cardinality(D \cap B) \in Nat
  <2>1. Cardinality((D \cap A) \cup (D \cap B)) =
          Cardinality(D \cap A) + Cardinality(D \cap B)
            - Cardinality((D \cap A) \cap (D \cap B))
    BY <1>2, FS_Union
  <2>2. Cardinality((D \cap A) \cap (D \cap B)) = 0
    BY <1>3, FS_EmptySet
  <2>3. Cardinality(D) = Cardinality((D \cap A) \cup (D \cap B))
    BY <1>3
  <2>4. Cardinality(D) \in Nat /\ Cardinality(D \cap A) \in Nat /\ Cardinality(D \cap B) \in Nat
    BY <1>2, FS_CardinalityType
  <2> HIDE DEF D
  <2> QED
    BY <2>1, <2>2, <2>3, <2>4
<1>5. Total(credit, D) = Total(credit, D \cap A) + Total(credit, D \cap B)
  <2>1. D \cap A \in SUBSET Settlements /\ D \cap B \in SUBSET Settlements
    OBVIOUS
  <2>2. Total(credit, (D \cap A) \cup (D \cap B)) =
          Total(credit, D \cap A) + Total(credit, D \cap B)
    BY <1>3, <2>1, CascadeAssumption, TotalAdds
  <2> QED
    BY <1>3, <2>2
<1>6. \A S \in SUBSET Settlements : Total(credit, S) \in Int
  BY CascadeAssumption, TotalStep
<1> QED
  BY <1>1, <1>4, <1>5, <1>6 DEF Rupees

\* So is its rank, where its parts are at least as good.
LEMMA PartsAtLeast ==
  ASSUME credit \in [Settlements -> Int],
         NEW A, NEW B, A \cap B = {}, A \cup B \subseteq Settlements,
         NEW w, DOMAIN w \subseteq A \cup B, NEW v, DOMAIN v \subseteq A \cup B,
         AtLeast(Within(w, A), Within(v, A)), AtLeast(Within(w, B), Within(v, B))
  PROVE  AtLeast(w, v)
<1>1. DOMAIN w \subseteq Settlements /\ DOMAIN v \subseteq Settlements
  OBVIOUS
<1> DEFINE n(x) == Cardinality(DOMAIN x)
<1>2. n(w) \in Int /\ n(Within(w, A)) \in Int /\ n(Within(w, B)) \in Int
      /\ Rupees(w) \in Int /\ Rupees(Within(w, A)) \in Int /\ Rupees(Within(w, B)) \in Int
      /\ n(w) = n(Within(w, A)) + n(Within(w, B))
      /\ Rupees(w) = Rupees(Within(w, A)) + Rupees(Within(w, B))
  BY <1>1, SplitsInTwo
<1>3. n(v) \in Int /\ n(Within(v, A)) \in Int /\ n(Within(v, B)) \in Int
      /\ Rupees(v) \in Int /\ Rupees(Within(v, A)) \in Int /\ Rupees(Within(v, B)) \in Int
      /\ n(v) = n(Within(v, A)) + n(Within(v, B))
      /\ Rupees(v) = Rupees(Within(v, A)) + Rupees(Within(v, B))
  BY <1>1, SplitsInTwo
<1> QED
  BY <1>2, <1>3 DEF AtLeast

\* And where one part is the same, the rank of the whole is that of the other.
LEMMA RestAtLeast ==
  ASSUME credit \in [Settlements -> Int],
         NEW A, NEW B, A \cap B = {}, A \cup B \subseteq Settlements,
         NEW w, DOMAIN w \subseteq A \cup B, NEW v, DOMAIN v \subseteq A \cup B,
         Within(w, B) = Within(v, B), AtLeast(w, v)
  PROVE  AtLeast(Within(w, A), Within(v, A))
<1>1. DOMAIN w \subseteq Settlements /\ DOMAIN v \subseteq Settlements
  OBVIOUS
<1> DEFINE n(x) == Cardinality(DOMAIN x)
<1>2. n(w) \in Int /\ n(Within(w, A)) \in Int /\ n(Within(w, B)) \in Int
      /\ Rupees(w) \in Int /\ Rupees(Within(w, A)) \in Int /\ Rupees(Within(w, B)) \in Int
      /\ n(w) = n(Within(w, A)) + n(Within(w, B))
      /\ Rupees(w) = Rupees(Within(w, A)) + Rupees(Within(w, B))
  BY <1>1, SplitsInTwo
<1>3. n(v) \in Int /\ n(Within(v, A)) \in Int /\ n(Within(v, B)) \in Int
      /\ Rupees(v) \in Int /\ Rupees(Within(v, A)) \in Int /\ Rupees(Within(v, B)) \in Int
      /\ n(v) = n(Within(v, A)) + n(Within(v, B))
      /\ Rupees(v) = Rupees(Within(v, A)) + Rupees(Within(v, B))
  BY <1>1, SplitsInTwo
<1> QED
  BY <1>2, <1>3 DEF AtLeast

\* The packings of a group and the best of them.
LEMMA BestPackings ==
  ASSUME credit \in [Settlements -> Int], NEW lists, NEW B \in SUBSET Settlements, NEW w
  PROVE  w \in Best(Packings(lists, B))
           <=> Packs(lists, B, w) /\ \A v : Packs(lists, B, v) => AtLeast(w, v)
<1>1. \A v : v \in Packings(lists, B) <=> Packs(lists, B, v)
  BY PackingsAre
<1>2. \A v \in Packings(lists, B) : Cardinality(DOMAIN v) \in Int
  <2> SUFFICES ASSUME NEW v \in Packings(lists, B) PROVE Cardinality(DOMAIN v) \in Int
    OBVIOUS
  <2>1. DOMAIN v \subseteq Settlements
    BY <1>1 DEF Packs
  <2> QED
    BY <2>1, CascadeAssumption, FS_Subset, FS_CardinalityType
<1>3. w \in Best(Packings(lists, B))
        <=> w \in Packings(lists, B) /\ \A v \in Packings(lists, B) : AtLeast(w, v)
  BY <1>2, BestAre
<1> QED
  BY <1>1, <1>3
-----------------------------------------------------------------------------
\* A packing of the whole book that is one of the best in each group.
Composed(lists, w) ==
  /\ DOMAIN w \subseteq Settlements /\ w = [s \in DOMAIN w |-> w[s]]
  /\ \A G \in Components(lists) : Within(w, G) \in Best(Packings(lists, G))

LEMMA ComposedPacks ==
  ASSUME credit \in [Settlements -> Int], NEW lists, NEW w, Composed(lists, w)
  PROVE  Packs(lists, Settlements, w)
<1>1. \A G \in Components(lists) : G \subseteq Settlements /\ Packs(lists, G, Within(w, G))
  BY GroupsAreAll, BestPackings DEF Composed
<1>2. ASSUME NEW s \in DOMAIN w
      PROVE  \E G \in Components(lists) : s \in G
  BY <1>2, GroupsAreAll DEF Composed
<1>3. ASSUME NEW G \in Components(lists), NEW s \in DOMAIN w \cap G
      PROVE  /\ w[s] \in lists[s]
             /\ \A t \in DOMAIN w \cap G : s # t => w[s] \cap w[t] = {}
  <2>1. Packs(lists, G, Within(w, G))
    BY <1>1
  <2> QED
    BY <1>3, <2>1 DEF Packs, Within
<1>4. \A s \in DOMAIN w : w[s] \in lists[s]
  BY <1>2, <1>3
<1>5. ASSUME NEW s \in DOMAIN w, NEW t \in DOMAIN w, s # t
      PROVE  w[s] \cap w[t] = {}
  <2>1. PICK G \in Components(lists) : s \in G
    BY <1>2
  <2>2. CASE t \in G
    BY <1>3, <1>5, <2>1, <2>2
  <2>3. CASE t \notin G
    <3>1. Apart(lists, G) /\ t \in Settlements \ G
      BY <2>3, GroupsAreAll DEF Composed
    <3>2. (UNION lists[s]) \cap (UNION lists[t]) = {}
      BY <2>1, <3>1 DEF Apart
    <3> QED
      BY <1>4, <3>2
  <2> QED
    BY <2>2, <2>3
<1> QED
  BY <1>4, <1>5 DEF Packs, Composed

\* Where it is best in each group it is best over any of them together: were
\* there groups over which it is not, there would be a fewest of them, and
\* neither one of these nor the others can be to blame.
LEMMA ComposedIsBest ==
  ASSUME credit \in [Settlements -> Int], NEW lists, NEW w, Composed(lists, w),
         NEW v, Packs(lists, Settlements, v)
  PROVE  AtLeast(w, v)
<1> DEFINE groups == Components(lists)
           Sound(C) == AtLeast(Within(w, UNION C), Within(v, UNION C))
           wrong == {C \in SUBSET groups : ~Sound(C)}
<1>1. UNION groups = Settlements /\ \A G \in groups : G \subseteq Settlements
  BY GroupsAreAll
<1>2. IsFiniteSet(groups)
  <2>1. groups \subseteq SUBSET Settlements
    BY <1>1
  <2> QED
    BY <2>1, CascadeAssumption, FS_SUBSET, FS_Subset
<1>3. DOMAIN w \subseteq Settlements /\ w = [s \in DOMAIN w |-> w[s]]
  BY DEF Composed
<1>4. DOMAIN v \subseteq Settlements /\ v = [s \in DOMAIN v |-> v[s]]
  BY DEF Packs
<1>5. Sound(groups) => AtLeast(w, v)
  <2>1. Within(w, UNION groups) = w
    <3>1. DOMAIN w \cap UNION groups = DOMAIN w
      BY <1>1, <1>3
    <3> QED
      BY <1>3, <3>1 DEF Within
  <2>2. Within(v, UNION groups) = v
    <3>1. DOMAIN v \cap UNION groups = DOMAIN v
      BY <1>1, <1>4
    <3> QED
      BY <1>4, <3>1 DEF Within
  <2> QED
    BY <2>1, <2>2
<1>6. wrong = {}
  <2> SUFFICES ASSUME wrong # {} PROVE FALSE
    OBVIOUS
  <2>1. \A C \in wrong : IsFiniteSet(C)
    BY <1>2, FS_Subset
  <2>2. PICK C \in wrong : \A B \in wrong : Cardinality(C) <= Cardinality(B)
    BY <2>1, SmallestSet
  <2>3. C # {}
    <3> SUFFICES ASSUME C = {} PROVE FALSE
      OBVIOUS
    <3>1. DOMAIN Within(w, UNION C) = {} /\ DOMAIN Within(v, UNION C) = {}
      BY DEF Within
    <3>2. AtLeast(Within(w, UNION C), Within(v, UNION C))
      <4>1. Rupees(Within(w, UNION C)) = Total(credit, {})
            /\ Rupees(Within(v, UNION C)) = Total(credit, {})
        BY <3>1 DEF Rupees
      <4>2. Total(credit, {}) \in Int
        BY CascadeAssumption, TotalStep
      <4> QED
        BY <3>1, <4>1, <4>2 DEF AtLeast
    <3> QED
      BY <3>2
  <2>4. PICK G \in C : TRUE
    BY <2>3
  <2> DEFINE D == C \ {G}
             A == UNION D
  <2>5. G \in groups /\ C \subseteq groups /\ D \subseteq groups
    BY <2>2
  <2>6. Sound(D)
    <3> SUFFICES ASSUME ~Sound(D) PROVE FALSE
      OBVIOUS
    <3>1. D \in wrong
      BY <2>5
    <3>2. Cardinality(D) < Cardinality(C)
      BY <2>1, <2>2, OneLess
    <3>3. Cardinality(C) <= Cardinality(D)
      BY <2>2, <3>1
    <3>4. Cardinality(C) \in Nat /\ Cardinality(D) \in Nat
      BY <2>1, <2>2, <3>1, FS_CardinalityType
    <3> QED
      BY <3>2, <3>3, <3>4
  <2>7. UNION C = A \cup G /\ A \cap G = {}
    <3>1. \A H \in D : H \cap G = {}
      <4> SUFFICES ASSUME NEW H \in D, NEW u, u \in H, u \in G PROVE FALSE
        OBVIOUS
      <4>1. H = G
        BY <2>5, GroupsAreDisjoint
      <4> QED
        BY <4>1
    <3> QED
      BY <3>1
  <2>8. A \cup G \subseteq Settlements
    BY <1>1, <2>5
  <2> DEFINE x == Within(w, UNION C)
             y == Within(v, UNION C)
  <2>9. /\ DOMAIN x \subseteq A \cup G /\ DOMAIN y \subseteq A \cup G
        /\ Within(x, A) = Within(w, A) /\ Within(y, A) = Within(v, A)
        /\ Within(x, G) = Within(w, G) /\ Within(y, G) = Within(v, G)
    <3>1. /\ DOMAIN x = DOMAIN w \cap UNION C /\ DOMAIN y = DOMAIN v \cap UNION C
          /\ \A s \in DOMAIN x : x[s] = w[s]
          /\ \A s \in DOMAIN y : y[s] = v[s]
      BY DEF Within
    <3> HIDE DEF x, y
    <3>2. /\ DOMAIN x \cap A = DOMAIN w \cap A /\ DOMAIN x \cap G = DOMAIN w \cap G
          /\ DOMAIN y \cap A = DOMAIN v \cap A /\ DOMAIN y \cap G = DOMAIN v \cap G
      BY <2>7, <3>1
    <3> QED
      BY <2>7, <3>1, <3>2 DEF Within
  <2>10. AtLeast(Within(w, G), Within(v, G))
    <3>1. Within(w, G) \in Best(Packings(lists, G)) /\ G \in SUBSET Settlements
      BY <1>1, <2>5 DEF Composed
    <3>2. Packs(lists, G, Within(v, G))
      <4>1. Packs(lists, Settlements \cap G, Within(v, G))
        BY PartPacks
      <4>2. Settlements \cap G = G
        BY <3>1
      <4> QED
        BY <4>1, <4>2
    <3> QED
      BY <3>1, <3>2, BestPackings
  <2>11. AtLeast(x, y)
    <3> HIDE DEF x, y, A, D
    <3>1. AtLeast(Within(x, A), Within(y, A))
      BY <2>6, <2>9 DEF A
    <3>2. AtLeast(Within(x, G), Within(y, G))
      BY <2>9, <2>10
    <3> QED
      BY <2>7, <2>8, <2>9, <3>1, <3>2, PartsAtLeast
  <2> QED
    BY <2>2, <2>11
<1> QED
  BY <1>5, <1>6

\* "Selections in different components cannot interact" (partition.py).
LEMMA GroupsAddUp ==
  ASSUME credit \in [Settlements -> Int], NEW lists, NEW w, Composed(lists, w)
  PROVE  w \in Best(Packings(lists, Settlements))
<1>1. Packs(lists, Settlements, w)
  BY ComposedPacks
<1>2. \A v : Packs(lists, Settlements, v) => AtLeast(w, v)
  BY ComposedIsBest
<1> QED
  BY <1>1, <1>2, BestPackings

\* Nor does it gain anything to do worse in one of them.
LEMMA BestEverywhere ==
  ASSUME credit \in [Settlements -> Int], NEW lists,
         NEW v, v \in Best(Packings(lists, Settlements)), NEW G \in Components(lists)
  PROVE  Within(v, G) \in Best(Packings(lists, G))
<1> DEFINE B == Settlements \ G
<1>1. G \in SUBSET Settlements /\ Apart(lists, G) /\ G \cup B = Settlements /\ G \cap B = {}
  BY GroupsAreAll
<1>2. Packs(lists, Settlements, v) /\ \A x : Packs(lists, Settlements, x) => AtLeast(v, x)
  BY BestPackings
<1>3. Packs(lists, G, Within(v, G)) /\ Packs(lists, B, Within(v, B))
  <2>1. Packs(lists, Settlements \cap G, Within(v, G))
        /\ Packs(lists, Settlements \cap B, Within(v, B))
    BY <1>2, PartPacks
  <2>2. Settlements \cap G = G /\ Settlements \cap B = B
    BY <1>1
  <2> QED
    BY <2>1, <2>2
<1>4. ASSUME NEW u, Packs(lists, G, u)
      PROVE  AtLeast(Within(v, G), u)
  <2> DEFINE x == Beside(u, Within(v, B))
  <2>1. Packs(lists, Settlements, x)
    <3>1. Packs(lists, G \cup B, x)
      BY <1>1, <1>3, <1>4, BesidePacks
    <3> QED
      BY <1>1, <3>1
  <2>2. AtLeast(v, x)
    BY <1>2, <2>1
  <2>3. DOMAIN u \subseteq G /\ u = [s \in DOMAIN u |-> u[s]]
    BY <1>4 DEF Packs
  <2>4. DOMAIN Within(v, B) = DOMAIN v \cap B /\ \A s \in DOMAIN v \cap B : Within(v, B)[s] = v[s]
    BY DEF Within
  <2>5. /\ DOMAIN x = DOMAIN u \cup (DOMAIN v \cap B)
        /\ \A s \in DOMAIN u : x[s] = u[s]
        /\ \A s \in DOMAIN v \cap B : x[s] = v[s]
    <3>1. DOMAIN x = DOMAIN u \cup (DOMAIN v \cap B)
          /\ \A s \in DOMAIN x : x[s] = IF s \in DOMAIN u THEN u[s] ELSE Within(v, B)[s]
      BY <2>4 DEF Beside
    <3>2. \A s \in DOMAIN v \cap B : s \notin DOMAIN u
      BY <1>1, <2>3
    <3> HIDE DEF x, B
    <3> QED
      BY <2>4, <3>1, <3>2
  <2> HIDE DEF x
  <2>6. Within(x, G) = u /\ Within(x, B) = Within(v, B)
    <3>1. DOMAIN x \cap G = DOMAIN u /\ DOMAIN x \cap B = DOMAIN v \cap B
      BY <1>1, <2>3, <2>5
    <3>2. Within(x, G) = [s \in DOMAIN u |-> u[s]]
      BY <2>5, <3>1 DEF Within
    <3>3. Within(x, B) = Within(v, B)
      BY <2>5, <3>1 DEF Within
    <3> QED
      BY <2>3, <3>2, <3>3
  <2>7. DOMAIN v \subseteq G \cup B /\ DOMAIN x \subseteq G \cup B
    BY <1>1, <1>2, <2>1 DEF Packs
  <2>8. G \cup B \subseteq Settlements
    BY <1>1
  <2>9. AtLeast(Within(v, G), Within(x, G))
    BY <1>1, <2>2, <2>6, <2>7, <2>8, RestAtLeast
  <2> QED
    BY <2>6, <2>9
<1> QED
  BY <1>1, <1>3, <1>4, BestPackings
-----------------------------------------------------------------------------
\* A group has no core exactly when its packing explains all of it.
LEMMA CoreOfAGroup ==
  ASSUME credit \in [Settlements -> Int], NEW lists, NEW G \in SUBSET Settlements,
         NEW pick \in Best(Packings(lists, G)), NEW U \in Cores(Packings(lists, G), G)
  PROVE  U = {} <=> DOMAIN pick = G
<1> DEFINE P == Packings(lists, G)
<1>1. Packs(lists, G, pick) /\ \A v : Packs(lists, G, v) => AtLeast(pick, v)
  BY BestPackings
<1>2. DOMAIN pick \subseteq G /\ pick \in P
  BY <1>1, PackingsAre DEF Packs
<1>3. CASE Satisfiable(P, G)
  <2>1. PICK w \in P : G \subseteq DOMAIN w
    BY <1>3 DEF Satisfiable
  <2>2. Packs(lists, G, w) /\ DOMAIN w = G
    BY <2>1, PackingsAre DEF Packs
  <2>3. Cardinality(G) <= Cardinality(DOMAIN pick)
    <3>1. AtLeast(pick, w)
      BY <1>1, <2>2
    <3>2. Cardinality(G) \in Nat /\ Cardinality(DOMAIN pick) \in Nat
      BY <1>2, CascadeAssumption, FS_Subset, FS_CardinalityType
    <3> QED
      BY <2>2, <3>1, <3>2 DEF AtLeast
  <2>4. DOMAIN pick = G
    <3>1. IsFiniteSet(G) /\ IsFiniteSet(DOMAIN pick)
      BY <1>2, CascadeAssumption, FS_Subset
    <3>2. Cardinality(DOMAIN pick) <= Cardinality(G)
          /\ (Cardinality(DOMAIN pick) = Cardinality(G) => DOMAIN pick = G)
      BY <1>2, <3>1, FS_Subset
    <3>3. Cardinality(G) \in Nat /\ Cardinality(DOMAIN pick) \in Nat
      BY <3>1, FS_CardinalityType
    <3> QED
      BY <2>3, <3>2, <3>3
  <2>5. U = {}
    BY <1>3 DEF Cores
  <2> QED
    BY <2>4, <2>5
<1>4. CASE ~Satisfiable(P, G)
  <2>1. U \in {V \in SUBSET G : ~Satisfiable(P, V)}
    BY <1>4 DEF Cores
  <2>2. Satisfiable(P, {})
    BY <1>2 DEF Satisfiable
  <2>3. U # {}
    BY <2>1, <2>2
  <2>4. DOMAIN pick # G
    BY <1>2, <1>4 DEF Satisfiable
  <2> QED
    BY <2>3, <2>4
<1> QED
  BY <1>3, <1>4

\* A pick that every best packing of its group has, of a settlement whose list is
\* complete.
Settled(lists, full, r) ==
  \A s \in r.forced : \E G \in Components(lists) :
    /\ s \in G /\ s \in full
    /\ \A u \in Best(Packings(lists, G)) : s \in DOMAIN u /\ u[s] = r.chosen[s]

\* What is gathered from the groups: a packing that is best in each, the forced
\* picks of each, and a core if one of them has one.
LEMMA ResultsAre ==
  ASSUME credit \in [Settlements -> Int], NEW lists, NEW full,
         NEW r, r \in Results(lists, full)
  PROVE  /\ Composed(lists, r.chosen)
         /\ Settled(lists, full, r)
         /\ r.conflicted = {} <=> DOMAIN r.chosen = Settlements
<1> DEFINE groups == Components(lists)
<1>1. PICK q : /\ DOMAIN q = groups /\ \A g \in groups : q[g] \in GroupResults(lists, full, g)
               /\ r = Gathered(q)
  BY DEF Results
<1>2. \A g \in groups :
        /\ q[g].chosen \in Best(Packings(lists, g))
        /\ q[g].forced = Forced(q[g].chosen, Best(Packings(lists, g)), full)
        /\ q[g].conflicted \in Cores(Packings(lists, g), g)
  BY <1>1 DEF GroupResults
<1>3. UNION groups = Settlements /\ \A g \in groups : g \in SUBSET Settlements
  BY GroupsAreAll
<1>4. \A g \in groups : /\ DOMAIN q[g].chosen \subseteq g
                        /\ q[g].chosen = [s \in DOMAIN q[g].chosen |-> q[g].chosen[s]]
  BY <1>2, <1>3, BestPackings DEF Packs
<1> DEFINE D == UNION {DOMAIN q[g].chosen : g \in groups}
           c == r.chosen
<1>5. /\ c = [s \in D |-> q[CHOOSE g \in groups : s \in DOMAIN q[g].chosen].chosen[s]]
      /\ r.forced = UNION {q[g].forced : g \in groups}
      /\ r.conflicted = UNION {q[g].conflicted : g \in groups}
  BY <1>1 DEF Gathered
<1> HIDE DEF c
<1>6. ASSUME NEW g \in groups
      PROVE  Within(c, g) = q[g].chosen
  <2>1. ASSUME NEW s \in DOMAIN q[g].chosen
        PROVE  s \in D /\ c[s] = q[g].chosen[s]
    <3>1. s \in D
      OBVIOUS
    <3>2. \A h \in groups : s \in DOMAIN q[h].chosen => h = g
      BY <1>4, <2>1, GroupsAreDisjoint
    <3>3. (CHOOSE h \in groups : s \in DOMAIN q[h].chosen) = g
      BY <3>2
    <3> QED
      BY <1>5, <3>1, <3>3
  <2>2. ASSUME NEW s \in D \cap g
        PROVE  s \in DOMAIN q[g].chosen
    <3>1. PICK h \in groups : s \in DOMAIN q[h].chosen
      OBVIOUS
    <3>2. h = g
      BY <1>4, <2>2, <3>1, GroupsAreDisjoint
    <3> QED
      BY <3>1, <3>2
  <2>3. DOMAIN c = D
    BY <1>5
  <2>4. DOMAIN c \cap g = DOMAIN q[g].chosen
    BY <1>4, <2>1, <2>2, <2>3
  <2>5. Within(c, g) = [s \in DOMAIN q[g].chosen |-> c[s]]
    BY <2>4 DEF Within
  <2>6. [s \in DOMAIN q[g].chosen |-> c[s]] = [s \in DOMAIN q[g].chosen |-> q[g].chosen[s]]
    BY <2>1
  <2> QED
    BY <1>4, <2>5, <2>6
<1>7. Composed(lists, c)
  <2>1. DOMAIN c \subseteq Settlements
    <3>1. DOMAIN c = D
      BY <1>5
    <3>2. \A g \in groups : DOMAIN q[g].chosen \subseteq Settlements
      BY <1>3, <1>4
    <3> QED
      BY <3>1, <3>2
  <2>2. c = [s \in DOMAIN c |-> c[s]]
    BY <1>5
  <2> QED
    BY <1>2, <1>6, <2>1, <2>2 DEF Composed
<1>8. Settled(lists, full, r)
  <2> SUFFICES ASSUME NEW s \in r.forced
               PROVE  \E G \in groups : /\ s \in G /\ s \in full
                        /\ \A u \in Best(Packings(lists, G)) : s \in DOMAIN u /\ u[s] = c[s]
    BY DEF Settled, c
  <2>1. PICK g \in groups : s \in q[g].forced
    BY <1>5
  <2>2. /\ s \in DOMAIN q[g].chosen /\ s \in full
        /\ \A u \in Best(Packings(lists, g)) : s \in DOMAIN u /\ u[s] = q[g].chosen[s]
    BY <1>2, <2>1 DEF Forced
  <2>3. s \in g
    BY <1>4, <2>2
  <2>4. c[s] = q[g].chosen[s]
    <3>1. s \in DOMAIN Within(c, g) /\ Within(c, g)[s] = q[g].chosen[s]
      BY <1>6, <2>2
    <3> QED
      BY <3>1 DEF Within
  <2> QED
    BY <2>2, <2>3, <2>4
<1>9. r.conflicted = {} <=> DOMAIN c = Settlements
  <2>1. \A g \in groups : q[g].conflicted = {} <=> DOMAIN q[g].chosen = g
    BY <1>2, <1>3, CoreOfAGroup
  <2>2. \A g \in groups : DOMAIN q[g].chosen = DOMAIN c \cap g
    BY <1>6 DEF Within
  <2>3. DOMAIN c \subseteq Settlements
    BY <1>7 DEF Composed
  <2>4. r.conflicted = {} <=> \A g \in groups : q[g].conflicted = {}
    BY <1>5
  <2>5. (\A g \in groups : DOMAIN c \cap g = g) <=> DOMAIN c = Settlements
    BY <1>3, <2>3
  <2> QED
    BY <2>1, <2>2, <2>4, <2>5
<1> QED
  BY <1>7, <1>8, <1>9 DEF c

-----------------------------------------------------------------------------
(* What pack() returns *)

Lists == [s \in Settlements |-> CandidateSet(s, PoolUsed(s))]
Complete == {s \in Settlements : IsComplete(s, PoolUsed(s))}

\* While pack() runs the book stands still.
PackInv ==
  packing # NoPacking =>
    /\ phase = "cores"
    /\ packing.lists = Lists /\ packing.full = Complete
    /\ \/ packing.step = "collected" /\ packing.forced = {}
       \/ \E r \in Results(Lists, Complete) :
             /\ packing.chosen = r.chosen /\ packing.forced = r.forced
             /\ packing.conflicted = r.conflicted

LEMMA BookStandsStill ==
  ASSUME UNCHANGED pvars
  PROVE  Lists' = Lists /\ Complete' = Complete /\ Results(Lists, Complete)' = Results(Lists, Complete)
<1>1. net' = net /\ credit' = credit /\ capturedOn' = capturedOn /\ settledOn' = settledOn
  BY DEF pvars, vars, book
<1>2. Lists' = Lists
  BY <1>1 DEF Lists, CandidateSet, PoolUsed, FreshPool, FruitlessRung, Listed, Window
<1>3. Complete' = Complete
  BY <1>1 DEF Complete, IsComplete, CandidateSet, PoolUsed, FreshPool, FruitlessRung, Listed,
              Window
<1>4. Results(Lists, Complete)' = Results(Lists, Complete)
  BY <1>1, <1>2, <1>3 DEF Results, GroupResults, Best, Rupees
<1> QED
  BY <1>2, <1>3, <1>4

LEMMA NextPackInv == PackInv /\ [PackNext]_packvars => PackInv'
<1> SUFFICES ASSUME PackInv, [PackNext]_packvars PROVE PackInv'
  OBVIOUS
<1>1. CASE Engine
  <2>1. packing = NoPacking
    BY <1>1 DEF Engine, PackInv
  <2> QED
    BY <1>1, <2>1 DEF Engine, PackInv
<1>2. CASE Collect
  <2>1. Lists' = Lists /\ Complete' = Complete /\ phase' = phase
    BY <1>2, BookStandsStill DEF Collect, pvars, vars
  <2>2. /\ packing'.step = "collected" /\ packing'.forced = {}
        /\ packing'.lists = Lists /\ packing'.full = Complete
    BY <1>2 DEF Collect, NoPacking, Lists, Complete
  <2> QED
    BY <1>2, <2>1, <2>2 DEF Collect, PackInv
<1>3. CASE Pack
  <2>1. /\ Lists' = Lists /\ Complete' = Complete /\ phase' = phase
        /\ Results(Lists, Complete)' = Results(Lists, Complete)
    BY <1>3, BookStandsStill DEF Pack, pvars, vars
  <2>2. packing # NoPacking
    BY <1>3 DEF Pack, NoPacking
  <2>3. PICK r \in Results(packing.lists, packing.full) :
          packing' = [packing EXCEPT !.step = "packed", !.chosen = r.chosen,
                        !.forced = r.forced, !.conflicted = r.conflicted]
    BY <1>3 DEF Pack
  <2>4. phase = "cores" /\ packing.lists = Lists /\ packing.full = Complete
    BY <2>2 DEF PackInv
  <2> QED
    BY <2>1, <2>3, <2>4 DEF PackInv
<1>4. CASE Overlay
  BY <1>4 DEF Overlay, PackInv
<1>5. CASE NoSolver
  BY <1>5 DEF NoSolver, PackInv
<1>6. CASE UNCHANGED packvars
  <2>1. /\ Lists' = Lists /\ Complete' = Complete /\ phase' = phase /\ packing' = packing
        /\ Results(Lists, Complete)' = Results(Lists, Complete)
    BY <1>6, BookStandsStill DEF packvars, pvars, vars
  <2> QED
    BY <2>1 DEF PackInv
<1> QED
  BY <1>1, <1>2, <1>3, <1>4, <1>5, <1>6 DEF PackNext

\* The lists and the picks that stand when pack() has returned.
LEMMA PackedIs ==
  ASSUME PackInv, packing # NoPacking, packing.step = "packed" \/ packing.forced # {}
  PROVE  /\ packing.lists = Lists /\ packing.full = Complete
         /\ \E r \in Results(Lists, Complete) :
              packing.chosen = r.chosen /\ packing.forced = r.forced
                /\ packing.conflicted = r.conflicted
BY DEF PackInv

\* A complete list leaves nothing out: to choose among all the explanations
\* there are is to choose from it.
LEMMA CompleteListsAreWide ==
  ASSUME net \in [Orders -> Int], NEW s \in Complete
  PROVE  [Lists EXCEPT ![s] = @ \cup Explanations(net, PoolUsed(s), credit[s])] = Lists
<1> DEFINE pool == PoolUsed(s)
<1>1. s \in Settlements /\ CandidateSet(s, pool) # {} /\ Exhaustive(net, pool, credit[s])
  BY DEF Complete, IsComplete
<1>2. PICK r : pool = FreshPool(s, r)
  BY DEF PoolUsed
<1>3. pool \in SUBSET Orders /\ Affordable(net, pool, credit[s]) = pool
  BY <1>2 DEF FreshPool, Affordable, Window
<1>4. Found(net, pool, credit[s]) = Explanations(net, pool, credit[s])
  BY <1>1, <1>3, FoundIsAll
<1>5. Explanations(net, pool, credit[s]) \subseteq CandidateSet(s, pool)
  BY <1>1, <1>4 DEF CandidateSet, Listed
<1> DEFINE all == Explanations(net, pool, credit[s])
<1> HIDE DEF all, pool
<1>6. Lists[s] \cup all = Lists[s]
  BY <1>1, <1>5 DEF Lists, all, pool
<1>7. [Lists EXCEPT ![s] = @ \cup all] = Lists
  BY <1>6 DEF Lists
<1> QED
  BY <1>7 DEF all, pool

\* pack() keeps to the book it has collected.
THEOREM PackingInvariant == PackSpec => [](EngineOK /\ PackInv)
<1>1. PackInit => PackInv
  BY DEF PackInit, PackInv
<1>2. PropIInv => EngineOK
  BY TypesOfTheEngine DEF PropIInv, IInv
<1> QED
  BY <1>1, <1>2, NextPackInv, PackingOnlyNamesCores, PropagationInvariant, PTL DEF PackSpec

\* The packing put together from the groups is one of the best packings of the
\* whole book, for any book, and a conflict is named exactly where some
\* settlement goes without a pick.
THEOREM PackingIsOptimalAlways == PackSpec => []PackingIsOptimal
<1>1. EngineOK /\ PackInv => PackingIsOptimal
  <2> SUFFICES ASSUME EngineOK, PackInv, packing.step = "packed"
               PROVE  /\ packing.chosen \in Best(Packings(packing.lists, Settlements))
                      /\ packing.conflicted = {} <=> DOMAIN packing.chosen = Settlements
    BY DEF PackingIsOptimal
  <2>1. packing # NoPacking
    BY DEF NoPacking
  <2>2. packing.lists = Lists
    BY <2>1, PackedIs
  <2>3. PICK r \in Results(Lists, Complete) :
          packing.chosen = r.chosen /\ packing.conflicted = r.conflicted
    BY <2>1, PackedIs
  <2>4. credit \in [Settlements -> Int]
    BY DEF EngineOK
  <2>5. Composed(Lists, r.chosen) /\ (r.conflicted = {} <=> DOMAIN r.chosen = Settlements)
    BY <2>4, ResultsAre
  <2>6. r.chosen \in Best(Packings(Lists, Settlements))
    BY <2>4, <2>5, GroupsAddUp
  <2> QED
    BY <2>2, <2>3, <2>5, <2>6
<1> QED
  BY <1>1, PackingInvariant, PTL

\* A forced pick stands in every packing of the whole book that is as good,
\* explanations the enumeration would leave off the list included.
THEOREM ForcedPicksHaveNoRival == PackSpec => []ForcedHasNoRival
<1>1. EngineOK /\ PackInv => ForcedHasNoRival
  <2> SUFFICES ASSUME EngineOK, PackInv, NEW s \in packing.forced,
                      NEW w \in Best(Packings([packing.lists EXCEPT ![s] =
                            @ \cup Explanations(net, PoolUsed(s), credit[s])], Settlements))
               PROVE  s \in DOMAIN w /\ w[s] = packing.chosen[s]
    BY DEF ForcedHasNoRival
  <2>1. packing # NoPacking
    BY DEF NoPacking
  <2>2. packing.lists = Lists
    BY <2>1, PackedIs
  <2>3. PICK r \in Results(Lists, Complete) :
          packing.chosen = r.chosen /\ packing.forced = r.forced
    BY <2>1, PackedIs
  <2>4. net \in [Orders -> Int] /\ credit \in [Settlements -> Int]
    BY DEF EngineOK
  <2>5. Settled(Lists, Complete, r)
    BY <2>4, ResultsAre
  <2>6. PICK G \in Components(Lists) :
          /\ s \in G /\ s \in Complete
          /\ \A u \in Best(Packings(Lists, G)) : s \in DOMAIN u /\ u[s] = r.chosen[s]
    BY <2>3, <2>5 DEF Settled
  <2>7. w \in Best(Packings(Lists, Settlements))
    BY <2>2, <2>4, <2>6, CompleteListsAreWide
  <2>8. Within(w, G) \in Best(Packings(Lists, G))
    BY <2>4, <2>7, BestEverywhere
  <2>9. s \in DOMAIN Within(w, G) /\ Within(w, G)[s] = r.chosen[s]
    BY <2>6, <2>8
  <2> QED
    BY <2>3, <2>9 DEF Within
<1> QED
  BY <1>1, PackingInvariant, PTL
=============================================================================
