------------------------------ MODULE SubsetSum ------------------------------
(***************************************************************************)
(* The L3 decision of attest/subsetsum.py and the kernel of                *)
(* attest/verdict.py, as pure operators.                                   *)
(*                                                                         *)
(* The depth-first search is described by what it returns: a set S of      *)
(* orders is reported exactly when S fits the credit, no part of S the     *)
(* walk passes through on its way to S fits already, and none of the three *)
(* cuts stops the walk before S is complete.  Orders are visited largest   *)
(* net first, so the walk passes through the prefixes of S in that order.  *)
(***************************************************************************)
EXTENDS Amounts

CONSTANTS
  Orders,      \* order ids in the portfolio
  Position,    \* Orders -> Nat: place in the pool, breaks ties on net.  The pool is
               \* read out of a set of dates, so any order of ties is possible.
  MaxTarget,   \* MAX_TARGET_PAISE
  MaxPool,     \* MAX_POOL
  MaxEnum,     \* MAX_ENUM: explanations kept for a reader
  BandCap      \* the 64 in solve(): the largest bundle the band allows for

ASSUME SubsetSumAssumption ==
  /\ IsFiniteSet(Orders)
  /\ Position \in [Orders -> Nat]
  /\ \A o, p \in Orders : Position[o] = Position[p] => o = p
  /\ MaxTarget \in Nat /\ MaxPool \in Nat
  /\ MaxEnum \in Nat \ {0, 1} /\ BandCap \in Nat \ {0}

\* model.tolerance_paise
Tolerance(size) == size

\* What a set of orders leaves of the credit; net is the book's Orders -> Int.
Residual(net, S, credit) == credit - Total(net, S)

\* |residual| within the rounding bound of a bundle of this size.
Fits(net, S, credit) ==
  Magnitude(Residual(net, S, credit)) <= Tolerance(Cardinality(S))

\* verdict.check on a proof whose figures were recomputed from S: the cited
\* orders exist, none twice (S is a set), and the residual is in bound.
KernelAccepts(net, S, credit) == S \subseteq Orders /\ Fits(net, S, credit)

\* The amount ceiling: blocking.py keeps 0 < net <= credit, solve() again.
Affordable(net, pool, credit) ==
  {o \in pool : 0 < net[o] /\ net[o] <= credit}

\* Items sorted by descending net, ties in file order.
Before(net, o, p) ==
  \/ net[o] > net[p]
  \/ net[o] = net[p] /\ Position[o] < Position[p]

Chosen(net, S, o) == {p \in S : Before(net, p, o)}

\* _reachable: the sums in 0..credit that some subset of the pool makes.
Reachable(net, pool, credit) ==
  {Total(net, S) : S \in SUBSET pool} \cap (0 .. credit)

Band(pool) ==
  Tolerance(IF Cardinality(pool) < BandCap THEN Cardinality(pool) ELSE BandCap)

\* `unreachable` negated: some reachable sum lies within the band of r.
Attainable(reach, band, r) ==
  r < 0 \/ \E x \in reach : Magnitude(x - r) <= band

\* None of the three cuts of `walk` fires at the node that is about to take
\* o with r left to explain: overshoot, too little left, r unreachable.
Uncut(net, pool, reach, r, o) ==
  /\ r >= -Band(pool)
  /\ Total(net, {q \in pool : ~Before(net, q, o)}) >= r - Band(pool)
  /\ Attainable(reach, Band(pool), r)

Mut_Explanations(net, pool, credit) ==   \* the walk gives up on ties
  {S \in SUBSET pool :
     /\ S # {}
     /\ Fits(net, S, credit)
     /\ \A o, p \in S : net[o] = net[p] => o = p}

\* _enumerate without a limit.
Explanations(net, pool, credit) ==
  LET fits == {S \in SUBSET pool : S # {} /\ Fits(net, S, credit)}
      reach == Reachable(net, pool, credit)
  IN  {S \in fits :
         \A o \in S :
           LET P == Chosen(net, S, o)
           IN  /\ P \notin fits
               /\ Uncut(net, pool, reach, Residual(net, P, credit), o)}

\* The walk tries "take the item" before "leave it": S is reported before T
\* when the first item they disagree on is in S.
ReportedBefore(net, S, T) ==
  \E o \in S \ T : \A p \in T \ S : Before(net, o, p)

InEnvelope(pool, credit) ==
  credit <= MaxTarget /\ Cardinality(pool) <= MaxPool

Mut_Found(net, pool, credit) ==      \* the walk stops at its first hit
  LET usable == Affordable(net, pool, credit)
      all == Explanations(net, usable, credit)
  IN  {S \in all : ~\E T \in all : ReportedBefore(net, T, S)}

\* The explanations solve() returns: the first MaxEnum the walk reports.
Found(net, pool, credit) ==
  LET usable == Affordable(net, pool, credit)
      all == Explanations(net, usable, credit)
  IN  {S \in all :
         Cardinality({T \in all : ReportedBefore(net, T, S)}) < MaxEnum}

Exhaustive(net, pool, credit) ==
  Cardinality(Explanations(net, Affordable(net, pool, credit), credit)) <= MaxEnum

\* What the search is there to find: a set that fits the credit, does not
\* overshoot it, and leaves no more than the band opened for this pool.
InReach(net, pool, S, credit) ==
  /\ S # {} /\ Fits(net, S, credit)
  /\ Residual(net, S, credit) \in 0 .. Band(pool)
=============================================================================
