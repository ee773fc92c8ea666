----------------------------- MODULE Propagation -----------------------------
(***************************************************************************)
(* Layer 4 of the engine, attest/evidence.py, run over the findings of the *)
(* cascade when ATTEST_PROP is set.  A round deduces owners from what every *)
(* surviving explanation of a settlement has in common, then removes the    *)
(* explanations that cite an order owned elsewhere; rounds repeat until one *)
(* of them changes nothing, or the bound on rounds is met.                  *)
(***************************************************************************)
EXTENDS Cascade

CONSTANTS
  Nobody,      \* owner of an order nothing was deduced about
  MaxRounds    \* max_rounds of to_fixed_point

ASSUME PropagationAssumption ==
  /\ Nobody \notin Settlements
  /\ MaxRounds \in Nat \ {0}

VARIABLES
  claimed,     \* order -> settlement that owns it
  rounds,      \* rounds begun
  changed,     \* the round under way has deduced an owner
  stage,       \* "waiting", then "deduce" and "eliminate", then "settled"
  received,    \* history: the explanations the cascade listed
  worlds       \* history: the ways the whole book may be explained

deduction == <<claimed, rounds, changed, stage, received, worlds>>
pvars == <<vars, deduction>>

PropInit ==
  /\ Init
  /\ claimed = [o \in Orders |-> Nobody]
  /\ rounds = 0 /\ changed = FALSE
  /\ stage = "waiting"
  /\ received = [s \in Settlements |-> {}]
  /\ worlds = {}

\* Everything the enumeration would have listed without its cap.  A match by
\* layer 2 stands by itself.
Candidates(s) ==
  IF findings[s].layer = "L3-dp"
  THEN Explanations(net, findings[s].space.members, credit[s])
  ELSE findings[s].proofs

\* The ways of explaining every explained settlement without sharing orders.
Worlds ==
  LET explained == {s \in Settlements : findings[s].proofs # {}}
      listed == [s \in explained |-> Candidates(s)]
  IN  {w \in [explained -> UNION {listed[s] : s \in explained}] :
         \A s \in explained :
           /\ w[s] \in listed[s]
           /\ \A t \in explained \ {s} : w[s] \cap w[t] = {}}

-----------------------------------------------------------------------------

\* The place in the list of the last finding that says something of an order.
Last(places) == CHOOSE i \in places : \A j \in places : j <= i

\* The loop that fills `claimed`: a later finding overwrites an earlier one.
Seeding(o) ==
  {i \in DOMAIN work : LET f == findings[work[i]]
                       IN  f.verdict = "PROVEN" /\ o \in UNION f.proofs}

\* to_fixed_point before its first round.
Seed ==
  /\ phase = "done" /\ stage = "waiting"
  /\ claimed' = [o \in Orders |->
       IF Seeding(o) # {} THEN work[Last(Seeding(o))] ELSE Nobody]
  /\ received' = [s \in Settlements |-> findings[s].proofs]
  /\ worlds' = Worlds
  /\ stage' = "deduce"
  /\ UNCHANGED <<vars, rounds, changed>>

Mut_ForcedMembers(f) ==          \* a truncated list is taken for the whole
  IF f.proofs = {} THEN {} ELSE {o \in Orders : \A p \in f.proofs : o \in p}

\* Orders common to every explanation, when every explanation is listed.
ForcedMembers(f) ==
  IF f.proofs = {} \/ ~f.exhaustive THEN {}
  ELSE {o \in Orders : \A p \in f.proofs : o \in p}

Forcing(o) == {i \in DOMAIN work : o \in ForcedMembers(findings[work[i]])}

Deduced == {o \in Orders : claimed[o] = Nobody /\ Forcing(o) # {}}

\* The first loop of propagate, and claimed.update(forced) after it.
Deduce ==
  /\ stage = "deduce"
  /\ claimed' = [o \in Orders |->
       IF o \in Deduced THEN work[Last(Forcing(o))] ELSE claimed[o]]
  /\ changed' = (Deduced # {})
  /\ rounds' = rounds + 1
  /\ stage' = "eliminate"
  /\ UNCHANGED <<vars, received, worlds>>

Mut_Survivors(s) ==              \* an order owned by anyone kills a candidate
  {p \in findings[s].proofs : \A o \in p : claimed[o] = Nobody}

Survivors(s) ==
  {p \in findings[s].proofs : \A o \in p : claimed[o] \in {Nobody, s}}

Refuted(s) == findings[s].verdict = "AMBIGUOUS" /\ Survivors(s) # findings[s].proofs

Mut_Rewritten(s) ==              \* the promoted finding keeps its space
  [findings[s] EXCEPT
     !.verdict = IF Survivors(s) = {} THEN "CONTRADICTED"
                 ELSE IF \E p \in Survivors(s) : Survivors(s) = {p} THEN "PROVEN"
                 ELSE "AMBIGUOUS",
     !.proofs = Survivors(s)]

\* The finding built in place of a refuted one.  It is built anew: neither
\* the search space nor a solver's core is carried over.
Rewritten(s) ==
  [findings[s] EXCEPT
     !.verdict = IF Survivors(s) = {} THEN "CONTRADICTED"
                 ELSE IF \E p \in Survivors(s) : Survivors(s) = {p} THEN "PROVEN"
                 ELSE "AMBIGUOUS",
     !.proofs = Survivors(s),
     !.exhaustive = @ /\ Survivors(s) # {},
     !.space = EmptySpace,
     !.core = FALSE]

\* The second loop of propagate, and the test that ends to_fixed_point.
Eliminate ==
  /\ stage = "eliminate"
  /\ findings' = [s \in Settlements |->
       IF Refuted(s) THEN Rewritten(s) ELSE findings[s]]
  /\ stage' = IF rounds < MaxRounds /\ (changed \/ \E s \in Settlements : Refuted(s))
              THEN "deduce" ELSE "settled"
  /\ UNCHANGED <<book, turn, rung, spent, phase, claimed, rounds, changed,
                 received, worlds>>

Cascading == Next /\ UNCHANGED deduction

PropNext == Cascading \/ Seed \/ Deduce \/ Eliminate

PropSpec == PropInit /\ [][PropNext]_pvars

-----------------------------------------------------------------------------
(* Properties *)

\* "the propagation only removes possibilities that were already impossible"
\* (evidence.py): an explanation that is part of a consistent explanation of
\* the whole book is never removed from the list it was on.
OnlyTheImpossibleIsRemoved ==
  \A w \in worlds : \A s \in DOMAIN w :
    w[s] \in received[s] => w[s] \in findings[s].proofs

\* "X belongs to that settlement regardless of which explanation is ultimately
\* correct": an owner deduced is the owner in every consistent explanation,
\* the ones the cap left off the lists included.
OwnersAreEntailed ==
  \A w \in worlds : \A o \in Orders :
    claimed[o] # Nobody => o \in w[claimed[o]]

\* Propagation posts nothing and takes nothing back: what a settlement may
\* claim in the books is what the cascade gave it.
DeductionPostsNothing ==
  [][stage # "waiting" =>
       \A s \in Settlements : Claim(findings'[s]) = Claim(findings[s])]_pvars

\* "nothing here can turn an honest AMBIGUOUS into a confident guess": what
\* propagation proves is the answer in every consistent explanation.
PromotionIsNoGuess ==
  \A w \in worlds : \A s \in DOMAIN w :
    findings[s].verdict = "PROVEN" => w[s] \in findings[s].proofs

\* "A conflict -- two settlements forcing the same order -- is a genuine
\* contradiction in the evidence and is left for the caller rather than
\* resolved by preference" (evidence.py:84-86): a round gives no owner to an order
\* that the findings of two settlements force.  No run asks for it: the later one
\* in the list keeps the order (line 93).
ConflictsAreLeftToTheCaller ==
  [][stage = "deduce" =>
       \A o \in Orders :
         (\E i, j \in Forcing(o) : i # j) => claimed'[o] = claimed[o]]_pvars

=============================================================================
