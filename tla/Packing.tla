-------------------------------- MODULE Packing --------------------------------
(***************************************************************************)
(* Layer 4b, attest/partition.py: the whole book as a set packing.  Each   *)
(* settlement lists its explanations out of pools nobody has consumed      *)
(* from; the book falls apart into groups that share orders; each group is *)
(* packed optimally, the picks no equally good packing avoids are forced,  *)
(* and the settlements that cannot all be explained are named.  The engine *)
(* takes only the names (pipeline._attach_cores); the benchmark posts the  *)
(* forced picks.  CP-SAT is external and taken to answer in its ten        *)
(* seconds.                                                                *)
(***************************************************************************)
EXTENDS Propagation

VARIABLE packing     \* how far pack() is and what it returned; NoPacking outside of it

packvars == <<pvars, packing>>

NoFunction == [s \in {} |-> {}]
NoPacking == [step |-> "none", lists |-> NoFunction, full |-> {},
              chosen |-> NoFunction, forced |-> {}, conflicted |-> {}]

PackInit == PropInit /\ packing = NoPacking

-----------------------------------------------------------------------------
(* collect *)

\* index.pool of a fresh index: nothing is ever struck from it.
FreshPool(s, r) == Affordable(net, Window(s, r), credit[s])

\* The explanations of s out of this pool: the single match, when there is
\* exactly one, and the first MaxEnum of the search.
Listed(pool, s) ==
  LET singles == {o \in pool : Fits(net, {o}, credit[s])}
  IN  {{o} : o \in {p \in singles : singles = {p}}} \cup Found(net, pool, credit[s])

\* The loop over the rungs goes on while the search comes back with nothing.
FruitlessRung(s, r) ==
  InEnvelope(FreshPool(s, r), credit[s]) /\ Listed(FreshPool(s, r), s) = {}

\* The first pool with an explanation or out of the envelope, else the widest.
PoolUsed(s) ==
  FreshPool(s, CHOOSE r \in 0 .. LastRung :
                 /\ \A q \in 0 .. r - 1 : FruitlessRung(s, q)
                 /\ r = LastRung \/ ~FruitlessRung(s, r))

\* OutOfEnvelope leaves no candidates, the single match included.
CandidateSet(s, pool) ==
  IF InEnvelope(pool, credit[s]) THEN Listed(pool, s) ELSE {}

IsComplete(s, pool) ==
  /\ CandidateSet(s, pool) # {}
  /\ Exhaustive(net, pool, credit[s])

-----------------------------------------------------------------------------
(* components, solve_component, _forced, cores_for *)

\* No order is cited both inside the group and outside of it.
Apart(lists, group) ==
  \A s \in group, t \in Settlements \ group :
    (UNION lists[s]) \cap (UNION lists[t]) = {}

Mut_GroupOf(lists, s) == {s}     \* nothing is linked

\* Those linked to s over shared orders, directly or through others: they are
\* in every group with s that stands apart.
GroupOf(lists, s) ==
  {t \in Settlements : \A group \in SUBSET Settlements :
                         s \in group /\ Apart(lists, group) => t \in group}

Components(lists) == {GroupOf(lists, s) : s \in Settlements}

\* At most one explanation of each settlement of the group, and no order in
\* two of them.
Packings(lists, group) ==
  UNION {{w \in [part -> UNION {lists[s] : s \in part}] :
            \A s \in part : /\ w[s] \in lists[s]
                            /\ \A t \in part \ {s} : w[s] \cap w[t] = {}}
         : part \in SUBSET group}

Rupees(w) == Total(credit, DOMAIN w)

\* Most settlements explained, and of those the most rupees.
Best(packings) ==
  LET most == {w \in packings : \A v \in packings :
                 Cardinality(DOMAIN v) <= Cardinality(DOMAIN w)}
  IN  {w \in most : \A v \in most : Rupees(v) <= Rupees(w)}

Mut_Forced(pick, best, full) ==      \* the list is not asked to be complete
  {s \in DOMAIN pick : \A w \in best : s \in DOMAIN w /\ w[s] = pick[s]}

\* Forbidding the pick leaves no packing as good; never of a truncated list.
Forced(pick, best, full) ==
  {s \in DOMAIN pick \cap full :
     \A w \in best : s \in DOMAIN w /\ w[s] = pick[s]}

\* The set can be explained as a whole.
Satisfiable(packings, group) == \E w \in packings : group \subseteq DOMAIN w

\* What the cores of a group may name: any set that cannot be explained as a
\* whole, and none when the whole group can.
Cores(packings, group) ==
  IF Satisfiable(packings, group) THEN {{}}
  ELSE {U \in SUBSET group : ~Satisfiable(packings, U)}

\* solve_component and cores_for, of one group.
GroupResults(lists, full, group) ==
  LET packings == Packings(lists, group)
      best == Best(packings)
  IN  {[chosen |-> pick, forced |-> Forced(pick, best, full), conflicted |-> U] :
         pick \in best, U \in Cores(packings, group)}

\* What each group has returned, gathered by chosen.update, forced |= and
\* core_by_sid.setdefault.
Gathered(r) ==
  LET groups == DOMAIN r
  IN  [chosen |-> [s \in UNION {DOMAIN r[g].chosen : g \in groups} |->
                     r[CHOOSE g \in groups : s \in DOMAIN r[g].chosen].chosen[s]],
       forced |-> UNION {r[g].forced : g \in groups},
       conflicted |-> UNION {r[g].conflicted : g \in groups}]

Results(lists, full) ==
  LET groups == Components(lists)
      returned == [g \in groups |-> GroupResults(lists, full, g)]
  IN  {Gathered(r) : r \in {q \in [groups -> UNION {returned[g] : g \in groups}] :
                              \A g \in groups : q[g] \in returned[g]}}

-----------------------------------------------------------------------------

\* _attach_cores calls pack, and pack collects the candidates.
Collect ==
  /\ phase = "cores" /\ packing = NoPacking
  /\ LET used == [s \in Settlements |-> PoolUsed(s)]
     IN  packing' = [NoPacking EXCEPT
           !.step = "collected",
           !.lists = [s \in Settlements |-> CandidateSet(s, used[s])],
           !.full = {s \in Settlements : IsComplete(s, used[s])}]
  /\ UNCHANGED pvars

\* Group by group, the packing, the forced picks and the cores.
Pack ==
  /\ packing.step = "collected"
  /\ \E r \in Results(packing.lists, packing.full) :
       packing' = [packing EXCEPT !.step = "packed", !.chosen = r.chosen,
                     !.forced = r.forced, !.conflicted = r.conflicted]
  /\ UNCHANGED pvars

\* The cores pack named are laid over the findings that may take one.
Overlay ==
  /\ packing.step = "packed"
  /\ AttachCores
  /\ \A s \in Settlements : Explainable(findings[s]) =>
       (findings'[s].core <=> s \in packing.conflicted)
  /\ packing' = NoPacking
  /\ UNCHANGED deduction

\* ortools is not installed, or pack raises.
NoSolver ==
  /\ packing = NoPacking
  /\ AttachCores
  /\ UNCHANGED <<findings, deduction, packing>>

Engine == /\ phase # "cores"
          /\ PropNext
          /\ UNCHANGED packing

PackNext == Engine \/ Collect \/ Pack \/ Overlay \/ NoSolver

PackSpec == PackInit /\ [][PackNext]_packvars

-----------------------------------------------------------------------------
(* Properties *)

\* "Selections in different components cannot interact" (partition.py): the
\* packing put together from the groups is one of the best packings of the
\* whole book, so no order is in two picks, and no settlement goes without a
\* pick unless somebody's claim on shared orders is named.
PackingIsOptimal ==
  packing.step = "packed" =>
    /\ packing.chosen \in Best(Packings(packing.lists, Settlements))
    /\ packing.conflicted = {} <=> DOMAIN packing.chosen = Settlements

\* "no alternative solution of equal optimal value assigns it anything else"
\* (partition.py): a forced pick stands in every equally good packing, also
\* when the settlement may choose among all the explanations there are, those
\* the enumeration would leave off its list included.
ForcedHasNoRival ==
  \A s \in packing.forced :
    LET pool == PoolUsed(s)
        wider == [packing.lists EXCEPT ![s] =
                    @ \cup Explanations(net, pool, credit[s])]
    IN  \A w \in Best(Packings(wider, Settlements)) :
          s \in DOMAIN w /\ w[s] = packing.chosen[s]
=============================================================================
