------------------------------- MODULE Lineage -------------------------------
(***************************************************************************)
(* closepilot/lineage.py: the graph from payment events and bank lines,    *)
(* through orders, proofs, findings, exceptions and exposure, to the       *)
(* verdict and its blockers; and the traces through it.  Besides the books *)
(* of Readiness it is given                                                *)
(*   orders      the ids of the exported orders                            *)
(*   credits     [id, utr, whole]: a bank line whose narration has the UTR *)
(*               of settlement utr in it, as a word of its own or not      *)
(* A node is named by its kind and the record it stands for; an exception  *)
(* node and a settlement node bear the name a blocker refers to.           *)
(***************************************************************************)
EXTENDS Readiness

Order(o) == <<"order", o>>
Event(o) == <<"event", o>>
Bank(c) == <<"bank", c.id>>
Feed(c) == <<"feed", c.id>>
FindingNode(s) == <<"finding", s>>
ProofNode(s, i) == <<"proof", s, i>>
Lacking(e) == <<"missing", e.id>>
Exposure(s) == <<"exposure", s>>
Materiality == <<"materiality">>
VerdictNode == <<"verdict">>
BlockerNode(k) == <<"blocker", k.kind, k.ref>>
Carried(e) == <<"carried", e.id>>

ProofsOf(f) == {ProofNode(f.sid, i) : i \in DOMAIN f.proofs}

CitedBy(b) == UNION Assignments(b.findings)

\* The stages of build_lineage; an order a proof cites has a node even when it
\* was not exported.
Nodes(b, x, verdict) ==
  {Order(o) : o \in b.orders \cup CitedBy(b)} \cup {Event(o) : o \in b.orders}
  \cup (UNION {{Bank(c), Feed(c)} : c \in b.credits})
  \cup {Settlement(s) : s \in b.period}
  \cup (UNION {{FindingNode(f.sid)} \cup ProofsOf(f) : f \in b.findings})
  \cup {Exception(e) : e \in b.exceptions}
  \cup {Lacking(e) : e \in {y \in b.exceptions : y.missing}}
  \cup {Exposure(s) : s \in x.items}
  \cup {Materiality, VerdictNode}
  \cup {BlockerNode(k) : k \in verdict.blockers}
  \cup {Carried(e) : e \in verdict.carried}

RecordEdges(b) ==
  {<<Event(o), Order(o)>> : o \in b.orders}
  \cup {<<Feed(c), Bank(c)>> : c \in b.credits}

\* A bank line is linked when the UTR is a word of the narration.
SettlementEdges(b) ==
  {<<Bank(c), Settlement(c.utr)>> :
     c \in {d \in b.credits : d.whole /\ d.utr \in b.period \cap DOMAIN b.net}}
  \cup {<<Settlement(s), VerdictNode>> : s \in b.period}

FindingEdges(b) ==
  UNION {{<<FindingNode(f.sid), Settlement(f.sid)>>}
           \cup {<<p, FindingNode(f.sid)>> : p \in ProofsOf(f)}
           \cup UNION {{<<Order(o), ProofNode(f.sid, i)>> : o \in f.proofs[i].orders}
                       : i \in DOMAIN f.proofs}
         : f \in b.findings}

\* What is established is a sentence and never the id of an order.
ExceptionEdges(b) ==
  {<<Settlement(e.sid), Exception(e)>> : e \in b.exceptions}
  \cup {<<Lacking(e), Exception(e)>> : e \in {y \in b.exceptions : y.missing}}

ExposureEdges(b, x) ==
  UNION {{<<Settlement(s), Exposure(s)>>, <<Exposure(s), Materiality>>}
           \cup {<<FindingNode(s), Exposure(s)>> : f \in FindingsOf(b, s)}
           \cup {<<Exception(e), Exposure(s)>> : e \in ExceptionsOf(b, s)}
         : s \in x.items}

Mut_CauseOf(b, k) ==             \* blockers are linked to exceptions only
  IF k.ref \in {Exception(e) : e \in b.exceptions} THEN {k.ref} ELSE {}

\* What a blocker is traced back to: the exception or the settlement it refers
\* to, or materiality; a reference to a settlement's order is none of these.
CauseOf(b, k) ==
  CASE k.ref \in {Exception(e) : e \in b.exceptions}
                 \cup {Settlement(s) : s \in b.period} -> {k.ref}
    [] k.ref = Period -> {Materiality}
    [] OTHER -> {}

VerdictEdges(b, verdict) ==
  {<<Materiality, VerdictNode>>}
  \cup (UNION {{<<BlockerNode(k), VerdictNode>>}
                 \cup {<<c, BlockerNode(k)>> : c \in CauseOf(b, k)}
               : k \in verdict.blockers})
  \cup UNION {{<<Carried(e), VerdictNode>>, <<Exception(e), Carried(e)>>}
              : e \in verdict.carried}

BuildLineage(books, verdict) ==
  LET b == Scoped(books)
      x == AssessExposure(b)
  IN  [nodes |-> Nodes(b, x, verdict),
       edges |-> RecordEdges(b) \cup SettlementEdges(b) \cup FindingEdges(b)
                   \cup ExceptionEdges(b) \cup ExposureEdges(b, x)
                   \cup VerdictEdges(b, verdict)]

Upstream(edges, reached) == reached \cup {e[1] : e \in {d \in edges : d[2] \in reached}}

Downstream(edges, reached) == reached \cup {e[2] : e \in {d \in edges : d[1] \in reached}}

\* trace_backward: all that a node rests on, itself included.  No path is
\* longer than from an event to the verdict.
LongestPath == 9

TraceBackward(graph, node) ==
  LET after[n \in 0..LongestPath] ==
        IF n = 0 THEN {node} ELSE Upstream(graph.edges, after[n - 1])
  IN  after[LongestPath] \cap graph.nodes

\* trace_forward: all that rests on a node, itself included.
TraceForward(graph, node) ==
  LET after[n \in 0..LongestPath] ==
        IF n = 0 THEN {node} ELSE Downstream(graph.edges, after[n - 1])
  IN  after[LongestPath] \cap graph.nodes

Kind(kind, nodes) == {n \in nodes : n[1] = kind}

\* trace_decision_root_causes: what the verdict rests on, by kind of node.
RootCauses(graph) ==
  LET causes == TraceBackward(graph, VerdictNode)
  IN  [blockers |-> Kind("blocker", causes), carried |-> Kind("carried", causes),
       exposures |-> Kind("exposure", causes), settlements |-> Kind("settlement", causes),
       orders |-> Kind("order", causes), missing |-> Kind("missing", causes)]

\* trace_order_impact, of an order the graph has a node for.
OrderImpact(graph, o) ==
  LET effects == TraceForward(graph, Order(o))
  IN  [settlements |-> Kind("settlement", effects),
       findings |-> Kind("finding", effects) \cup Kind("proof", effects),
       exposures |-> Kind("exposure", effects),
       reached |-> VerdictNode \in effects]

\* validate_integrity: an edge to or from a node that is not there, and an
\* exception of a settlement that is not in the period.
Defects(graph) ==
  {e \in graph.edges : e[1] \notin graph.nodes \/ e[2] \notin graph.nodes}

Orphans(b, graph) ==
  {e \in Scoped(b).exceptions : Settlement(e.sid) \notin graph.nodes}
=============================================================================
