--------------------------------- MODULE Agents ---------------------------------
(***************************************************************************)
(* attest/agents.py: who may ask for what, and the one route from an       *)
(* agent's intent to an action.  Requests come from api.agents_view, which *)
(* shows the engine's own findings, and may come about a finding the       *)
(* hypothesis loop proposed: request takes any.                            *)
(***************************************************************************)
EXTENDS Hypothesis, Posting

VARIABLE attempt      \* where the request stopped, "none" before it is made

NeverGranted ==
  {"post_accounting_entry", "mark_reconciled", "trigger_refund", "modify_record"}

\* ROSTER: what each agent holds.
Roster ==
  [reconciliation |-> {"read_orders", "read_settlements", "run_solver", "explain"},
   investigation |-> {"read_orders", "read_evidence", "search_evidence",
                      "propose_hypothesis", "run_solver", "create_investigation", "recommend"},
   evidence |-> {"read_orders", "read_settlements", "read_evidence", "search_evidence"},
   explanation |-> {"read_evidence", "explain"},
   policy |-> {"read_settlements", "recommend"}]

Stages == <<"capability", "evidence", "verification", "policy">>

\* A request: who asks for what, whether records came with it, and about which
\* finding, if any, at which price of error.
Requests(agents, capabilities, shown, prices) ==
  [agent : agents, capability : capabilities,
   evidence : BOOLEAN, finding : shown, price : prices]

NoFinding == Undecided

Passes(stage, q) ==
  CASE stage = "capability" ->
         /\ q.agent \in DOMAIN Roster
         /\ q.capability \notin NeverGranted
         /\ q.capability \in Roster[q.agent]
    [] stage = "evidence" -> q.evidence
    [] stage = "verification" -> Postable(q.finding)
    [] stage = "policy" ->
         Judgement(q.finding.verdict, credit[subject], q.price) = "AUTO_POST"

\* Pipeline.request: the stages in order, up to the first that refuses.
StoppedAt(q) ==
  LET refusing == {i \in DOMAIN Stages : ~Passes(Stages[i], q)}
  IN  IF refusing = {} THEN "action"
      ELSE Stages[CHOOSE i \in refusing : \A j \in refusing : i <= j]

AgentsInit == attempt = "none"

\* No request depends on another: one is enough.
Request(agents, capabilities) ==
  /\ loop = "done" /\ attempt = "none"
  /\ \E q \in Requests(agents, capabilities, {NoFinding, findings[subject], proposed},
                       Prices \cup {Unmeasured}) :
       attempt' = StoppedAt(q)
  /\ UNCHANGED <<loopvars, vars>>

-----------------------------------------------------------------------------
(* Properties *)

\* An agent's intent reaches the action stage only about a settlement the
\* engine proved by itself and the ledger would post: nothing the loop was
\* talked into gets there (agents.py: a finding is actionable when it is
\* unique, kernel-checked and its space is intact).
PermittedIsPosted ==
  attempt = "action" =>
    /\ findings[subject].verdict = "PROVEN"
    /\ ~Refused(subject, "AUTO_POST")
=============================================================================
