---------------------------- MODULE Investigator ----------------------------
(***************************************************************************)
(* closepilot/investigator.py: an advisory report on an exception or a     *)
(* settlement, from what read-only tools find in the dashboard's records.  *)
(* Besides the books of Readiness and Lineage it is given                  *)
(*   tainted     bank lines whose narration reads like a directive         *)
(*   names       exception id -> the orders its text and its parts name    *)
(***************************************************************************)
EXTENDS Readiness

ExceptionRef(id) == <<"exception", id>>
CreditRef(c) == <<"bank", c.id>>
OrderRef(o) == <<"order", o>>

\* _get_exception_details and _get_candidate_orders: by id, else the first
\* exception of the settlement of that id.
ExceptionFor(b, target) ==
  LET named == {e \in b.exceptions : Exception(e) = target}
      about == {e \in b.exceptions : Settlement(e.sid) = target}
  IN  CASE named # {} -> First(named)
        [] named = {} /\ about # {} -> First(about)
        [] OTHER -> NoException

\* The settlement the report is about: that of the exception, else the target.
Subject(b, target) ==
  LET e == ExceptionFor(b, target) IN IF e = NoException THEN target ELSE Settlement(e.sid)

OnFile(b, subject) == subject \in {Settlement(s) : s \in DOMAIN b.net}

Mut_Candidates(b, target) ==     \* all orders that any exception names
  (UNION {b.names[e.id] : e \in b.exceptions}) \cap b.orders

\* _get_candidate_orders: what the exception names and the export has.
Candidates(b, target) ==
  LET e == ExceptionFor(b, Subject(b, target))
  IN  IF e = NoException THEN {} ELSE b.names[e.id] \cap b.orders

\* _get_bank_credit_narration: a line with the settlement's UTR anywhere in it.
Lines(b, target) ==
  LET subject == Subject(b, target)
  IN  IF OnFile(b, subject) THEN {c \in b.credits : Settlement(c.utr) = subject} ELSE {}

Report(status, cited, priority) ==
  [status |-> status, cited |-> cited, priority |-> priority]

Conflicted(b, target) ==
  LET e == ExceptionFor(b, target)
  IN  /\ e.reason = "MULTIPLE_VALID_ASSIGNMENTS" /\ e.unexplained > 0
      /\ Cardinality(Candidates(b, target)) > 1

CitedExceptions(b, target) ==
  LET e == ExceptionFor(b, target)
  IN  IF e = NoException THEN {} ELSE {ExceptionRef(e.id)}

\* investigate, its early returns in order.  Of several lines with the UTR the
\* first in the statement is read; the books have at most one.
Findings(b, target, e, lines, filed, suspicious) ==
  CASE suspicious -> Report("REJECTED_UNTRUSTED_CONTENT", {}, 1000000)
    [] ~suspicious /\ e = NoException /\ filed = {} ->
         Report("INSUFFICIENT_EVIDENCE", {}, 500000)
    [] ~suspicious /\ lines \cap b.tainted # {} ->
         Report("REJECTED_UNTRUSTED_CONTENT", {CreditRef(c) : c \in lines}, 1000000)
    [] ~suspicious /\ lines \cap b.tainted = {} /\ Conflicted(b, target) ->
         Report("CONFLICTING_EVIDENCE",
                CitedExceptions(b, target) \cup {Subject(b, target)}, 750000)
    [] OTHER ->
         Report("COMPLETED",
                CitedExceptions(b, target) \cup filed \cup {CreditRef(c) : c \in lines}
                  \cup {OrderRef(o) : o \in Candidates(b, target)},
                200000 + (e.unexplained \div 1000))

Investigate(b, target, suspicious) ==
  Findings(b, target, ExceptionFor(b, target), Lines(b, target),
           {s \in {Subject(b, target)} : OnFile(b, s)}, suspicious)

\* validate_grounding, of the references cited: what the tools returned.  The
\* orders an exception names are evidence whether exported or not.
Retrieved(b, target) ==
  LET subject == Subject(b, target)
      e == ExceptionFor(b, target)
  IN  CitedExceptions(b, target) \cup {subject}
      \cup {CreditRef(c) : c \in Lines(b, target)}
      \cup {OrderRef(o) : o \in Candidates(b, target)}
      \cup (IF e = NoException THEN {} ELSE {OrderRef(o) : o \in b.names[e.id]})
=============================================================================
