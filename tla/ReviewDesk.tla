------------------------------ MODULE ReviewDesk ------------------------------
(***************************************************************************)
(* The human review queue in service: closepilot/review_queue.py           *)
(* `record_action` under closepilot/dashboard.py `_handle_review_action`,  *)
(* one thread per request.  A queue is an immutable value; the handler     *)
(* reads it from the server's state, builds its successor and writes that  *)
(* back, with no lock between the read and the write.                      *)
(***************************************************************************)
EXTENDS Integers, FiniteSets, Sequences, SequencesExt

CONSTANTS
  Threads,       \* server threads
  Items,         \* exception ids in the queue
  Strangers,     \* exception ids that are not
  Reviewers,
  Blank,         \* a missing reviewer or justification
  Overlaps,      \* whether requests may overlap: one controller, or several
  MaxRequests    \* bound on requests

ASSUME DeskAssumption ==
  /\ Items \cap Strangers = {} /\ Items # {}
  /\ Blank \notin Reviewers /\ MaxRequests \in Nat
  /\ Overlaps \subseteq BOOLEAN

VARIABLES
  overlap,       \* requests may overlap in this behaviour
  queue,         \* state["review_queue"]
  pc, request,   \* each thread: where it is, and what it was asked
  copy,          \* the queue each thread read
  reply,         \* the audit record each thread will answer with
  acknowledged,  \* every record a controller has been shown
  received       \* requests so far

vars == <<overlap, queue, pc, request, copy, reply, acknowledged, received>>

-----------------------------------------------------------------------------
(* Queues *)

Statuses == {"PENDING", "IN_REVIEW", "ACTIONED", "DEFERRED"}

\* HumanActionType, the five that close an item out taken as one, and a name
\* that is none of them.
Actions == {"APPROVE", "DEFER_REVIEW", "ASSIGN_REVIEWER"}
Misnamed == "misnamed"

NewStatus(action) ==
  CASE action = "DEFER_REVIEW"    -> "DEFERRED"
    [] action = "ASSIGN_REVIEWER" -> "IN_REVIEW"
    [] action = "APPROVE"         -> "ACTIONED"

\* build_review_queue: every item pending, nobody assigned, an empty log.
NewQueue == [status   |-> [i \in Items |-> "PENDING"],
             assigned |-> [i \in Items |-> Blank],
             log      |-> <<>>]

\* A HumanActionRecord.  Its id is the item and its place in the log.
Record(q, r) ==
  [id |-> <<r.item, Len(q.log) + 1>>, item |-> r.item, action |-> r.action,
   reviewer |-> r.reviewer, previous |-> q.status[r.item],
   new |-> NewStatus(r.action)]

\* An action that names its item, its type, its reviewer and its reason.
Admissible(r) ==
  /\ r.action \in Actions
  /\ r.item \in Items
  /\ r.reviewer # Blank /\ r.justified

Mut_RecordAction(q, r) ==        \* a deferral leaves the item where it was
  [status   |-> IF r.action = "DEFER_REVIEW" THEN q.status
                ELSE [q.status EXCEPT ![r.item] = NewStatus(r.action)],
   assigned |-> q.assigned,
   log      |-> Append(q.log, Record(q, r))]

\* record_action.
RecordAction(q, r) ==
  [status   |-> [q.status EXCEPT ![r.item] = NewStatus(r.action)],
   assigned |-> IF r.action = "ASSIGN_REVIEWER"
                THEN [q.assigned EXCEPT ![r.item] = r.reviewer]
                ELSE q.assigned,
   log      |-> Append(q.log, Record(q, r))]

-----------------------------------------------------------------------------

Requests == [item : Items \cup Strangers, action : Actions \cup {Misnamed},
             reviewer : Reviewers \cup {Blank}, justified : BOOLEAN]

NoRequest == [item |-> CHOOSE i \in Items : TRUE, action |-> Misnamed,
              reviewer |-> Blank, justified |-> FALSE]
NoReply == <<>>

Init ==
  /\ overlap \in Overlaps
  /\ queue = NewQueue
  /\ pc = [t \in Threads |-> "idle"]
  /\ request = [t \in Threads |-> NoRequest]
  /\ copy = [t \in Threads |-> NewQueue]
  /\ reply = [t \in Threads |-> NoReply]
  /\ acknowledged = {}
  /\ received = 0

Goto(t, label) == pc' = [pc EXCEPT ![t] = label]

\* Once the queue is written, or is not going to be, only the reply is left.
Forget(t) ==
  /\ request' = [request EXCEPT ![t] = NoRequest]
  /\ copy' = [copy EXCEPT ![t] = NewQueue]

\* A request comes in and its handler reads the queue.
Receive(t) ==
  /\ pc[t] = "idle"
  /\ overlap \/ \A u \in Threads : pc[u] = "idle"
  /\ received < MaxRequests
  /\ received' = received + 1
  /\ \E r \in Requests : request' = [request EXCEPT ![t] = r]
  /\ copy' = [copy EXCEPT ![t] = queue]
  /\ Goto(t, "record")
  /\ UNCHANGED <<overlap, queue, reply, acknowledged>>

\* record_action raises: 400, and the queue stays as it was.
Refuse(t) ==
  /\ pc[t] = "record"
  /\ ~Admissible(request[t])
  /\ Goto(t, "reply")
  /\ Forget(t)
  /\ UNCHANGED <<overlap, queue, reply, acknowledged, received>>

\* The successor of the queue that was read replaces the queue that is there.
Publish(t) ==
  /\ pc[t] = "record"
  /\ Admissible(request[t])
  /\ LET q == RecordAction(copy[t], request[t])
     IN  /\ queue' = q
         /\ reply' = [reply EXCEPT ![t] = <<q.log[Len(q.log)]>>]
  /\ Goto(t, "reply")
  /\ Forget(t)
  /\ UNCHANGED <<overlap, acknowledged, received>>

\* The controller is shown the audit record, or an error.
Reply(t) ==
  /\ pc[t] = "reply"
  /\ acknowledged' = acknowledged \cup ToSet(reply[t])
  /\ reply' = [reply EXCEPT ![t] = NoReply]
  /\ Goto(t, "idle")
  /\ UNCHANGED <<overlap, queue, request, copy, received>>

Next == \E t \in Threads : Receive(t) \/ Refuse(t) \/ Publish(t) \/ Reply(t)

Spec == Init /\ [][Next]_vars

-----------------------------------------------------------------------------
(* Properties *)

\* The status the records before place n leave item i in.
StatusAt(log, i, n) ==
  LET before == {k \in 1 .. (n - 1) : log[k].item = i}
  IN  IF before = {} THEN "PENDING" ELSE log[Max(before)].new

Follows(q) ==
  \A i \in Items :
    LET given == {k \in DOMAIN q.log : q.log[k].item = i /\ q.log[k].action = "ASSIGN_REVIEWER"}
    IN  /\ \A k \in DOMAIN q.log : q.log[k].item = i => q.log[k].previous = StatusAt(q.log, i, k)
        /\ q.status[i] = StatusAt(q.log, i, Len(q.log) + 1)
        /\ q.assigned[i] = IF given = {} THEN Blank ELSE q.log[Max(given)].reviewer

\* Under any interleaving, the published queue agrees with its own log: an
\* item has the status its last recorded action gave it and the reviewer its
\* last assignment named, each action starts where the one before it on that
\* item ended, and no item moves unrecorded.
QueueFollowsLog == Follows(queue)

\* What a controller was shown as recorded is in the audit trail.
AcknowledgedIsKept == acknowledged \subseteq ToSet(queue.log)

\* As long as requests do not overlap, the desk implements the audit trail: a
\* record once published stays, and every move of an item is on record.
Trail == INSTANCE AuditTrail WITH
  Pending <- "PENDING",
  trail <- IF overlap THEN <<>>
           ELSE [k \in DOMAIN queue.log |->
                   [item |-> queue.log[k].item, from |-> queue.log[k].previous,
                    to |-> queue.log[k].new]],
  status <- IF overlap THEN NewQueue.status ELSE queue.status

ImplementsAuditTrail == Trail!Spec
=============================================================================
