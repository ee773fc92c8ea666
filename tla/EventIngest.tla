----------------------------- MODULE EventIngest -----------------------------
(***************************************************************************)
(* Webhook ingestion: attest/webhooks.py Ingest.handle over EventLog, as   *)
(* attest/web.py serves it, one thread per request and one log for the     *)
(* process, and the demonstration of attest/api.py, which sends four       *)
(* events of its own through the same handle.  Nothing locks the log: a    *)
(* thread may be preempted between any two of its reads and writes of the  *)
(* shared `secret`, `seen` and `events`.                                   *)
(***************************************************************************)
EXTENDS Naturals, Sequences, FiniteSets

CONSTANTS
  Threads,        \* server threads
  Bodies,         \* raw request bodies; a body is its own raw hash
  Unusable,       \* the bodies that are not a JSON object
  Unhandled,      \* the bodies whose kind is not in HANDLED
  IdOf,           \* body -> its "id", or NoId
  NoId,
  DigestOf,       \* body -> hash of its canonical JSON
  Names,          \* body -> the settlements of the book it names
  Shown,          \* the settlements the orders of the demonstration lead to
  Configured,     \* whether the environment holds the gateway's secret
  Overlaps,       \* whether deliveries may overlap
  MaxRequests,    \* bound on deliveries
  MaxDemos,       \* bound on demonstrations
  MaxOverlapping  \* bound on both together where they may overlap

\* The digest is taken over the whole payload, its id included; no id of a
\* gateway is one a demonstration makes up ("evt_demo_" and the log's length).
ASSUME EventAssumption ==
  /\ Bodies # {} /\ Unusable \subseteq Bodies /\ Unhandled \subseteq Bodies
  /\ Configured \subseteq BOOLEAN /\ Overlaps \subseteq BOOLEAN
  /\ {MaxRequests, MaxDemos, MaxOverlapping} \subseteq Nat
  /\ \A b \in Bodies :
       /\ IdOf[b] \notin {"demo"} \X Nat /\ b \notin {"demo"} \X Nat
       /\ b \notin {"demo"} \X Nat \X {"first", "other", "tampered"}
  /\ Threads \cap {"gateway", "forged", "missing", "none"} = {}
  /\ \A b \in Bodies : IdOf[b] \notin Bodies
  /\ \A b, c \in Bodies :
       DigestOf[b] = DigestOf[c] =>
         /\ IdOf[b] = IdOf[c] /\ Names[b] = Names[c]
         /\ b \in Unhandled <=> c \in Unhandled

VARIABLES
  secret,      \* Ingest.secret: whose key signs, "none" when it is not set
  overlap,     \* deliveries of this behaviour may overlap
  seen,        \* EventLog.seen: key -> digest
  events,      \* EventLog.events
  received, demos,   \* deliveries and demonstrations so far
  pc,          \* where each thread is in its handler
  job,         \* the delivery each thread is handling
  entry,       \* the Event each thread has built
  demo         \* the demonstration each thread is giving

vars == <<secret, overlap, seen, events, received, demos, pc, job, entry, demo>>
counts == <<overlap, received, demos>>
log == <<seen, events>>

-----------------------------------------------------------------------------

\* What a delivery from outside may be signed with.
Signatures == {"gateway", "forged", "missing"}

\* A body of the demonstration: its number, and which of the three it is.  The
\* third, changed after it was signed, is never parsed.
DemoBody(n, which) == <<"demo", n, which>>

\* The event id, or the hash of the raw body when it carries none.
Key(b) ==
  IF b \in Bodies THEN (IF IdOf[b] = NoId THEN b ELSE IdOf[b]) ELSE <<b[1], b[2]>>

Digest(b) == IF b \in Bodies THEN DigestOf[b] ELSE b

NamesIn(b) == IF b \in Bodies THEN Names[b] ELSE Shown

Event(j, status) == [body |-> j.body, status |-> status, affected |-> {}]

NoJob == [body |-> CHOOSE b \in Bodies : TRUE, signature |-> "missing"]
NoEntry == Event(NoJob, "unverifiable")
NoDemo == [signs |-> "none", number |-> 0, sent |-> <<>>]

Init ==
  /\ \E c \in Configured : secret = IF c THEN "gateway" ELSE "none"
  /\ overlap \in Overlaps
  /\ seen = <<>> /\ events = <<>>
  /\ received = 0 /\ demos = 0
  /\ pc = [t \in Threads |-> "idle"]
  /\ job = [t \in Threads |-> NoJob]
  /\ entry = [t \in Threads |-> NoEntry]
  /\ demo = [t \in Threads |-> NoDemo]

Goto(t, label) == pc' = [pc EXCEPT ![t] = label]
Build(t, ev) == entry' = [entry EXCEPT ![t] = ev]
Take(t, body, signature) ==
  job' = [job EXCEPT ![t] = [body |-> body, signature |-> signature]]

\* A thread is free for another request.
Free(t) ==
  /\ pc[t] = "idle"
  /\ IF overlap THEN received + demos < MaxOverlapping
     ELSE \A u \in Threads : pc[u] = "idle"

\* A delivery comes in: new, a gateway's retry of an earlier one, or forged.
Receive(t) ==
  /\ Free(t) /\ received < MaxRequests
  /\ received' = received + 1
  /\ \E b \in Bodies, sig \in Signatures : Take(t, b, sig)
  /\ Goto(t, "verify")
  /\ UNCHANGED <<secret, overlap, log, demos, entry, demo>>

\* Someone asks for a demonstration: `if not ing.secret`.
AskDemo(t) ==
  /\ Free(t) /\ demos < MaxDemos
  /\ demos' = demos + 1
  /\ Goto(t, IF secret = "none" THEN "secret" ELSE "sign")
  /\ UNCHANGED <<secret, overlap, log, received, job, entry, demo>>

\* `ing.secret = token_hex(16)`.
SetSecret(t) ==
  /\ pc[t] = "secret"
  /\ secret' = t
  /\ Goto(t, "sign")
  /\ UNCHANGED <<counts, log, job, entry, demo>>

\* `secret = ing.secret`.
ReadSecret(t) ==
  /\ pc[t] = "sign"
  /\ demo' = [demo EXCEPT ![t].signs = secret]
  /\ Goto(t, "number")
  /\ UNCHANGED <<secret, counts, log, job, entry>>

Mut_NumberDemo(t) ==   \* the demonstration has one fixed id
  /\ pc[t] = "number"
  /\ demo' = [demo EXCEPT ![t].number = 0]
  /\ Goto(t, "send")
  /\ UNCHANGED <<secret, counts, log, job, entry>>

\* The nonce: the length of the log.
NumberDemo(t) ==
  /\ pc[t] = "number"
  /\ demo' = [demo EXCEPT ![t].number = Len(events)]
  /\ Goto(t, "send")
  /\ UNCHANGED <<secret, counts, log, job, entry>>

\* The four cases: signed, again, the same id with another amount, and altered
\* after it was signed.
SendCase(t) ==
  /\ pc[t] = "send"
  /\ LET case == Len(demo[t].sent) + 1
         body == DemoBody(demo[t].number,
                          <<"first", "first", "other", "tampered">>[case])
     IN  Take(t, body, IF case = 4 THEN "forged" ELSE demo[t].signs)
  /\ Goto(t, "verify")
  /\ UNCHANGED <<secret, counts, log, entry, demo>>

\* No secret configured: fails closed.
Unverifiable(t) ==
  /\ pc[t] = "verify"
  /\ secret = "none"
  /\ Build(t, Event(job[t], "unverifiable"))
  /\ Goto(t, "append")
  /\ UNCHANGED <<secret, counts, log, job, demo>>

\* Unsigned, signature did not verify, or signed but not a JSON object.
Reject(t) ==
  /\ pc[t] = "verify"
  /\ secret # "none"
  /\ job[t].signature # secret \/ job[t].body \in Unusable
  /\ Build(t, Event(job[t], "bad_signature"))
  /\ Goto(t, "append")
  /\ UNCHANGED <<secret, counts, log, job, demo>>

Mut_Verified(t) ==     \* an empty signature is let through
  /\ pc[t] = "verify"
  /\ secret # "none"
  /\ job[t].signature \in {secret, "missing"} /\ job[t].body \notin Unusable
  /\ Goto(t, "lookup")
  /\ UNCHANGED <<secret, counts, log, job, entry, demo>>

Verified(t) ==
  /\ pc[t] = "verify"
  /\ secret # "none"
  /\ job[t].signature = secret /\ job[t].body \notin Unusable
  /\ Goto(t, "lookup")
  /\ UNCHANGED <<secret, counts, log, job, entry, demo>>

Mut_Lookup(t) ==       \* an event nobody acts on is looked up after all
  /\ pc[t] = "lookup"
  /\ Goto(t, IF Key(job[t].body) \in DOMAIN seen /\ job[t].body \notin Unhandled
             THEN "compare" ELSE "mark")
  /\ UNCHANGED <<secret, counts, log, job, entry, demo>>

\* record: `key in self.seen`.
Lookup(t) ==
  /\ pc[t] = "lookup"
  /\ Goto(t, IF Key(job[t].body) \in DOMAIN seen THEN "compare" ELSE "mark")
  /\ UNCHANGED <<secret, counts, log, job, entry, demo>>

\* record: `self.seen[key] == digest`.
Compare(t) ==
  /\ pc[t] = "compare"
  /\ Build(t, Event(job[t],
       IF seen[Key(job[t].body)] = Digest(job[t].body)
       THEN "duplicate" ELSE "replay_mismatch"))
  /\ Goto(t, "append")
  /\ UNCHANGED <<secret, counts, log, job, demo>>

\* record: `self.seen[key] = digest`, for a handled kind and for any other.
Mark(t) ==
  /\ pc[t] = "mark"
  /\ LET key == Key(job[t].body)
     IN  seen' = [k \in DOMAIN seen \cup {key} |->
                    IF k = key THEN Digest(job[t].body) ELSE seen[k]]
  /\ Build(t, Event(job[t],
       IF job[t].body \in Unhandled THEN "unsupported" ELSE "accepted"))
  /\ Goto(t, "append")
  /\ UNCHANGED <<secret, counts, events, job, demo>>

\* `events.append(ev)`; an accepted event is scoped next.
AppendEvent(t) ==
  /\ pc[t] = "append"
  /\ events' = Append(events, entry[t])
  /\ Goto(t, IF entry[t].status = "accepted" THEN "scope" ELSE "done")
  /\ UNCHANGED <<secret, counts, seen, job, entry, demo>>

\* The event rebuilt with the settlements it touches.
Scope(t) ==
  /\ pc[t] = "scope"
  /\ Build(t, [entry[t] EXCEPT !.affected = NamesIn(job[t].body)])
  /\ Goto(t, "replace")
  /\ UNCHANGED <<secret, counts, log, job, demo>>

\* replace_last.
ReplaceLast(t) ==
  /\ pc[t] = "replace"
  /\ events' = [events EXCEPT ![Len(events)] = entry[t]]
  /\ Goto(t, "done")
  /\ UNCHANGED <<secret, counts, seen, job, entry, demo>>

Demonstrating(t) == demo[t] # NoDemo

\* The caller is told the event: a client, or the demonstration, which goes on.
Reply(t) ==
  /\ pc[t] = "done"
  /\ IF Demonstrating(t)
     THEN /\ demo' = [demo EXCEPT ![t].sent = Append(@,
                        [status |-> entry[t].status, affected |-> entry[t].affected])]
          /\ Goto(t, IF Len(demo'[t].sent) = 4 THEN "told" ELSE "send")
     ELSE Goto(t, "idle") /\ UNCHANGED demo
  /\ job' = [job EXCEPT ![t] = NoJob]
  /\ Build(t, NoEntry)
  /\ UNCHANGED <<secret, counts, log>>

\* The page shows what was sent; the thread takes the next request.
EndDemo(t) ==
  /\ pc[t] = "told"
  /\ demo' = [demo EXCEPT ![t] = NoDemo]
  /\ Goto(t, "idle")
  /\ UNCHANGED <<secret, counts, log, job, entry>>

Handle(t) ==
  \/ Unverifiable(t) \/ Reject(t) \/ Verified(t)
  \/ Lookup(t) \/ Compare(t) \/ Mark(t)
  \/ AppendEvent(t) \/ Scope(t) \/ ReplaceLast(t) \/ Reply(t)

Demonstrate(t) ==
  SetSecret(t) \/ ReadSecret(t) \/ NumberDemo(t) \/ SendCase(t) \/ EndDemo(t)

Next == \E t \in Threads : Receive(t) \/ AskDemo(t) \/ Demonstrate(t) \/ Handle(t)

Spec == Init /\ [][Next]_vars

-----------------------------------------------------------------------------
(* Properties *)

\* "A webhook delivered twice must not be processed twice" (webhooks.py): no
\* two threads hold an event they were told to act on under one key.
AcceptedOnce ==
  \A t, u \in Threads :
    (t # u /\ entry[t].status = "accepted" /\ entry[u].status = "accepted")
      => Key(job[t].body) # Key(job[u].body)

\* "Rejected here, on the record, so the log shows that something arrived and
\* was refused" (webhooks.py:247-249): a signed body that is not a JSON object is
\* in the log when its sender is answered.  No run asks for it: replace_last of
\* another thread may have overwritten the entry, and TLC refutes the statement
\* over EventIngest.cfg.
RefusedOnTheRecord ==
  \A t \in Threads :
    (pc[t] = "done" /\ job[t].signature = secret /\ job[t].body \in Unusable)
      => \E i \in DOMAIN events : events[i] = entry[t]

\* Under any interleaving, whoever sets the secret meanwhile: nothing is
\* remembered, hence no later delivery is ever refused, on the strength of a
\* body that was not signed by the gateway or by a demonstration; and with no
\* secret nothing is remembered at all.
OnlyVerifiedIsSeen ==
  /\ secret = "none" => seen = <<>>
  /\ secret \in Threads => DOMAIN seen \cap {Key(b) : b \in Bodies} = {}
  /\ \A t \in Threads :
       pc[t] \in {"lookup", "compare", "mark", "scope", "replace"} =>
         /\ job[t].signature = IF Demonstrating(t) THEN demo[t].signs ELSE "gateway"
         /\ job[t].body \notin Unusable

\* What a demonstration is told of its four cases, in order.  Each is answered
\* for what it is (the third contradicts the first, and is not the duplicate the
\* docstring announces: DemonstrationAsAnnounced) or refused for its signature,
\* and the first three are refused only if another demonstration has replaced the
\* secret they were signed with.  Two demonstrations that read the same length of
\* the log make up one id, so the first case may be a duplicate; but not where
\* requests do not overlap, whatever was delivered before.
DemonstrationIsReal ==
  \A t \in Threads : pc[t] = "told" =>
    LET told == demo[t].sent
        answers == <<{"accepted", "duplicate"}, {"duplicate"}, {"replay_mismatch"}, {}>>
    IN  /\ Len(told) = 4
        /\ \A i \in 1 .. 4 :
             /\ told[i].status \in answers[i] \cup {"bad_signature"}
             /\ told[i].affected = IF told[i].status = "accepted" THEN Shown ELSE {}
        /\ \A i \in 1 .. 3 :
             told[i].status = "bad_signature" => secret # demo[t].signs
        /\ ~overlap => told[1].status = "accepted" /\ secret = demo[t].signs

\* "duplicate: the same event id with a DIFFERENT body" (demonstrate_events,
\* api.py:1092-1093): the answer its docstring announces for the third case.  No
\* run asks for it: record answers replay_mismatch.
DemonstrationAsAnnounced ==
  \A t \in Threads :
    (~overlap /\ pc[t] = "told") => demo[t].sent[3].status = "duplicate"

\* Deliveries that do not overlap implement the store the log describes.  The
\* record of a judgement is the logged event.
Store == INSTANCE Inbox WITH
  log <- IF overlap THEN <<>>
         ELSE [i \in DOMAIN events |->
                 [key |-> Key(events[i].body), digest |-> Digest(events[i].body),
                  status |-> events[i].status]]

ImplementsInbox == Store!Spec
=============================================================================
