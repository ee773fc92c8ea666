-------------------------- MODULE EventIngest_proofs --------------------------
(***************************************************************************)
(* Webhook ingestion, for any threads, bodies and secrets.  Two arguments: *)
(* who may change the secret, and when, which holds under any interleaving *)
(* and shows that nothing unsigned is remembered; and, when deliveries do  *)
(* not overlap, what `seen` says of the events logged so far.              *)
(***************************************************************************)
EXTENDS EventIngest, SequenceTheorems, WellFoundedInduction, TLAPS

Cases == {"first", "other", "tampered"}
DemoBodies == {"demo"} \X Nat \X Cases
AllBodies == Bodies \cup DemoBodies

Keepers == {"gateway"} \cup Threads          \* whose secret may be set
Statuses == {"unverifiable", "bad_signature", "duplicate", "replay_mismatch",
             "unsupported", "accepted"}
Effects == {{}, Shown} \cup {Names[b] : b \in Bodies}

Jobs == [body : AllBodies, signature : Signatures \cup Keepers]
Entries == [body : AllBodies, status : Statuses, affected : Effects]
Answers == [status : Statuses, affected : Effects]
Demos == [signs : Keepers \cup {"none"}, number : Nat, sent : Seq(Answers)]

Labels == {"idle", "secret", "sign", "number", "send", "told", "verify", "lookup",
           "compare", "mark", "append", "scope", "replace", "done"}
Handling == {"verify", "lookup", "compare", "mark", "append", "scope", "replace", "done"}

\* The delivery got past the signature.
Trusts(t) ==
  \/ pc[t] \in {"lookup", "compare", "mark", "scope", "replace"}
  \/ pc[t] = "append" /\ entry[t].status \notin {"unverifiable", "bad_signature"}

TypeInv ==
  /\ secret \in Keepers \cup {"none"} /\ overlap \in BOOLEAN
  /\ events \in Seq(Entries)
  /\ pc \in [Threads -> Labels] /\ job \in [Threads -> Jobs]
  /\ entry \in [Threads -> Entries] /\ demo \in [Threads -> Demos]

\* The keys deliveries from outside may carry.
GatewayKeys == {Key(b) : b \in Bodies}

\* What is remembered was signed: by the gateway if its secret is configured,
\* by a demonstration otherwise.
SeenInv ==
  /\ secret = "none" => seen = <<>>
  /\ secret \in Threads => DOMAIN seen \cap GatewayKeys = {}

\* A demonstration signs with a secret that was set; a delivery from outside is
\* trusted only while the secret is the gateway's, and that never changes.
ThreadInv(t) ==
  /\ pc[t] = "secret" => secret # "gateway"
  /\ pc[t] = "sign" => secret # "none"
  /\ pc[t] \in {"idle", "secret", "sign"} => demo[t] = NoDemo
  /\ pc[t] \in {"number", "send", "told"} => demo[t] # NoDemo
  /\ demo[t] # NoDemo => demo[t].signs # "none" /\ secret # "none"
  /\ pc[t] # "told" => Len(demo[t].sent) < 4
  /\ pc[t] \in Handling =>
       IF demo[t] = NoDemo THEN job[t].body \in Bodies /\ job[t].signature \in Signatures
       ELSE /\ \E which \in Cases : job[t].body = DemoBody(demo[t].number, which)
            /\ job[t].signature \in {demo[t].signs, "forged"}
  /\ pc[t] \in {"scope", "replace"} => events # <<>>
  /\ Trusts(t) =>
       /\ secret # "none" /\ job[t].body \notin Unusable
       /\ IF demo[t] = NoDemo THEN secret = "gateway" /\ job[t].signature = "gateway"
          ELSE job[t].signature = demo[t].signs

\* The inductive invariant of every interleaving.
IInv == TypeInv /\ SeenInv /\ \A t \in Threads : ThreadInv(t)

-----------------------------------------------------------------------------
(* Bodies, keys and records *)

LEMMA Strangers ==
  /\ Threads \cap Signatures = {} /\ "none" \notin Keepers /\ "gateway" \notin Threads
BY EventAssumption DEF Signatures, Keepers

LEMMA DemoBodyTyped ==
  ASSUME NEW n \in Nat, NEW which \in Cases
  PROVE  /\ DemoBody(n, which) \in AllBodies /\ DemoBody(n, which) \notin Bodies
         /\ Key(DemoBody(n, which)) = <<"demo", n>>
         /\ Digest(DemoBody(n, which)) = DemoBody(n, which)
         /\ NamesIn(DemoBody(n, which)) = Shown
<1>1. DemoBody(n, which) \in DemoBodies
  BY DEF DemoBody, DemoBodies
<1>2. DemoBody(n, which) \notin Bodies
  BY <1>1, EventAssumption DEF DemoBodies, Cases
<1> QED
  BY <1>1, <1>2 DEF AllBodies, Key, Digest, NamesIn, DemoBody

\* No gateway's key is a demonstration's.
LEMMA DemoKeyIsOwn ==
  ASSUME NEW n \in Nat
  PROVE  <<"demo", n>> \notin GatewayKeys
<1>1. \A b \in Bodies : <<"demo", n>> # b /\ <<"demo", n>> # IdOf[b]
  <2>1. <<"demo", n>> \in {"demo"} \X Nat
    OBVIOUS
  <2>2. \A b \in Bodies : IdOf[b] \notin {"demo"} \X Nat /\ b \notin {"demo"} \X Nat
    BY EventAssumption
  <2> QED
    BY ONLY <2>1, <2>2
<1> QED
  BY <1>1 DEF GatewayKeys, Key

LEMMA RecordsTyped ==
  /\ NoJob \in Jobs /\ NoEntry \in Entries
  /\ NoDemo \in Demos /\ NoDemo.signs = "none" /\ Len(NoDemo.sent) = 0
  /\ \A j \in Jobs, s \in Statuses : Event(j, s) \in Entries
<1>1. \A j \in Jobs, s \in Statuses : Event(j, s) \in Entries
  BY DEF Jobs, Event, Entries, Effects
<1>2. NoJob \in Jobs
  <2>1. (CHOOSE b \in Bodies : TRUE) \in AllBodies
    BY EventAssumption DEF AllBodies
  <2> QED
    BY <2>1 DEF NoJob, Jobs, Signatures
<1>3. NoEntry \in Entries
  BY <1>1, <1>2 DEF NoEntry, Statuses
<1>4. <<>> \in Seq(Answers)
  BY EmptySeq
<1> QED
  BY <1>1, <1>2, <1>3, <1>4 DEF NoDemo, Demos

LEMMA NamesTyped ==
  ASSUME NEW b \in AllBodies
  PROVE  NamesIn(b) \in Effects
BY DEF NamesIn, AllBodies, Effects

-----------------------------------------------------------------------------
(* Any interleaving *)

\* Only thread t moves.
OnlyMoves(t) ==
  \A u \in Threads \ {t} :
    pc'[u] = pc[u] /\ job'[u] = job[u] /\ entry'[u] = entry[u] /\ demo'[u] = demo[u]

\* Setting the secret disturbs no other thread: it happens only while nothing
\* but demonstrations can be trusted.
LEMMA MoveKeeps ==
  ASSUME IInv, NEW t \in Threads, OnlyMoves(t),
         secret' = secret \/ (pc[t] = "secret" /\ secret' = t),
         events # <<>> => events' # <<>>, TypeInv', SeenInv', ThreadInv(t)'
  PROVE  IInv'
<1>1. ASSUME NEW u \in Threads \ {t} PROVE ThreadInv(u)'
  <2>1. ThreadInv(u) /\ ThreadInv(t)
    BY DEF IInv
  <2>2. /\ pc'[u] = pc[u] /\ job'[u] = job[u] /\ demo'[u] = demo[u]
        /\ Trusts(u)' <=> Trusts(u)
    BY DEF OnlyMoves, Trusts
  <2>3. CASE secret' = secret
    BY <2>1, <2>2, <2>3 DEF ThreadInv, OnlyMoves
  <2>4. CASE pc[t] = "secret" /\ secret' = t
    <3>1. secret # "gateway" /\ secret' # "gateway" /\ secret' # "none"
      BY <2>1, <2>4, Strangers DEF ThreadInv, Keepers
    <3> QED
      BY <2>1, <2>2, <3>1 DEF ThreadInv
  <2> QED
    BY <2>3, <2>4
<1> QED
  BY <1>1 DEF IInv

LEMMA ArriveKeeps ==
  ASSUME IInv, NEW t \in Threads, Receive(t) \/ AskDemo(t)
  PROVE  IInv'
<1>1. TypeInv /\ SeenInv /\ ThreadInv(t) /\ pc[t] = "idle" /\ demo[t] = NoDemo
  BY DEF IInv, ThreadInv, Receive, AskDemo, Free
<1>2. UNCHANGED <<secret, overlap, seen, events, entry, demo>>
  BY DEF Receive, AskDemo, log
<1>3. CASE Receive(t)
  <2>1. PICK b \in Bodies, sig \in Signatures :
          /\ job' = [job EXCEPT ![t] = [body |-> b, signature |-> sig]]
          /\ pc' = [pc EXCEPT ![t] = "verify"]
    BY <1>3 DEF Receive, Take, Goto
  <2>2. [body |-> b, signature |-> sig] \in Jobs
    BY DEF Jobs, AllBodies
  <2>3. TypeInv' /\ OnlyMoves(t)
    BY <1>1, <1>2, <2>1, <2>2 DEF TypeInv, Labels, OnlyMoves
  <2>4. pc'[t] = "verify" /\ job'[t].body = b /\ job'[t].signature = sig
    BY <1>1, <2>1 DEF TypeInv
  <2>5. ThreadInv(t)' /\ SeenInv'
    BY <1>1, <1>2, <2>4 DEF ThreadInv, SeenInv, Handling, Trusts
  <2> QED
    BY <1>2, <2>3, <2>5, MoveKeeps
<1>4. CASE AskDemo(t)
  <2>1. /\ job' = job
        /\ pc' = [pc EXCEPT ![t] = IF secret = "none" THEN "secret" ELSE "sign"]
    BY <1>4 DEF AskDemo, Goto
  <2>2. TypeInv' /\ OnlyMoves(t)
    BY <1>1, <1>2, <2>1 DEF TypeInv, Labels, OnlyMoves
  <2>3. pc'[t] = IF secret = "none" THEN "secret" ELSE "sign"
    BY <1>1, <2>1 DEF TypeInv
  <2>4. ThreadInv(t)' /\ SeenInv'
    BY <1>1, <1>2, <2>3 DEF ThreadInv, SeenInv, Handling, Trusts
  <2> QED
    BY <1>2, <2>2, <2>4, MoveKeeps
<1> QED
  BY <1>3, <1>4

LEMMA DemonstrateKeeps ==
  ASSUME IInv, NEW t \in Threads, Demonstrate(t)
  PROVE  IInv'
<1>1. TypeInv /\ SeenInv /\ ThreadInv(t)
  BY DEF IInv
<1>2. demo[t] \in Demos /\ demo[t].number \in Nat
  BY <1>1 DEF TypeInv, Demos
<1>3. UNCHANGED <<overlap, seen, events, entry>>
  BY DEF Demonstrate, SetSecret, ReadSecret, NumberDemo, SendCase, EndDemo, counts, log
<1>4. CASE SetSecret(t)
  <2>1. /\ pc[t] = "secret" /\ secret' = t /\ pc' = [pc EXCEPT ![t] = "sign"]
        /\ UNCHANGED <<job, demo>>
    BY <1>4 DEF SetSecret, Goto
  <2>2. TypeInv' /\ OnlyMoves(t) /\ pc'[t] = "sign"
    BY <1>1, <1>3, <2>1 DEF TypeInv, Labels, OnlyMoves, Keepers
  <2>3. secret # "gateway" /\ demo[t] = NoDemo
    BY <1>1, <2>1 DEF ThreadInv
  <2>4. SeenInv'
    <3>1. DOMAIN seen \cap GatewayKeys = {}
      <4>1. CASE secret = "none"
        BY <1>1, <4>1 DEF SeenInv
      <4>2. CASE secret # "none"
        BY <1>1, <2>3, <4>2 DEF SeenInv, TypeInv, Keepers
      <4> QED
        BY <4>1, <4>2
    <3> QED
      BY <1>3, <2>1, <3>1, Strangers DEF SeenInv, Keepers, GatewayKeys
  <2>5. ThreadInv(t)'
    BY <1>1, <2>1, <2>2, <2>3, Strangers DEF ThreadInv, Handling, Trusts, Keepers
  <2> QED
    BY <2>1, <2>2, <2>4, <2>5, <1>3, MoveKeeps
<1>5. CASE ReadSecret(t)
  <2>1. /\ pc[t] = "sign" /\ pc' = [pc EXCEPT ![t] = "number"]
        /\ demo' = [demo EXCEPT ![t] = [demo[t] EXCEPT !.signs = secret]]
        /\ UNCHANGED <<secret, job>>
    BY <1>5 DEF ReadSecret, Goto
  <2>2. /\ [demo[t] EXCEPT !.signs = secret] \in Demos
        /\ [demo[t] EXCEPT !.signs = secret].signs = secret
        /\ [demo[t] EXCEPT !.signs = secret].sent = demo[t].sent
    BY <1>1, <1>2 DEF TypeInv, Demos
  <2>3. /\ TypeInv' /\ OnlyMoves(t) /\ pc'[t] = "number"
        /\ demo'[t].signs = secret /\ demo'[t].sent = demo[t].sent
    BY <1>1, <1>3, <2>1, <2>2 DEF TypeInv, Labels, OnlyMoves
  <2>4. ThreadInv(t)' /\ SeenInv'
    BY <1>1, <1>3, <2>1, <2>3, RecordsTyped DEF ThreadInv, SeenInv, Handling, Trusts
  <2> QED
    BY <2>1, <2>3, <2>4, <1>3, MoveKeeps
<1>6. CASE NumberDemo(t)
  <2>1. /\ pc[t] = "number" /\ pc' = [pc EXCEPT ![t] = "send"]
        /\ demo' = [demo EXCEPT ![t] = [demo[t] EXCEPT !.number = Len(events)]]
        /\ UNCHANGED <<secret, job>>
    BY <1>6 DEF NumberDemo, Goto
  <2>2. Len(events) \in Nat
    BY <1>1, LenProperties DEF TypeInv
  <2>3. /\ [demo[t] EXCEPT !.number = Len(events)] \in Demos
        /\ [demo[t] EXCEPT !.number = Len(events)].signs = demo[t].signs
        /\ [demo[t] EXCEPT !.number = Len(events)].sent = demo[t].sent
    BY <1>2, <2>2 DEF Demos
  <2>4. /\ TypeInv' /\ OnlyMoves(t) /\ pc'[t] = "send"
        /\ demo'[t].signs = demo[t].signs /\ demo'[t].sent = demo[t].sent
    BY <1>1, <1>3, <2>1, <2>3 DEF TypeInv, Labels, OnlyMoves
  <2>5. ThreadInv(t)' /\ SeenInv'
    BY <1>1, <1>3, <2>1, <2>4, RecordsTyped DEF ThreadInv, SeenInv, Handling, Trusts
  <2> QED
    BY <2>1, <2>4, <2>5, <1>3, MoveKeeps
<1>7. CASE SendCase(t)
  <2> DEFINE case == Len(demo[t].sent) + 1
             which == <<"first", "first", "other", "tampered">>[case]
             sig == IF case = 4 THEN "forged" ELSE demo[t].signs
             j == [body |-> DemoBody(demo[t].number, which), signature |-> sig]
  <2>1. /\ pc[t] = "send" /\ pc' = [pc EXCEPT ![t] = "verify"]
        /\ job' = [job EXCEPT ![t] = j]
        /\ UNCHANGED <<secret, demo>>
    BY <1>7 DEF SendCase, Goto, Take
  <2>2. case \in 1 .. 4
    BY <1>1, <1>2, <2>1, LenProperties DEF ThreadInv, Demos
  <2>3. which \in Cases
    BY <2>2 DEF Cases
  <2>4. sig \in Signatures \cup Keepers
    BY <1>1, <1>2, <2>1 DEF ThreadInv, Demos, Signatures
  <2> HIDE DEF case, which, sig
  <2>5. /\ j \in Jobs /\ j.body = DemoBody(demo[t].number, which)
        /\ j.signature \in {demo[t].signs, "forged"}
    BY <1>2, <2>3, <2>4, DemoBodyTyped DEF Jobs, sig
  <2>6. TypeInv' /\ OnlyMoves(t) /\ pc'[t] = "verify" /\ job'[t] = j
    BY <1>1, <1>3, <2>1, <2>5 DEF TypeInv, Labels, OnlyMoves
  <2>7. ThreadInv(t)' /\ SeenInv'
    BY <1>1, <1>3, <2>1, <2>3, <2>5, <2>6 DEF ThreadInv, SeenInv, Handling, Trusts
  <2> QED
    BY <2>1, <2>6, <2>7, <1>3, MoveKeeps
<1>8. CASE EndDemo(t)
  <2>1. /\ pc[t] = "told" /\ pc' = [pc EXCEPT ![t] = "idle"]
        /\ demo' = [demo EXCEPT ![t] = NoDemo]
        /\ UNCHANGED <<secret, job>>
    BY <1>8 DEF EndDemo, Goto
  <2>2. TypeInv' /\ OnlyMoves(t) /\ pc'[t] = "idle" /\ demo'[t] = NoDemo
    BY <1>1, <1>3, <2>1, RecordsTyped DEF TypeInv, Labels, OnlyMoves
  <2>3. ThreadInv(t)' /\ SeenInv'
    BY <1>1, <1>3, <2>1, <2>2, RecordsTyped DEF ThreadInv, SeenInv, Handling, Trusts
  <2> QED
    BY <2>1, <2>2, <2>3, <1>3, MoveKeeps
<1> QED
  BY <1>4, <1>5, <1>6, <1>7, <1>8 DEF Demonstrate

\* Deciding what to make of the delivery touches neither secret nor demo.
LEMMA VerifyKeeps ==
  ASSUME IInv, NEW t \in Threads, Unverifiable(t) \/ Reject(t) \/ Verified(t)
  PROVE  IInv'
<1>1. TypeInv /\ SeenInv /\ ThreadInv(t) /\ pc[t] = "verify"
  BY DEF IInv, Unverifiable, Reject, Verified
<1>2. UNCHANGED <<secret, overlap, seen, events, job, demo>>
  BY DEF Unverifiable, Reject, Verified, counts, log
<1>3. CASE Unverifiable(t) \/ Reject(t)
  <2>1. PICK e \in Entries : /\ entry' = [entry EXCEPT ![t] = e]
                            /\ pc' = [pc EXCEPT ![t] = "append"]
                            /\ e.status \in {"unverifiable", "bad_signature"}
    <3>1. job[t] \in Jobs
      BY <1>1 DEF TypeInv
    <3> QED
      BY <1>3, <3>1, RecordsTyped DEF Unverifiable, Reject, Build, Goto, Statuses, Event
  <2>2. TypeInv' /\ OnlyMoves(t) /\ pc'[t] = "append" /\ entry'[t] = e
    BY <1>1, <1>2, <2>1 DEF TypeInv, Labels, OnlyMoves
  <2>3. ThreadInv(t)' /\ SeenInv'
    BY <1>1, <1>2, <2>1, <2>2 DEF ThreadInv, SeenInv, Handling, Trusts
  <2> QED
    BY <1>2, <2>2, <2>3, MoveKeeps
<1>4. CASE Verified(t)
  <2>1. /\ secret # "none" /\ job[t].signature = secret /\ job[t].body \notin Unusable
        /\ pc' = [pc EXCEPT ![t] = "lookup"] /\ entry' = entry
    BY <1>4 DEF Verified, Goto
  <2>2. TypeInv' /\ OnlyMoves(t) /\ pc'[t] = "lookup"
    BY <1>1, <1>2, <2>1 DEF TypeInv, Labels, OnlyMoves
  <2>3. SeenInv'
    BY <1>1, <1>2 DEF SeenInv
  <2>4. secret \in Keepers /\ demo[t].signs \in Keepers \cup {"none"}
    BY <1>1, <2>1 DEF TypeInv, Demos
  <2>5. ThreadInv(t)'
    <3>1. demo[t] = NoDemo => secret = "gateway"
      BY <1>1, <2>1, <2>4, Strangers DEF ThreadInv, Handling, Keepers
    <3> QED
      BY <1>1, <1>2, <2>1, <2>2, <2>4, <3>1, Strangers
         DEF ThreadInv, Handling, Trusts, Keepers, Signatures
  <2> QED
    BY <1>2, <2>2, <2>3, <2>5, MoveKeeps
<1> QED
  BY <1>3, <1>4

\* What is marked was trusted: by a demonstration unless the secret is the
\* gateway's, and then under a key no gateway has.
LEMMA RecordKeeps ==
  ASSUME IInv, NEW t \in Threads, Lookup(t) \/ Compare(t) \/ Mark(t)
  PROVE  IInv'
<1>1. TypeInv /\ SeenInv /\ ThreadInv(t)
  BY DEF IInv
<1>2. UNCHANGED <<secret, overlap, events, job, demo>>
  BY DEF Lookup, Compare, Mark, counts, log
<1>3. job[t] \in Jobs
  BY <1>1 DEF TypeInv
<1>4. CASE Lookup(t)
  <2>1. PICK label \in {"compare", "mark"} :
          /\ pc[t] = "lookup" /\ pc' = [pc EXCEPT ![t] = label] /\ UNCHANGED <<seen, entry>>
    BY <1>4 DEF Lookup, Goto, log
  <2>2. TypeInv' /\ OnlyMoves(t) /\ pc'[t] = label
    BY <1>1, <1>2, <2>1 DEF TypeInv, Labels, OnlyMoves
  <2>3. ThreadInv(t)' /\ SeenInv'
    BY <1>1, <1>2, <2>1, <2>2 DEF ThreadInv, SeenInv, Handling, Trusts
  <2> QED
    BY <1>2, <2>2, <2>3, MoveKeeps
<1>5. CASE Compare(t) \/ Mark(t)
  <2>1. PICK e \in Entries :
          entry' = [entry EXCEPT ![t] = e] /\ pc' = [pc EXCEPT ![t] = "append"]
    BY <1>3, <1>5, RecordsTyped DEF Compare, Mark, Build, Goto, Statuses
  <2>2. pc[t] \in {"compare", "mark"}
    BY <1>5 DEF Compare, Mark
  <2>3. TypeInv' /\ OnlyMoves(t) /\ pc'[t] = "append"
    BY <1>1, <1>2, <2>1 DEF TypeInv, Labels, OnlyMoves
  <2>4. ThreadInv(t)'
    BY <1>1, <1>2, <2>2, <2>3 DEF ThreadInv, Handling, Trusts
  <2>5. SeenInv'
    <3>1. CASE Compare(t)
      BY <1>1, <1>2, <3>1 DEF Compare, log, SeenInv
    <3>2. CASE Mark(t)
      <4>1. DOMAIN seen' = DOMAIN seen \cup {Key(job[t].body)}
        BY <3>2 DEF Mark
      <4>2. secret # "none"
        BY <1>1, <2>2 DEF ThreadInv, Trusts
      <4>3. ASSUME secret \in Threads PROVE Key(job[t].body) \notin GatewayKeys
        <5>1. demo[t] # NoDemo
          BY <1>1, <2>2, <4>3, Strangers DEF ThreadInv, Trusts
        <5>2. PICK which \in Cases : job[t].body = DemoBody(demo[t].number, which)
          BY <1>1, <2>2, <5>1 DEF ThreadInv, Handling
        <5>3. demo[t].number \in Nat
          BY <1>1 DEF TypeInv, Demos
        <5> QED
          BY <5>2, <5>3, DemoBodyTyped, DemoKeyIsOwn
      <4> QED
        BY <1>1, <1>2, <4>1, <4>2, <4>3 DEF SeenInv, GatewayKeys
    <3> QED
      BY <1>5, <3>1, <3>2
  <2> QED
    BY <1>2, <2>3, <2>4, <2>5, MoveKeeps
<1> QED
  BY <1>4, <1>5

LEMMA LogKeeps ==
  ASSUME IInv, NEW t \in Threads, AppendEvent(t) \/ Scope(t) \/ ReplaceLast(t)
  PROVE  IInv'
<1>1. TypeInv /\ SeenInv /\ ThreadInv(t) /\ entry[t] \in Entries /\ job[t] \in Jobs
  BY DEF IInv, TypeInv
<1>2. UNCHANGED <<secret, overlap, seen, job, demo>>
  BY DEF AppendEvent, Scope, ReplaceLast, counts, log
<1>3. \A e \in Entries : [entry EXCEPT ![t] = e] \in [Threads -> Entries]
  BY <1>1 DEF TypeInv
<1>4. CASE AppendEvent(t)
  <2>1. PICK label \in {"scope", "done"} :
          /\ pc' = [pc EXCEPT ![t] = label] /\ pc[t] = "append"
          /\ events' = Append(events, entry[t]) /\ entry' = entry
    BY <1>4 DEF AppendEvent, Goto
  <2>2. events' \in Seq(Entries)
    BY <1>1, <2>1, AppendProperties DEF TypeInv
  <2>3. TypeInv' /\ OnlyMoves(t) /\ pc'[t] = label
    BY <1>1, <1>2, <2>1, <2>2 DEF TypeInv, Labels, OnlyMoves
  <2>4. SeenInv'
    BY <1>1, <1>2 DEF SeenInv
  <2>5. events' # <<>>
    BY <1>1, <2>1, AppendProperties DEF TypeInv
  <2>6. label = "scope" => Trusts(t)
    BY <1>4, <1>1, <2>1 DEF AppendEvent, Goto, Trusts, TypeInv
  <2>7. ThreadInv(t)'
    BY <1>1, <1>2, <2>1, <2>3, <2>5, <2>6 DEF ThreadInv, Handling, Trusts
  <2> QED
    BY <1>2, <2>3, <2>4, <2>5, <2>7, MoveKeeps
<1>5. CASE Scope(t)
  <2> DEFINE e == [entry[t] EXCEPT !.affected = NamesIn(job[t].body)]
  <2>1. /\ pc' = [pc EXCEPT ![t] = "replace"] /\ pc[t] = "scope"
        /\ entry' = [entry EXCEPT ![t] = e] /\ events' = events
    BY <1>5 DEF Scope, Goto, Build, log
  <2>2. e \in Entries
    BY <1>1, NamesTyped DEF Entries, Jobs
  <2>3. TypeInv' /\ OnlyMoves(t) /\ pc'[t] = "replace"
    BY <1>1, <1>2, <2>1, <2>2 DEF TypeInv, Labels, OnlyMoves
  <2>4. ThreadInv(t)' /\ SeenInv'
    BY <1>1, <1>2, <2>1, <2>3 DEF ThreadInv, SeenInv, Handling, Trusts
  <2> QED
    BY <1>2, <2>1, <2>3, <2>4, MoveKeeps
<1>6. CASE ReplaceLast(t)
  <2>1. /\ pc' = [pc EXCEPT ![t] = "done"] /\ pc[t] = "replace"
        /\ events' = [events EXCEPT ![Len(events)] = entry[t]] /\ entry' = entry
    BY <1>6 DEF ReplaceLast, Goto
  <2>2. events' \in Seq(Entries)
    <3>1. events # <<>>
      BY <1>1, <2>1 DEF ThreadInv
    <3>2. Len(events) \in 1 .. Len(events)
      BY <1>1, <3>1, LenProperties, EmptySeq DEF TypeInv
    <3> QED
      BY <1>1, <2>1, <3>2, ExceptSeq DEF TypeInv
  <2>3. TypeInv' /\ OnlyMoves(t) /\ pc'[t] = "done"
    BY <1>1, <1>2, <2>1, <2>2 DEF TypeInv, Labels, OnlyMoves
  <2>4. ThreadInv(t)' /\ SeenInv'
    BY <1>1, <1>2, <2>1, <2>3 DEF ThreadInv, SeenInv, Handling, Trusts
  <2>5. events' # <<>>
    BY <1>1, <2>1, ExceptSeq, LenProperties, EmptySeq DEF TypeInv, ThreadInv
  <2> QED
    BY <1>2, <2>3, <2>4, <2>5, MoveKeeps
<1> QED
  BY <1>4, <1>5, <1>6

\* The demonstration goes on to its next case, or shows what it was told.
LEMMA ReplyKeeps ==
  ASSUME IInv, NEW t \in Threads, Reply(t)
  PROVE  IInv'
<1> DEFINE a == [status |-> entry[t].status, affected |-> entry[t].affected]
           d == [demo[t] EXCEPT !.sent = Append(demo[t].sent, a)]
<1>1. TypeInv /\ SeenInv /\ ThreadInv(t) /\ pc[t] = "done" /\ demo[t] \in Demos
  BY DEF IInv, TypeInv, Reply
<1>2. /\ UNCHANGED <<secret, overlap, seen, events>>
      /\ job' = [job EXCEPT ![t] = NoJob] /\ entry' = [entry EXCEPT ![t] = NoEntry]
  BY DEF Reply, Build, counts, log
<1>3. CASE ~Demonstrating(t)
  <2>1. demo[t] = NoDemo /\ demo' = demo /\ pc' = [pc EXCEPT ![t] = "idle"]
    BY <1>3 DEF Reply, Goto, Demonstrating
  <2>2. TypeInv' /\ OnlyMoves(t) /\ pc'[t] = "idle"
    BY <1>1, <1>2, <2>1, RecordsTyped DEF TypeInv, Labels, OnlyMoves
  <2>3. ThreadInv(t)' /\ SeenInv'
    BY <1>1, <1>2, <2>1, <2>2 DEF ThreadInv, SeenInv, Handling, Trusts
  <2> QED
    BY <1>2, <2>2, <2>3, MoveKeeps
<1>4. CASE Demonstrating(t)
  <2>1. a \in Answers
    BY <1>1 DEF TypeInv, Entries, Answers
  <2>2. demo[t] # NoDemo /\ demo' = [demo EXCEPT ![t] = d]
    BY <1>4 DEF Reply, Demonstrating
  <2>3. /\ Append(demo[t].sent, a) \in Seq(Answers)
        /\ Len(Append(demo[t].sent, a)) = Len(demo[t].sent) + 1
        /\ Len(demo[t].sent) \in Nat
    BY <1>1, <2>1, AppendProperties, LenProperties DEF Demos
  <2> HIDE DEF a
  <2>4. /\ d \in Demos /\ d.signs = demo[t].signs /\ d.number = demo[t].number
        /\ d.sent = Append(demo[t].sent, a)
    BY <1>1, <2>3 DEF Demos
  <2> HIDE DEF d
  <2>5. demo'[t] = d
    BY <1>1, <2>2 DEF TypeInv
  <2>6. pc' = [pc EXCEPT ![t] = IF Len(d.sent) = 4 THEN "told" ELSE "send"]
    BY <1>4, <2>5 DEF Reply, Goto
  <2>7. /\ TypeInv' /\ OnlyMoves(t)
        /\ pc'[t] = IF Len(d.sent) = 4 THEN "told" ELSE "send"
    BY <1>1, <1>2, <2>2, <2>4, <2>6, RecordsTyped DEF TypeInv, Labels, OnlyMoves
  <2>8. Len(d.sent) # 4 => Len(d.sent) < 4
    BY <1>1, <2>3, <2>4 DEF ThreadInv
  <2>9. ThreadInv(t)' /\ SeenInv'
    BY <1>1, <1>2, <2>2, <2>4, <2>5, <2>7, <2>8, RecordsTyped
       DEF ThreadInv, SeenInv, Handling, Trusts
  <2> QED
    BY <1>2, <2>7, <2>9, MoveKeeps
<1> QED
  BY <1>3, <1>4

LEMMA InitIInv == Init => IInv
<1> SUFFICES ASSUME Init PROVE IInv
  OBVIOUS
<1>1. <<>> \in Seq(Entries)
  BY EmptySeq
<1>2. TypeInv
  BY <1>1, RecordsTyped, EventAssumption DEF Init, TypeInv, Labels, Keepers
<1>3. SeenInv
  BY Strangers DEF Init, SeenInv, Keepers
<1>4. \A t \in Threads : ThreadInv(t)
  BY RecordsTyped DEF Init, ThreadInv, Handling, Trusts
<1> QED
  BY <1>2, <1>3, <1>4 DEF IInv

LEMMA NextIInv == IInv /\ [Next]_vars => IInv'
<1> SUFFICES ASSUME IInv, [Next]_vars PROVE IInv'
  OBVIOUS
<1>1. ASSUME NEW t \in Threads, Receive(t) \/ AskDemo(t) PROVE IInv'
  BY <1>1, ArriveKeeps
<1>2. ASSUME NEW t \in Threads, Demonstrate(t) PROVE IInv'
  BY <1>2, DemonstrateKeeps
<1>3. ASSUME NEW t \in Threads, Handle(t) PROVE IInv'
  BY <1>3, VerifyKeeps, RecordKeeps, LogKeeps, ReplyKeeps DEF Handle
<1>4. CASE UNCHANGED vars
  BY <1>4 DEF vars, IInv, TypeInv, SeenInv, ThreadInv, Trusts
<1> QED
  BY <1>1, <1>2, <1>3, <1>4 DEF Next

-----------------------------------------------------------------------------
(* What holds under any interleaving *)

\* Whatever the interleaving, the secret, the store and every handler agree.
THEOREM IngestInvariant == Spec => []IInv
<1>1. Init => IInv
  BY InitIInv
<1>2. IInv /\ [Next]_vars => IInv'
  BY NextIInv
<1> QED
  BY <1>1, <1>2, PTL DEF Spec

\* Nothing is remembered on the strength of a body that was not signed, whoever
\* sets the secret while deliveries are being handled.
THEOREM NothingUnsignedIsSeen == Spec => []OnlyVerifiedIsSeen
<1>1. IInv => OnlyVerifiedIsSeen
  <2> SUFFICES ASSUME IInv PROVE OnlyVerifiedIsSeen
    OBVIOUS
  <2>1. SeenInv /\ \A t \in Threads : ThreadInv(t)
    BY DEF IInv
  <2> QED
    BY <2>1 DEF OnlyVerifiedIsSeen, SeenInv, ThreadInv, Trusts, Demonstrating, GatewayKeys
<1> QED
  BY <1>1, IngestInvariant, PTL

-----------------------------------------------------------------------------
(* Deliveries that do not overlap: what `seen` says of the log *)

Refused == {"unverifiable", "bad_signature"}
Filed == {"accepted", "unsupported"}

\* The events on record under a key, and whether i is the first of them.
OnFile(k) == {i \in DOMAIN events : Key(events[i].body) = k /\ events[i].status \notin Refused}
Oldest(i) == \A j \in OnFile(Key(events[i].body)) : i <= j

\* t has put key k in `seen` and not yet logged the event.
Marked(t, k) == pc[t] = "append" /\ entry[t].status \in Filed /\ Key(entry[t].body) = k

Alone == \A t, u \in Threads : pc[t] # "idle" /\ pc[u] # "idle" => t = u

\* A key is in `seen` when a delivery under it is on record or about to be, and
\* with the digest of the first of them.  A demonstration's number is the length
\* the log had, hence less than the place of any event it logs.
FileInv ==
  /\ \A k \in DOMAIN seen : OnFile(k) # {} \/ \E t \in Threads : Marked(t, k)
  /\ \A i \in DOMAIN events :
       events[i].status \notin Refused =>
         /\ Key(events[i].body) \in DOMAIN seen
         /\ Oldest(i) => seen[Key(events[i].body)] = Digest(events[i].body)
  /\ \A i \in DOMAIN events, m \in Nat : Key(events[i].body) = <<"demo", m>> => m < i

\* What the thread has made of the delivery it handles.
HandlerInv(t) ==
  LET key == Key(job[t].body) IN
  /\ pc[t] = "compare" => key \in DOMAIN seen
  /\ pc[t] = "mark" => key \notin DOMAIN seen
  /\ pc[t] \in {"append", "scope", "replace"} => entry[t].body = job[t].body
  /\ pc[t] = "append" /\ entry[t].status \in Filed => OnFile(key) = {}
  /\ pc[t] = "append" /\ entry[t].status \notin Refused =>
       /\ key \in DOMAIN seen
       /\ IF entry[t].status = "replay_mismatch" THEN seen[key] # Digest(job[t].body)
          ELSE seen[key] = Digest(job[t].body)
  /\ pc[t] \in {"scope", "replace"} =>
       /\ entry[t].status = "accepted"
       /\ events[Len(events)].body = job[t].body /\ events[Len(events)].status = "accepted"

\* The cases of a demonstration, and what each is told.
Case == <<"first", "first", "other", "tampered">>
Told == <<[status |-> "accepted", affected |-> Shown],
          [status |-> "duplicate", affected |-> {}],
          [status |-> "replay_mismatch", affected |-> {}],
          [status |-> "bad_signature", affected |-> {}]>>

\* Where a demonstration stands after c cases: its id is unknown to the store
\* until the first is marked, and stands for the first body from then on.
DemoInv(t) ==
  LET n == demo[t].number
      c == Len(demo[t].sent)
      key == <<"demo", n>>
      sent == c > 0 \/ pc[t] \in {"append", "scope", "replace", "done"}
  IN
  demo[t] # NoDemo =>
    /\ demo[t].signs = secret
    /\ \A i \in 1 .. c : demo[t].sent[i] = Told[i]
    /\ pc[t] = "number" => c = 0
    /\ pc[t] = "told" => c = 4
    /\ pc[t] # "number" =>
         /\ n <= Len(events)
         /\ IF sent THEN key \in DOMAIN seen /\ seen[key] = DemoBody(n, "first")
            ELSE key \notin DOMAIN seen
    /\ pc[t] \in Handling =>
         /\ job[t].body = DemoBody(n, Case[c + 1])
         /\ job[t].signature = IF c = 3 THEN "forged" ELSE secret
    /\ pc[t] \in {"mark", "scope", "replace"} => c = 0
    /\ pc[t] \in {"lookup", "compare"} => c < 3
    /\ pc[t] \in {"append", "scope", "replace", "done"} => entry[t].status = Told[c + 1].status
    /\ pc[t] \in {"append", "scope"} => entry[t].affected = {}
    /\ pc[t] \in {"replace", "done"} => entry[t].affected = Told[c + 1].affected

\* The inductive invariant of deliveries that do not overlap.
AloneInv == Alone /\ FileInv /\ \A t \in Threads : HandlerInv(t) /\ DemoInv(t)
SInv == ~overlap => AloneInv

LEMMA ToldIs ==
  /\ Case[1] = "first" /\ Case[2] = "first" /\ Case[3] = "other" /\ Case[4] = "tampered"
  /\ Told[1] = [status |-> "accepted", affected |-> Shown]
  /\ Told[2] = [status |-> "duplicate", affected |-> {}]
  /\ Told[3] = [status |-> "replay_mismatch", affected |-> {}]
  /\ Told[4] = [status |-> "bad_signature", affected |-> {}]
BY DEF Case, Told

LEMMA CaseTyped ==
  ASSUME NEW c \in Nat, c < 4
  PROVE  c \in 0 .. 3 /\ Case[c + 1] \in Cases
<1>1. c = 0 \/ c = 1 \/ c = 2 \/ c = 3
  OBVIOUS
<1> QED
  BY <1>1, ToldIs DEF Cases

\* What a demonstration sends, it sends under its own key.
LEMMA DemoJob ==
  ASSUME IInv, AloneInv, NEW t \in Threads, demo[t] # NoDemo, pc[t] \in Handling
  PROVE  /\ demo[t].number \in Nat /\ Len(demo[t].sent) \in 0 .. 3
         /\ job[t].body = DemoBody(demo[t].number, Case[Len(demo[t].sent) + 1])
         /\ job[t].body \notin Bodies
         /\ Key(job[t].body) = <<"demo", demo[t].number>>
         /\ Digest(job[t].body) = job[t].body /\ NamesIn(job[t].body) = Shown
<1>1. demo[t].number \in Nat /\ Len(demo[t].sent) \in Nat
  BY LenProperties DEF IInv, TypeInv, Demos
<1>2. Len(demo[t].sent) < 4
  BY DEF IInv, ThreadInv, Handling
<1> DEFINE c == Len(demo[t].sent)
<1>3. job[t].body = DemoBody(demo[t].number, Case[Len(demo[t].sent) + 1])
  BY DEF AloneInv, DemoInv
<1> HIDE DEF c
<1>4. c \in 0 .. 3 /\ Case[c + 1] \in Cases
  BY <1>1, <1>2, CaseTyped DEF c
<1> HIDE DEF c
<1> DEFINE w == Case[c + 1]
<1>5. job[t].body = DemoBody(demo[t].number, w)
  BY <1>3 DEF c
<1>6. w \in Cases
  BY <1>4
<1> HIDE DEF w
<1>7. /\ job[t].body \notin Bodies
      /\ Key(job[t].body) = <<"demo", demo[t].number>>
      /\ Digest(job[t].body) = job[t].body /\ NamesIn(job[t].body) = Shown
  BY <1>1, <1>5, <1>6, DemoBodyTyped
<1> QED
  BY <1>1, <1>3, <1>4, <1>7 DEF c

\* One thread moves and every other is idle.
LEMMA AloneKeeps ==
  ASSUME IInv, IInv', AloneInv, NEW t \in Threads, OnlyMoves(t),
         pc[t] # "idle" \/ \A u \in Threads : pc[u] = "idle",
         FileInv', HandlerInv(t)', DemoInv(t)'
  PROVE  AloneInv'
<1>1. \A u \in Threads \ {t} : pc[u] = "idle" /\ pc'[u] = "idle"
  BY DEF AloneInv, Alone, OnlyMoves
<1>2. \A u \in Threads \ {t} : HandlerInv(u)' /\ DemoInv(u)'
  BY <1>1 DEF HandlerInv, DemoInv, IInv, ThreadInv
<1>3. Alone'
  BY <1>1 DEF Alone
<1> QED
  BY <1>2, <1>3 DEF AloneInv

LEMMA FileKept ==
  ASSUME FileInv, NEW t \in Threads, OnlyMoves(t), pc[t] # "append", UNCHANGED log
  PROVE  FileInv'
<1>1. seen' = seen /\ events' = events
  BY DEF log
<1>2. \A k : OnFile(k)' = OnFile(k)
  BY <1>1 DEF OnFile
<1>3. \A i \in DOMAIN events : Oldest(i)' <=> Oldest(i)
  BY <1>1, <1>2 DEF Oldest
<1>4. \A u \in Threads : \A k : Marked(u, k) => Marked(u, k)'
  BY DEF Marked, OnlyMoves
<1> QED
  BY <1>1, <1>2, <1>3, <1>4 DEF FileInv

LEMMA ArriveAlone ==
  ASSUME IInv, IInv', AloneInv, ~overlap, NEW t \in Threads, Receive(t) \/ AskDemo(t)
  PROVE  AloneInv'
<1>1. \A u \in Threads : pc[u] = "idle"
  BY DEF Receive, AskDemo, Free
<1>2. UNCHANGED log /\ demo' = demo /\ entry' = entry
  BY DEF Receive, AskDemo
<1>3. /\ pc \in [Threads -> Labels] /\ job \in [Threads -> Jobs]
      /\ demo[t] = NoDemo
  BY <1>1 DEF IInv, TypeInv, ThreadInv
<1>4. OnlyMoves(t) /\ pc'[t] \in {"verify", "secret", "sign"}
  BY <1>2, <1>3 DEF Receive, AskDemo, Goto, Take, OnlyMoves
<1>5. HandlerInv(t)' /\ DemoInv(t)'
  BY <1>2, <1>3, <1>4 DEF HandlerInv, DemoInv
<1>6. FileInv'
  BY <1>1, <1>2, <1>4, FileKept DEF AloneInv
<1> QED
  BY <1>1, <1>4, <1>5, <1>6, AloneKeeps

\* The number a demonstration takes is the place of no event on record.
LEMMA NumberIsFresh ==
  ASSUME IInv, AloneInv, NEW t \in Threads, pc[t] = "number"
  PROVE  <<"demo", Len(events)>> \notin DOMAIN seen
<1>1. Len(events) \in Nat /\ DOMAIN events = 1 .. Len(events)
  BY LenProperties DEF IInv, TypeInv
<1>2. OnFile(<<"demo", Len(events)>>) = {}
  BY <1>1 DEF AloneInv, FileInv, OnFile
<1>3. \A u \in Threads : ~Marked(u, <<"demo", Len(events)>>)
  BY DEF AloneInv, Alone, Marked
<1> QED
  BY <1>2, <1>3 DEF AloneInv, FileInv

LEMMA DemonstrateAlone ==
  ASSUME IInv, IInv', AloneInv, NEW t \in Threads, Demonstrate(t)
  PROVE  AloneInv'
<1>1. /\ pc \in [Threads -> Labels] /\ job \in [Threads -> Jobs] /\ events \in Seq(Entries)
      /\ demo \in [Threads -> Demos] /\ demo[t] \in Demos /\ ThreadInv(t)
  BY DEF IInv, TypeInv
<1>2. UNCHANGED log /\ entry' = entry
  BY DEF Demonstrate, SetSecret, ReadSecret, NumberDemo, SendCase, EndDemo, log
<1>3. pc[t] \in {"secret", "sign", "number", "send", "told"}
  BY DEF Demonstrate, SetSecret, ReadSecret, NumberDemo, SendCase, EndDemo
<1>4. OnlyMoves(t)
  BY <1>1, <1>2 DEF Demonstrate, SetSecret, ReadSecret, NumberDemo, SendCase, EndDemo,
                    Goto, Take, OnlyMoves
<1>5. FileInv'
  BY <1>2, <1>3, <1>4, FileKept DEF AloneInv
<1>6. pc'[t] \in {"sign", "number", "send", "verify", "idle"}
  BY <1>1 DEF Demonstrate, SetSecret, ReadSecret, NumberDemo, SendCase, EndDemo, Goto
<1>7. HandlerInv(t)'
  BY <1>6 DEF HandlerInv
<1>8. DemoInv(t)'
  <2>1. CASE SetSecret(t) \/ EndDemo(t)
    <3>1. demo'[t] = NoDemo
      BY <1>1, <2>1 DEF SetSecret, EndDemo, ThreadInv
    <3> QED
      BY <3>1 DEF DemoInv
  <2>2. CASE ReadSecret(t)
    <3>1. /\ demo[t] = NoDemo /\ demo'[t] = [demo[t] EXCEPT !.signs = secret]
          /\ pc'[t] = "number" /\ secret' = secret
      BY <1>1, <2>2 DEF ReadSecret, ThreadInv, Goto
    <3>2. demo'[t].signs = secret /\ demo'[t].sent = <<>>
      BY <1>1, <3>1 DEF Demos, NoDemo
    <3> QED
      BY <3>1, <3>2, EmptySeq DEF DemoInv, Handling
  <2>3. CASE NumberDemo(t)
    <3> DEFINE d == [demo[t] EXCEPT !.number = Len(events)]
    <3>1. /\ demo[t] # NoDemo /\ demo'[t] = d /\ pc[t] = "number"
          /\ pc'[t] = "send" /\ secret' = secret
      BY <1>1, <2>3 DEF NumberDemo, ThreadInv, Goto
    <3>2. d.signs = demo[t].signs /\ d.sent = demo[t].sent /\ d.number = Len(events)
      BY <1>1 DEF Demos
    <3> HIDE DEF d
    <3>3. demo[t].signs = secret /\ Len(demo[t].sent) = 0
      BY <3>1 DEF AloneInv, DemoInv
    <3>4. <<"demo", Len(events)>> \notin DOMAIN seen /\ Len(events) \in Nat
      BY <1>1, <3>1, NumberIsFresh, LenProperties
    <3> QED
      BY <1>2, <3>1, <3>2, <3>3, <3>4 DEF DemoInv, Handling, log
  <2>4. CASE SendCase(t)
    <3> DEFINE c == Len(demo[t].sent)
               j == [body |-> DemoBody(demo[t].number, Case[c + 1]),
                     signature |-> IF c + 1 = 4 THEN "forged" ELSE demo[t].signs]
    <3>1. /\ demo[t] # NoDemo /\ demo' = demo /\ pc[t] = "send"
          /\ pc'[t] = "verify" /\ secret' = secret /\ job'[t] = j
      BY <1>1, <2>4 DEF SendCase, ThreadInv, Goto, Take, Case
    <3>2. c \in Nat
      BY <1>1, LenProperties DEF Demos
    <3>3. DemoInv(t)
      BY DEF AloneInv
    <3>4. demo[t].signs = secret /\ j.body = DemoBody(demo[t].number, Case[c + 1])
      BY <3>1, <3>3 DEF DemoInv
    <3>5. j.signature = IF c = 3 THEN "forged" ELSE secret
      <4> HIDE DEF c
      <4>1. c + 1 = 4 <=> c = 3
        BY <3>2
      <4> QED
        BY <3>4, <4>1
    <3> HIDE DEF j
    <3> QED
      BY <1>2, <3>1, <3>3, <3>4, <3>5 DEF DemoInv, log
  <2> QED
    BY <2>1, <2>2, <2>3, <2>4 DEF Demonstrate
<1> QED
  BY <1>3, <1>4, <1>5, <1>7, <1>8, AloneKeeps

\* Of a demonstration's cases only the last, altered after signing, is refused.
LEMMA VerifyAlone ==
  ASSUME IInv, IInv', AloneInv, NEW t \in Threads, Unverifiable(t) \/ Reject(t) \/ Verified(t)
  PROVE  AloneInv'
<1>1. /\ pc \in [Threads -> Labels] /\ job[t] \in Jobs /\ entry \in [Threads -> Entries]
      /\ secret \in Keepers \cup {"none"} /\ ThreadInv(t) /\ DemoInv(t) /\ pc[t] = "verify"
  BY DEF IInv, TypeInv, AloneInv, Unverifiable, Reject, Verified
<1>2. UNCHANGED log /\ job' = job /\ demo' = demo /\ secret' = secret
  BY DEF Unverifiable, Reject, Verified
<1>3. OnlyMoves(t)
  BY <1>1, <1>2 DEF Unverifiable, Reject, Verified, Goto, Build, OnlyMoves
<1>4. FileInv'
  BY <1>1, <1>2, <1>3, FileKept DEF AloneInv
<1>5. CASE Unverifiable(t) \/ Reject(t)
  <2>1. PICK status \in Refused : entry'[t] = Event(job[t], status) /\ pc'[t] = "append"
    BY <1>1, <1>5 DEF Unverifiable, Reject, Build, Goto, Refused
  <2>2. /\ entry'[t].body = job[t].body /\ entry'[t].status = status
        /\ entry'[t].affected = {}
    BY <2>1 DEF Event
  <2>3. HandlerInv(t)'
    BY <1>2, <2>1, <2>2 DEF HandlerInv, Refused, Filed
  <2>4. ASSUME demo[t] # NoDemo
        PROVE  Len(demo[t].sent) = 3 /\ status = "bad_signature"
    <3>1. secret # "none" /\ job[t].body \notin Unusable
      BY <1>1, <2>4, DemoJob, EventAssumption DEF ThreadInv, Handling
    <3>2. Reject(t) /\ job[t].signature # secret
      BY <1>5, <3>1 DEF Unverifiable, Reject
    <3>3. status = "bad_signature"
      BY <1>1, <2>2, <3>2 DEF Reject, Build, Event
    <3> QED
      BY <1>1, <2>4, <3>2, <3>3 DEF DemoInv, Handling
  <2>5. DemoInv(t)'
    <3> SUFFICES ASSUME demo[t] # NoDemo PROVE DemoInv(t)'
      BY <1>2 DEF DemoInv
    <3> HIDE DEF Told
    <3>1. Len(demo[t].sent) = 3 /\ status = Told[4].status
      BY <2>4, ToldIs
    <3> QED
      BY <1>1, <1>2, <2>1, <2>2, <3>1 DEF DemoInv, Handling, log
  <2> QED
    BY <1>1, <1>3, <1>4, <2>3, <2>5, AloneKeeps
<1>6. CASE Verified(t)
  <2>1. pc'[t] = "lookup" /\ secret # "none" /\ job[t].signature = secret /\ entry' = entry
    BY <1>1, <1>6 DEF Verified, Goto
  <2>2. HandlerInv(t)'
    BY <2>1 DEF HandlerInv
  <2>3. ASSUME demo[t] # NoDemo PROVE Len(demo[t].sent) < 3
    <3>1. secret # "forged"
      BY <1>1, <2>1, EventAssumption DEF Keepers
    <3>2. Len(demo[t].sent) # 3
      BY <1>1, <2>1, <2>3, <3>1 DEF DemoInv, Handling
    <3> DEFINE c == Len(demo[t].sent)
    <3>3. c \in 0 .. 3
      BY <1>1, <2>3, DemoJob DEF Handling
    <3> HIDE DEF c
    <3>4. c # 3 => c < 3
      BY <3>3
    <3> QED
      BY <3>2, <3>4 DEF c
  <2>4. DemoInv(t)'
    BY <1>1, <1>2, <2>1, <2>3 DEF DemoInv, Handling, log
  <2> QED
    BY <1>1, <1>3, <1>4, <2>2, <2>4, AloneKeeps
<1> QED
  BY <1>5, <1>6

\* The events on record are known to the store, and so is one about to be.
LEMMA OnFileIsSeen ==
  ASSUME AloneInv, NEW t \in Threads, pc[t] # "idle", NEW k
  PROVE  /\ OnFile(k) # {} => k \in DOMAIN seen
         /\ k \in DOMAIN seen => OnFile(k) # {} \/ Marked(t, k)
<1>1. OnFile(k) # {} => k \in DOMAIN seen
  BY DEF AloneInv, FileInv, OnFile
<1>2. ASSUME NEW u \in Threads, Marked(u, k) PROVE u = t
  BY <1>2 DEF AloneInv, Alone, Marked
<1> QED
  BY <1>1, <1>2 DEF AloneInv, FileInv

LEMMA LookupAlone ==
  ASSUME IInv, IInv', AloneInv, NEW t \in Threads, Lookup(t)
  PROVE  AloneInv'
<1>1. /\ pc \in [Threads -> Labels] /\ DemoInv(t) /\ pc[t] = "lookup"
  BY DEF IInv, TypeInv, AloneInv, Lookup
<1>2. /\ UNCHANGED <<log, seen, events, secret>> /\ job' = job /\ demo' = demo
      /\ entry' = entry
  BY DEF Lookup, log
<1>3. OnlyMoves(t)
  BY <1>1, <1>2 DEF Lookup, Goto, OnlyMoves
<1>4. FileInv'
  BY <1>1, <1>2, <1>3, FileKept DEF AloneInv
<1>5. pc'[t] = IF Key(job[t].body) \in DOMAIN seen THEN "compare" ELSE "mark"
  BY <1>1 DEF Lookup, Goto
<1>6. HandlerInv(t)'
  BY <1>2, <1>5 DEF HandlerInv
<1>7. DemoInv(t)'
  <2> SUFFICES ASSUME demo[t] # NoDemo PROVE DemoInv(t)'
    BY <1>2 DEF DemoInv
  <2> DEFINE c == Len(demo[t].sent)
  <2>1. c \in 0 .. 3 /\ Key(job[t].body) = <<"demo", demo[t].number>>
    BY <1>1, DemoJob DEF Handling
  <2> HIDE DEF c
  <2>2. c > 0 <=> pc'[t] = "compare"
    <3>1. IF c > 0 THEN <<"demo", demo[t].number>> \in DOMAIN seen
          ELSE <<"demo", demo[t].number>> \notin DOMAIN seen
      BY <1>1 DEF DemoInv, c
    <3> QED
      BY <1>5, <2>1, <3>1
  <2>3. c < 3
    BY <1>1 DEF DemoInv, c
  <2>4. pc'[t] = "mark" => c = 0
    BY <2>1, <2>2
  <2> QED
    BY <1>1, <1>2, <1>5, <2>2, <2>3, <2>4 DEF DemoInv, Handling, c
<1> QED
  BY <1>1, <1>3, <1>4, <1>6, <1>7, AloneKeeps

LEMMA CompareAlone ==
  ASSUME IInv, IInv', AloneInv, NEW t \in Threads, Compare(t)
  PROVE  AloneInv'
<1> DEFINE same == seen[Key(job[t].body)] = Digest(job[t].body)
           status == IF same THEN "duplicate" ELSE "replay_mismatch"
<1>1. /\ pc \in [Threads -> Labels] /\ entry \in [Threads -> Entries]
      /\ DemoInv(t) /\ HandlerInv(t) /\ pc[t] = "compare"
  BY DEF IInv, TypeInv, AloneInv, Compare
<1>2. UNCHANGED <<log, seen, events, secret>> /\ job' = job /\ demo' = demo
  BY DEF Compare, log
<1>3. OnlyMoves(t)
  BY <1>1, <1>2 DEF Compare, Goto, Build, OnlyMoves
<1>4. FileInv'
  BY <1>1, <1>2, <1>3, FileKept DEF AloneInv
<1>5. pc'[t] = "append" /\ entry'[t] = Event(job[t], status)
  BY <1>1 DEF Compare, Goto, Build
<1>6. /\ entry'[t].body = job[t].body /\ entry'[t].status = status
      /\ entry'[t].affected = {}
  BY <1>5 DEF Event
<1>7. HandlerInv(t)'
  <2>1. Key(job[t].body) \in DOMAIN seen
    BY <1>1 DEF HandlerInv
  <2> QED
    BY <1>2, <1>5, <1>6, <2>1 DEF HandlerInv, Filed, Refused
<1>8. DemoInv(t)'
  <2> SUFFICES ASSUME demo[t] # NoDemo PROVE DemoInv(t)'
    BY <1>2 DEF DemoInv
  <2> DEFINE c == Len(demo[t].sent)
             key == <<"demo", demo[t].number>>
  <2>1. /\ c \in 0 .. 3 /\ Key(job[t].body) = key
        /\ job[t].body = DemoBody(demo[t].number, Case[c + 1])
        /\ Digest(job[t].body) = job[t].body
    BY <1>1, DemoJob DEF Handling
  <2> HIDE DEF c, key
  <2>2. key \in DOMAIN seen /\ c < 3
    BY <1>1, <2>1 DEF HandlerInv, DemoInv, c
  <2>3. c > 0 /\ seen[key] = DemoBody(demo[t].number, "first")
    BY <1>1, <2>2 DEF DemoInv, c, key
  <2>4. c = 1 \/ c = 2
    BY <2>1, <2>2, <2>3
  <2>5. status = Told[c + 1].status /\ Told[c + 1].affected = {}
    <3>1. CASE c = 1
      <4>1. same
        BY <2>1, <2>3, <3>1, ToldIs
      <4> QED
        BY <3>1, <4>1, ToldIs
    <3>2. CASE c = 2
      <4>1. ~same
        BY <2>1, <2>3, <3>2, ToldIs DEF DemoBody
      <4> QED
        BY <3>2, <4>1, ToldIs
    <3> QED
      BY <2>4, <3>1, <3>2
  <2> HIDE DEF same, status
  <2> QED
    BY <1>1, <1>2, <1>5, <1>6, <2>2, <2>3, <2>5 DEF DemoInv, Handling, c, key
<1> QED
  BY <1>1, <1>3, <1>4, <1>7, <1>8, AloneKeeps

\* A key is marked once: nothing under it is on record.
LEMMA MarkAlone ==
  ASSUME IInv, IInv', AloneInv, NEW t \in Threads, Mark(t)
  PROVE  AloneInv'
<1> DEFINE key == Key(job[t].body)
           status == IF job[t].body \in Unhandled THEN "unsupported" ELSE "accepted"
<1>1. /\ pc \in [Threads -> Labels] /\ entry \in [Threads -> Entries]
      /\ DemoInv(t) /\ HandlerInv(t) /\ FileInv /\ pc[t] = "mark"
  BY DEF IInv, TypeInv, AloneInv, Mark
<1>2. UNCHANGED <<events, secret>> /\ job' = job /\ demo' = demo
  BY DEF Mark
<1>3. /\ DOMAIN seen' = DOMAIN seen \cup {key} /\ seen'[key] = Digest(job[t].body)
      /\ \A k \in DOMAIN seen \ {key} : seen'[k] = seen[k]
  BY DEF Mark
<1>4. pc'[t] = "append" /\ entry'[t] = Event(job[t], status)
  BY <1>1 DEF Mark, Goto, Build
<1>5. /\ entry'[t].body = job[t].body /\ entry'[t].status = status
      /\ entry'[t].affected = {} /\ status \in Filed
  BY <1>4 DEF Event, Filed
<1>6. OnlyMoves(t)
  BY <1>1, <1>2 DEF Mark, Goto, Build, OnlyMoves
<1>7. key \notin DOMAIN seen /\ OnFile(key) = {}
  BY <1>1, OnFileIsSeen DEF HandlerInv
<1>8. \A k : OnFile(k)' = OnFile(k)
  BY <1>2 DEF OnFile
<1> HIDE DEF status
<1>9. FileInv'
  <2>1. \A k \in DOMAIN seen' : OnFile(k)' # {} \/ \E u \in Threads : Marked(u, k)'
    <3> SUFFICES ASSUME NEW k \in DOMAIN seen', k # key PROVE OnFile(k)' # {}
      BY <1>4, <1>5 DEF Marked
    <3>1. ~Marked(t, k)
      BY <1>1 DEF Marked
    <3> QED
      BY <1>1, <1>3, <1>8, <3>1, OnFileIsSeen
  <2>2. ASSUME NEW i \in DOMAIN events', events'[i].status \notin Refused
        PROVE  /\ Key(events'[i].body) \in DOMAIN seen'
               /\ Oldest(i)' => seen'[Key(events'[i].body)] = Digest(events'[i].body)
    <3>1. Oldest(i)' <=> Oldest(i)
      BY <1>2, <1>8 DEF Oldest
    <3>2. Key(events[i].body) \in DOMAIN seen \ {key}
      BY <1>1, <1>2, <1>7, <2>2 DEF FileInv
    <3> QED
      BY <1>1, <1>2, <1>3, <2>2, <3>1, <3>2 DEF FileInv
  <2> QED
    BY <1>1, <1>2, <2>1, <2>2 DEF FileInv
<1>10. HandlerInv(t)'
  BY <1>2, <1>3, <1>4, <1>5, <1>7, <1>8 DEF HandlerInv, Filed, Refused
<1>11. DemoInv(t)'
  <2> SUFFICES ASSUME demo[t] # NoDemo PROVE DemoInv(t)'
    BY <1>2 DEF DemoInv
  <2>1. /\ key = <<"demo", demo[t].number>> /\ Digest(job[t].body) = job[t].body
        /\ job[t].body = DemoBody(demo[t].number, Case[Len(demo[t].sent) + 1])
        /\ job[t].body \notin Bodies
    BY <1>1, DemoJob DEF Handling
  <2>2. Len(demo[t].sent) = 0 /\ status = "accepted"
    BY <1>1, <2>1, EventAssumption DEF DemoInv, status
  <2>3. seen'[key] = DemoBody(demo[t].number, "first")
    BY <1>3, <2>1, <2>2, ToldIs
  <2>4. status = Told[1].status
    BY <2>2, ToldIs
  <2> QED
    BY <1>1, <1>2, <1>3, <1>4, <1>5, <2>1, <2>2, <2>3, <2>4 DEF DemoInv, Handling
<1> QED
  BY <1>1, <1>6, <1>9, <1>10, <1>11, AloneKeeps

\* A logged event is the oldest under its key only when it was just marked.
LEMMA AppendAlone ==
  ASSUME IInv, IInv', AloneInv, NEW t \in Threads, AppendEvent(t)
  PROVE  AloneInv'
<1>0. PICK e, n : e = entry[t] /\ n = Len(events)
  OBVIOUS
<1> DEFINE key == Key(e.body)
<1>1. /\ pc \in [Threads -> Labels] /\ events \in Seq(Entries) /\ e \in Entries
      /\ job[t] \in Jobs /\ demo[t] \in Demos /\ pc[t] = "append"
      /\ DemoInv(t) /\ HandlerInv(t) /\ ThreadInv(t) /\ FileInv
  BY <1>0 DEF IInv, TypeInv, AloneInv, AppendEvent
<1>2. /\ UNCHANGED <<secret, seen>> /\ job' = job /\ demo' = demo /\ entry' = entry
  BY DEF AppendEvent
<1>3. events' = Append(events, e)
  BY <1>0 DEF AppendEvent
<1>4. /\ n \in Nat /\ Len(events') = n + 1 /\ DOMAIN events = 1 .. n
      /\ DOMAIN events' = 1 .. (n + 1) /\ events'[n + 1] = e
      /\ \A i \in 1 .. n : events'[i] = events[i]
  BY <1>0, <1>1, <1>3, AppendProperties, LenProperties
<1>5. pc'[t] = IF e.status = "accepted" THEN "scope" ELSE "done"
  BY <1>0, <1>1 DEF AppendEvent, Goto
<1>6. OnlyMoves(t)
  BY <1>1, <1>2 DEF AppendEvent, Goto, OnlyMoves
<1>7. e.body = job[t].body
  BY <1>0, <1>1 DEF HandlerInv
<1>8. \A k : OnFile(k)' = IF k = key /\ e.status \notin Refused
                           THEN OnFile(k) \cup {n + 1} ELSE OnFile(k)
  BY <1>4 DEF OnFile
<1>9. \A u \in Threads : \A k : Marked(u, k) => u = t /\ k = key /\ e.status \in Filed
  BY <1>0, <1>1 DEF AloneInv, Alone, Marked
<1>10. \A k : OnFile(k) \subseteq 1 .. n
  BY <1>4 DEF OnFile
<1>11. FileInv'
  <2>1. ASSUME NEW k \in DOMAIN seen' PROVE OnFile(k)' # {}
    <3>1. OnFile(k) # {} \/ (k = key /\ e.status \in Filed)
      BY <1>1, <1>2, <1>9 DEF FileInv
    <3> QED
      BY <1>8, <3>1 DEF Filed, Refused
  <2>2. ASSUME NEW i \in 1 .. n, events[i].status \notin Refused
        PROVE  /\ Key(events'[i].body) \in DOMAIN seen'
               /\ Oldest(i)' => seen'[Key(events'[i].body)] = Digest(events'[i].body)
    <3>1. Oldest(i)' => Oldest(i)
      BY <1>4, <1>8 DEF Oldest
    <3> QED
      BY <1>1, <1>2, <1>4, <2>2, <3>1 DEF FileInv
  <2>3. ASSUME e.status \notin Refused
        PROVE  key \in DOMAIN seen' /\ (Oldest(n + 1)' => seen'[key] = Digest(e.body))
    <3>1. key \in DOMAIN seen
      BY <1>0, <1>1, <1>7, <2>3 DEF HandlerInv
    <3>2. CASE e.status \in Filed
      BY <1>0, <1>1, <1>2, <1>7, <2>3, <3>1, <3>2 DEF HandlerInv, Filed
    <3>3. CASE e.status \notin Filed
      <4>1. OnFile(key) # {}
        BY <1>1, <1>9, <3>1, <3>3, OnFileIsSeen
      <4>2. PICK j \in 1 .. n : j \in OnFile(key)'
        BY <1>8, <1>10, <4>1
      <4>3. ~(n + 1 <= j)
        BY <1>4
      <4>4. ~Oldest(n + 1)'
        BY <1>4, <4>2, <4>3 DEF Oldest
      <4> QED
        BY <1>2, <3>1, <4>4
    <3> QED
      BY <3>2, <3>3
  <2>4. ASSUME NEW m \in Nat, key = <<"demo", m>> PROVE m < n + 1
    <3>1. demo[t] # NoDemo
      <4>1. key \notin GatewayKeys
        BY <2>4, DemoKeyIsOwn
      <4> QED
        BY <1>1, <1>7, <4>1 DEF ThreadInv, Handling, GatewayKeys
    <3>2. key = <<"demo", demo[t].number>>
      BY <1>1, <1>7, <3>1, DemoJob DEF Handling
    <3>3. demo[t].number <= n /\ demo[t].number = m /\ demo[t].number \in Nat
      BY <1>0, <1>1, <2>4, <3>1, <3>2 DEF DemoInv, Demos
    <3> QED
      BY <1>4, <3>3
  <2>5. \A i \in 1 .. n, m \in Nat : Key(events'[i].body) = <<"demo", m>> => m < i
    BY <1>1, <1>4 DEF FileInv
  <2>6. \A i \in DOMAIN events' : i = n + 1 \/ i \in 1 .. n
    BY <1>4
  <2> QED
    BY <1>4, <2>1, <2>2, <2>3, <2>4, <2>5, <2>6 DEF FileInv
<1>12. HandlerInv(t)'
  BY <1>0, <1>2, <1>4, <1>5, <1>7 DEF HandlerInv
<1>13. DemoInv(t)'
  <2> SUFFICES ASSUME demo[t] # NoDemo PROVE DemoInv(t)'
    BY <1>2 DEF DemoInv
  <2> DEFINE c == Len(demo[t].sent)
  <2>1. c \in 0 .. 3 /\ demo[t].number \in Nat
    BY <1>1, DemoJob DEF Handling
  <2>2. demo[t].number <= n + 1 /\ e.status = Told[c + 1].status /\ e.affected = {}
    BY <1>0, <1>1, <1>4, <2>1 DEF DemoInv
  <2> HIDE DEF c
  <2>3. /\ e.status = "accepted" => c = 0
        /\ e.status # "accepted" => Told[c + 1].affected = {}
    <3>1. c = 0 \/ c = 1 \/ c = 2 \/ c = 3
      BY <2>1
    <3> QED
      BY <2>2, <3>1, ToldIs
  <2> QED
    BY <1>0, <1>1, <1>2, <1>4, <1>5, <2>2, <2>3 DEF DemoInv, Handling, c
<1> QED
  BY <1>1, <1>6, <1>11, <1>12, <1>13, AloneKeeps

\* The event rebuilt with its settlements is the one just logged.
LEMMA ScopeAlone ==
  ASSUME IInv, IInv', AloneInv, NEW t \in Threads, Scope(t)
  PROVE  AloneInv'
<1> DEFINE e == [entry[t] EXCEPT !.affected = NamesIn(job[t].body)]
<1>1. /\ pc \in [Threads -> Labels] /\ entry \in [Threads -> Entries]
      /\ entry[t] \in Entries /\ DemoInv(t) /\ HandlerInv(t) /\ pc[t] = "scope"
  BY DEF IInv, TypeInv, AloneInv, Scope
<1>2. UNCHANGED <<log, seen, events, secret>> /\ job' = job /\ demo' = demo
  BY DEF Scope, log
<1>3. pc'[t] = "replace" /\ entry'[t] = e
  BY <1>1 DEF Scope, Goto, Build
<1>4. /\ e.body = entry[t].body /\ e.status = entry[t].status
      /\ e.affected = NamesIn(job[t].body)
  BY <1>1 DEF Entries
<1> HIDE DEF e
<1>5. OnlyMoves(t)
  BY <1>1, <1>2 DEF Scope, Goto, Build, OnlyMoves
<1>6. FileInv'
  BY <1>1, <1>2, <1>5, FileKept DEF AloneInv
<1>7. HandlerInv(t)'
  BY <1>1, <1>2, <1>3, <1>4 DEF HandlerInv
<1>8. DemoInv(t)'
  <2> SUFFICES ASSUME demo[t] # NoDemo PROVE DemoInv(t)'
    BY <1>2 DEF DemoInv
  <2>1. Len(demo[t].sent) = 0 /\ NamesIn(job[t].body) = Shown
    BY <1>1, DemoJob DEF DemoInv, Handling
  <2>2. Told[1].affected = Shown
    BY ToldIs
  <2> QED
    BY <1>1, <1>2, <1>3, <1>4, <2>1, <2>2 DEF DemoInv, Handling
<1> QED
  BY <1>1, <1>5, <1>6, <1>7, <1>8, AloneKeeps

\* replace_last puts back the event it rebuilt: key, digest and status stay.
LEMMA ReplacesItself ==
  ASSUME IInv, AloneInv, NEW t \in Threads, ReplaceLast(t)
  PROVE  /\ DOMAIN events' = DOMAIN events /\ Len(events') = Len(events)
         /\ \A i \in DOMAIN events :
              events'[i].body = events[i].body /\ events'[i].status = events[i].status
<1>1. /\ events \in Seq(Entries) /\ events # <<>> /\ pc[t] = "replace" /\ HandlerInv(t)
  BY DEF IInv, TypeInv, ThreadInv, AloneInv, ReplaceLast
<1>2. /\ entry[t].status = "accepted" /\ entry[t].body = job[t].body
      /\ events[Len(events)].body = job[t].body /\ events[Len(events)].status = "accepted"
  BY <1>1 DEF HandlerInv
<1>3. Len(events) \in 1 .. Len(events) /\ DOMAIN events = 1 .. Len(events)
  BY <1>1, LenProperties, EmptySeq
<1>4. events' = [events EXCEPT ![Len(events)] = entry[t]]
  BY DEF ReplaceLast
<1>5. events' \in Seq(Entries)
  BY <1>1, <1>3, <1>4, ExceptSeq DEF IInv, TypeInv
<1>6. DOMAIN events' = DOMAIN events
  BY <1>4
<1>7. Len(events') = Len(events)
  BY <1>3, <1>5, <1>6, LenProperties
<1> QED
  BY <1>2, <1>3, <1>4, <1>6, <1>7

LEMMA ReplaceAlone ==
  ASSUME IInv, IInv', AloneInv, NEW t \in Threads, ReplaceLast(t)
  PROVE  AloneInv'
<1>1. /\ pc \in [Threads -> Labels] /\ DemoInv(t) /\ FileInv /\ pc[t] = "replace"
  BY DEF IInv, TypeInv, AloneInv, ReplaceLast
<1>2. /\ UNCHANGED <<seen, secret>> /\ job' = job /\ demo' = demo /\ entry' = entry
  BY DEF ReplaceLast
<1>3. pc'[t] = "done"
  BY <1>1 DEF ReplaceLast, Goto
<1>4. OnlyMoves(t)
  BY <1>1, <1>2 DEF ReplaceLast, Goto, OnlyMoves
<1>5. /\ DOMAIN events' = DOMAIN events /\ Len(events') = Len(events)
      /\ \A i \in DOMAIN events :
           events'[i].body = events[i].body /\ events'[i].status = events[i].status
  BY ReplacesItself
<1>6. \A k : OnFile(k)' = OnFile(k)
  BY <1>5 DEF OnFile
<1>7. \A i \in DOMAIN events : Oldest(i)' <=> Oldest(i)
  BY <1>5, <1>6 DEF Oldest
<1>8. \A u \in Threads : \A k : Marked(u, k) => Marked(u, k)'
  BY <1>1, <1>4 DEF Marked, OnlyMoves
<1>9. FileInv'
  BY <1>1, <1>2, <1>5, <1>6, <1>7, <1>8 DEF FileInv
<1>10. HandlerInv(t)'
  BY <1>3 DEF HandlerInv
<1>11. DemoInv(t)'
  BY <1>1, <1>2, <1>3, <1>5 DEF DemoInv, Handling
<1> QED
  BY <1>1, <1>4, <1>9, <1>10, <1>11, AloneKeeps

\* What a case is told is what the demonstration was to show.
LEMMA ReplyAlone ==
  ASSUME IInv, IInv', AloneInv, NEW t \in Threads, Reply(t)
  PROVE  AloneInv'
<1>1. /\ pc \in [Threads -> Labels] /\ job \in [Threads -> Jobs]
      /\ entry \in [Threads -> Entries] /\ demo \in [Threads -> Demos]
      /\ demo[t] \in Demos /\ DemoInv(t) /\ pc[t] = "done"
  BY DEF IInv, TypeInv, AloneInv, Reply
<1>2. UNCHANGED <<log, seen, events, secret>>
  BY DEF Reply, log
<1>3. OnlyMoves(t) /\ pc'[t] \in {"told", "send", "idle"}
  BY <1>1 DEF Reply, Goto, Build, OnlyMoves
<1>4. FileInv'
  BY <1>1, <1>2, <1>3, FileKept DEF AloneInv
<1>5. HandlerInv(t)'
  BY <1>3 DEF HandlerInv
<1>6. DemoInv(t)'
  <2>1. CASE demo[t] = NoDemo
    <3>1. demo' = demo
      BY <2>1 DEF Reply, Demonstrating
    <3> QED
      BY <2>1, <3>1 DEF DemoInv
  <2>2. CASE demo[t] # NoDemo
    <3>0. PICK c : c = Len(demo[t].sent)
      OBVIOUS
    <3> DEFINE a == [status |-> entry[t].status, affected |-> entry[t].affected]
               d == [demo[t] EXCEPT !.sent = Append(demo[t].sent, a)]
    <3>1. demo'[t] = d
      BY <1>1, <2>2 DEF Reply, Demonstrating
    <3>2. a \in Answers /\ demo[t].sent \in Seq(Answers)
      BY <1>1 DEF Entries, Answers, Demos
    <3>3. c \in 0 .. 3 /\ a.status = Told[c + 1].status /\ a.affected = Told[c + 1].affected
      BY <1>1, <2>2, <3>0, DemoJob DEF DemoInv, Handling
    <3>4. a = Told[c + 1]
      <4>1. c = 0 \/ c = 1 \/ c = 2 \/ c = 3
        BY <3>3
      <4> QED
        BY <3>3, <4>1, ToldIs
    <3> HIDE DEF a
    <3>5. /\ Len(Append(demo[t].sent, a)) = c + 1
          /\ Append(demo[t].sent, a)[c + 1] = a
          /\ \A i \in 1 .. c : Append(demo[t].sent, a)[i] = demo[t].sent[i]
      BY <3>0, <3>2, AppendProperties, LenProperties
    <3>6. d.signs = demo[t].signs /\ d.number = demo[t].number
          /\ d.sent = Append(demo[t].sent, a)
      BY <1>1 DEF Demos
    <3> HIDE DEF d
    <3>7. pc'[t] = IF c + 1 = 4 THEN "told" ELSE "send"
      BY <1>1, <2>2, <3>1, <3>5, <3>6 DEF Reply, Demonstrating, Goto
    <3>8. \A i \in 1 .. (c + 1) : d.sent[i] = Told[i]
      <4>1. \A i \in 1 .. c : demo[t].sent[i] = Told[i]
        BY <1>1, <2>2, <3>0 DEF DemoInv
      <4>2. \A i \in 1 .. (c + 1) : i \in 1 .. c \/ i = c + 1
        BY <3>3
      <4> QED
        BY <3>4, <3>5, <3>6, <4>1, <4>2
    <3>9. c + 1 > 0 /\ Len(d.sent) = c + 1
      BY <3>3, <3>5, <3>6
    <3> QED
      BY <1>1, <1>2, <2>2, <3>1, <3>6, <3>7, <3>8, <3>9 DEF DemoInv, Handling
  <2> QED
    BY <2>1, <2>2
<1> QED
  BY <1>1, <1>3, <1>4, <1>5, <1>6, AloneKeeps

LEMMA InitAlone == Init => AloneInv
<1> SUFFICES ASSUME Init PROVE AloneInv
  OBVIOUS
<1>1. FileInv
  BY DEF Init, FileInv
<1> QED
  BY <1>1 DEF Init, AloneInv, Alone, HandlerInv, DemoInv

LEMMA NextAlone == IInv /\ SInv /\ [Next]_vars => SInv'
<1> SUFFICES ASSUME IInv, SInv, [Next]_vars, ~overlap' PROVE AloneInv'
  BY DEF SInv
<1>1. overlap' = overlap
  BY DEF Next, vars, Handle, Demonstrate, Receive, AskDemo, SetSecret, ReadSecret, NumberDemo,
         SendCase, EndDemo, Unverifiable, Reject, Verified, Lookup, Compare, Mark,
         AppendEvent, Scope, ReplaceLast, Reply, counts
<1>2. IInv' /\ AloneInv /\ ~overlap
  BY <1>1, NextIInv DEF SInv
<1>3. ASSUME NEW t \in Threads, Receive(t) \/ AskDemo(t) PROVE AloneInv'
  BY <1>2, <1>3, ArriveAlone
<1>4. ASSUME NEW t \in Threads, Demonstrate(t) PROVE AloneInv'
  BY <1>2, <1>4, DemonstrateAlone
<1>5. ASSUME NEW t \in Threads, Handle(t) PROVE AloneInv'
  BY <1>2, <1>5, VerifyAlone, LookupAlone, CompareAlone, MarkAlone, AppendAlone,
     ScopeAlone, ReplaceAlone, ReplyAlone DEF Handle
<1>6. CASE UNCHANGED vars
  <2>1. AloneInv' <=> AloneInv
    BY <1>6 DEF vars, AloneInv, Alone, FileInv, HandlerInv, DemoInv, OnFile, Oldest, Marked
  <2> QED
    BY <1>2, <2>1
<1> QED
  BY <1>3, <1>4, <1>5, <1>6 DEF Next

\* Deliveries that do not overlap: `seen` says what the log says.
THEOREM AloneInvariant == Spec => []SInv
<1>1. Init => SInv
  BY InitAlone DEF SInv
<1>2. IInv /\ SInv /\ [Next]_vars => SInv'
  BY NextAlone
<1> QED
  BY <1>1, <1>2, IngestInvariant, PTL DEF Spec

-----------------------------------------------------------------------------
(* A demonstration under any interleaving *)

\* What the four cases may be answered when their signature is accepted.
Expected == <<{"accepted", "duplicate"}, {"duplicate"}, {"replay_mismatch"}, {}>>

LEMMA ExpectedIs ==
  /\ Expected[1] = {"accepted", "duplicate"} /\ Expected[2] = {"duplicate"}
  /\ Expected[3] = {"replay_mismatch"} /\ Expected[4] = {}
BY DEF Expected

Bad(answer) == answer.status = "bad_signature"

\* Another demonstration has replaced the secret t signs with.  A thread sets
\* the secret only once, so the one replaced does not come back.
Replaced(t) == secret # demo[t].signs
Fresh(u) == pc[u] = "secret" => secret # u /\ \A v \in Threads : demo[v].signs # u

\* A demonstration's id stands for its first body, whoever marked it.
FirstInv ==
  \A n \in Nat : <<"demo", n>> \in DOMAIN seen => seen[<<"demo", n>>] = DemoBody(n, "first")

\* Where a demonstration stands after c cases, others moving in between.
RaceInv(t) ==
  LET n == demo[t].number
      c == Len(demo[t].sent)
      known == <<"demo", n>> \in DOMAIN seen
  IN
  demo[t] # NoDemo =>
    /\ pc[t] = "number" => c = 0
    /\ pc[t] = "told" => c = 4
    /\ \A i \in 1 .. c :
         LET a == demo[t].sent[i] IN
         /\ a.status \in Expected[i] \cup {"bad_signature"}
         /\ a.affected = IF a.status = "accepted" THEN Shown ELSE {}
         /\ IF Bad(a) THEN i < 4 => Replaced(t) ELSE known
    /\ pc[t] \in Handling =>
         /\ job[t].body = DemoBody(n, Case[c + 1])
         /\ job[t].signature = IF c = 3 THEN "forged" ELSE demo[t].signs
    /\ pc[t] \in {"lookup", "compare", "mark"} =>
         c < 3 /\ \A i \in 1 .. c : ~Bad(demo[t].sent[i])
    /\ pc[t] = "compare" => known
    /\ pc[t] = "mark" => c = 0
    /\ pc[t] \in {"append", "scope", "replace", "done"} =>
         /\ entry[t].status \in Expected[c + 1] \cup {"bad_signature"}
         /\ IF Bad(entry[t]) THEN c < 3 => Replaced(t) ELSE known
    /\ pc[t] \in {"scope", "replace"} => entry[t].status = "accepted"
    /\ pc[t] \in {"append", "scope"} => entry[t].affected = {}
    /\ pc[t] \in {"replace", "done"} =>
         entry[t].affected = IF entry[t].status = "accepted" THEN Shown ELSE {}

\* The inductive invariant of demonstrations that overlap with anything.
Racing == FirstInv /\ \A t \in Threads : Fresh(t) /\ RaceInv(t)

\* A step of one thread takes nothing from another's demonstration: what is
\* seen stays seen, and a replaced secret stays replaced.
LEMMA OthersRaceOn ==
  ASSUME IInv, Racing, NEW t \in Threads, OnlyMoves(t),
         secret' = secret \/ (pc[t] = "secret" /\ secret' = t),
         DOMAIN seen \subseteq DOMAIN seen',
         demo'[t].signs \in {demo[t].signs, secret, "none"},
         FirstInv', Fresh(t)', RaceInv(t)'
  PROVE  Racing'
<1>1. ASSUME NEW u \in Threads \ {t} PROVE Fresh(u)' /\ RaceInv(u)'
  <2>1. /\ pc'[u] = pc[u] /\ job'[u] = job[u] /\ entry'[u] = entry[u] /\ demo'[u] = demo[u]
        /\ Fresh(u) /\ Fresh(t) /\ RaceInv(u)
    BY DEF OnlyMoves, Racing
  <2>2. Replaced(u) => Replaced(u)'
    <3>1. CASE secret' = secret
      BY <2>1, <3>1 DEF Replaced
    <3>2. CASE pc[t] = "secret" /\ secret' = t
      BY <2>1, <3>2 DEF Fresh, Replaced
    <3> QED
      BY <3>1, <3>2
  <2>3. RaceInv(u)'
    BY <2>1, <2>2 DEF RaceInv, Bad
  <2>4. Fresh(u)'
    <3> SUFFICES ASSUME pc[u] = "secret", NEW v \in Threads
                 PROVE  secret' # u /\ demo'[v].signs # u
      BY <2>1 DEF Fresh
    <3>1. secret # u /\ \A w \in Threads : demo[w].signs # u
      BY <2>1 DEF Fresh
    <3>2. secret' # u
      BY <3>1
    <3>3. v # t => demo'[v] = demo[v]
      BY DEF OnlyMoves
    <3>4. u # "none"
      BY Strangers DEF Keepers
    <3> QED
      BY <3>1, <3>2, <3>3, <3>4
  <2> QED
    BY <2>3, <2>4
<1> QED
  BY <1>1 DEF Racing

LEMMA ArriveRaces ==
  ASSUME IInv, IInv', Racing, NEW t \in Threads, Receive(t) \/ AskDemo(t)
  PROVE  Racing'
<1>1. /\ UNCHANGED <<secret, seen, demo>> /\ demo[t] = NoDemo /\ OnlyMoves(t)
      /\ pc'[t] = "secret" => secret = "none"
  <2>1. pc[t] = "idle" /\ UNCHANGED <<secret, seen, demo, entry>>
    BY DEF Receive, AskDemo, Free, log
  <2>2. OnlyMoves(t)
    BY <2>1 DEF Receive, AskDemo, Take, Goto, OnlyMoves, IInv, TypeInv
  <2>3. pc'[t] = "secret" => secret = "none"
    BY DEF Receive, AskDemo, Goto, IInv, TypeInv
  <2> QED
    BY <2>1, <2>2, <2>3 DEF IInv, ThreadInv
<1>2. FirstInv' /\ RaceInv(t)'
  BY <1>1 DEF Racing, FirstInv, RaceInv
<1>3. Fresh(t)'
  <2> SUFFICES ASSUME pc'[t] = "secret", NEW v \in Threads
               PROVE  secret' # t /\ demo'[v].signs # t
    BY DEF Fresh
  <2>1. secret = "none" /\ demo[v] = NoDemo
    BY <1>1 DEF IInv, ThreadInv
  <2> QED
    BY <1>1, <2>1, Strangers, RecordsTyped DEF Keepers
<1> QED
  BY <1>1, <1>2, <1>3, OthersRaceOn

LEMMA DemonstrateRaces ==
  ASSUME IInv, IInv', Racing, NEW t \in Threads, Demonstrate(t)
  PROVE  Racing'
<1>1. /\ ThreadInv(t) /\ RaceInv(t) /\ Fresh(t) /\ FirstInv
      /\ demo[t] \in Demos /\ Len(demo[t].sent) \in Nat
      /\ pc \in [Threads -> Labels] /\ demo \in [Threads -> Demos] /\ job \in [Threads -> Jobs]
  BY LenProperties DEF IInv, TypeInv, Racing, Demos
<1>2. UNCHANGED <<seen, events, entry>>
  BY DEF Demonstrate, SetSecret, ReadSecret, NumberDemo, SendCase, EndDemo, counts, log
<1>3. FirstInv'
  BY <1>1, <1>2 DEF FirstInv
<1>4. CASE SetSecret(t)
  <2>1. /\ pc[t] = "secret" /\ secret' = t /\ pc' = [pc EXCEPT ![t] = "sign"]
        /\ UNCHANGED <<job, demo>>
    BY <1>4 DEF SetSecret, Goto
  <2>2. OnlyMoves(t) /\ pc'[t] = "sign" /\ demo[t] = NoDemo
    BY <1>1, <1>2, <2>1 DEF OnlyMoves, ThreadInv
  <2>3. Fresh(t)' /\ RaceInv(t)'
    BY <2>1, <2>2 DEF Fresh, RaceInv
  <2> QED
    BY <1>2, <1>3, <2>1, <2>2, <2>3, OthersRaceOn
<1>5. CASE ReadSecret(t)
  <2>1. /\ pc[t] = "sign" /\ pc' = [pc EXCEPT ![t] = "number"]
        /\ demo' = [demo EXCEPT ![t] = [demo[t] EXCEPT !.signs = secret]]
        /\ UNCHANGED <<secret, job>>
    BY <1>5 DEF ReadSecret, Goto
  <2>2. /\ OnlyMoves(t) /\ pc'[t] = "number"
        /\ demo'[t] = [demo[t] EXCEPT !.signs = secret]
    BY <1>1, <1>2, <2>1 DEF OnlyMoves
  <2>3. demo'[t].signs = secret /\ demo'[t].sent = demo[t].sent
    BY <1>1, <2>2 DEF Demos
  <2>4. Len(demo[t].sent) = 0
    BY <1>1, <2>1, RecordsTyped DEF ThreadInv
  <2>5. Fresh(t)' /\ RaceInv(t)'
    BY <2>2, <2>3, <2>4 DEF Fresh, RaceInv, Handling
  <2> QED
    BY <1>2, <1>3, <2>1, <2>2, <2>3, <2>5, OthersRaceOn
<1>6. CASE NumberDemo(t)
  <2>1. /\ pc[t] = "number" /\ pc' = [pc EXCEPT ![t] = "send"]
        /\ demo' = [demo EXCEPT ![t] = [demo[t] EXCEPT !.number = Len(events)]]
        /\ UNCHANGED <<secret, job>>
    BY <1>6 DEF NumberDemo, Goto
  <2>2. /\ OnlyMoves(t) /\ pc'[t] = "send"
        /\ demo'[t] = [demo[t] EXCEPT !.number = Len(events)]
    BY <1>1, <1>2, <2>1 DEF OnlyMoves
  <2>3. demo'[t].signs = demo[t].signs /\ demo'[t].sent = demo[t].sent
    BY <1>1, <2>2 DEF Demos
  <2>4. Len(demo[t].sent) = 0
    BY <1>1, <2>1 DEF ThreadInv, RaceInv
  <2>5. Fresh(t)' /\ RaceInv(t)'
    BY <2>2, <2>3, <2>4 DEF Fresh, RaceInv, Handling
  <2> QED
    BY <1>2, <1>3, <2>1, <2>2, <2>3, <2>5, OthersRaceOn
<1>7. CASE SendCase(t)
  <2> DEFINE c == Len(demo[t].sent)
             j == [body |-> DemoBody(demo[t].number, Case[c + 1]),
                   signature |-> IF c + 1 = 4 THEN "forged" ELSE demo[t].signs]
  <2>1. /\ pc[t] = "send" /\ pc' = [pc EXCEPT ![t] = "verify"]
        /\ job' = [job EXCEPT ![t] = j]
        /\ UNCHANGED <<secret, demo>>
    BY <1>7 DEF SendCase, Goto, Take, Case
  <2>2. OnlyMoves(t) /\ pc'[t] = "verify" /\ job'[t] = j /\ demo[t] # NoDemo
    BY <1>1, <1>2, <2>1 DEF OnlyMoves, ThreadInv
  <2>3. /\ job'[t].body = DemoBody(demo[t].number, Case[Len(demo[t].sent) + 1])
        /\ job'[t].signature = IF Len(demo[t].sent) = 3 THEN "forged" ELSE demo[t].signs
    <3>1. \A k \in Nat : k + 1 = 4 <=> k = 3
      OBVIOUS
    <3>2. Len(demo[t].sent) + 1 = 4 <=> Len(demo[t].sent) = 3
      BY <1>1, <3>1
    <3> QED
      BY <2>2, <3>2
  <2>4. Replaced(t)' <=> Replaced(t)
    BY <2>1 DEF Replaced
  <2> HIDE DEF j, c
  <2>5. Fresh(t)' /\ RaceInv(t)'
    BY <1>1, <1>2, <2>1, <2>2, <2>3, <2>4 DEF Fresh, RaceInv
  <2> QED
    BY <1>2, <1>3, <2>1, <2>2, <2>5, OthersRaceOn
<1>8. CASE EndDemo(t)
  <2>1. /\ pc[t] = "told" /\ pc' = [pc EXCEPT ![t] = "idle"]
        /\ demo' = [demo EXCEPT ![t] = NoDemo]
        /\ UNCHANGED <<secret, job>>
    BY <1>8 DEF EndDemo, Goto
  <2>2. OnlyMoves(t) /\ pc'[t] = "idle" /\ demo'[t] = NoDemo
    BY <1>1, <1>2, <2>1 DEF OnlyMoves
  <2>3. Fresh(t)' /\ RaceInv(t)' /\ demo'[t].signs = "none"
    BY <2>2, RecordsTyped DEF Fresh, RaceInv
  <2> QED
    BY <1>2, <1>3, <2>1, <2>2, <2>3, OthersRaceOn
<1> QED
  BY <1>4, <1>5, <1>6, <1>7, <1>8 DEF Demonstrate

\* Refused for its signature, a case shows that the secret was replaced, unless
\* it is the fourth; accepted, that it was not, so no case was refused before.
LEMMA VerifyRaces ==
  ASSUME IInv, IInv', Racing, NEW t \in Threads,
         Unverifiable(t) \/ Reject(t) \/ Verified(t)
  PROVE  Racing'
<1>1. /\ ThreadInv(t) /\ RaceInv(t) /\ FirstInv
      /\ pc[t] = "verify" /\ demo[t] \in Demos /\ Len(demo[t].sent) \in Nat
      /\ pc \in [Threads -> Labels] /\ entry \in [Threads -> Entries]
      /\ secret \in Keepers \cup {"none"}
  BY LenProperties DEF IInv, TypeInv, Racing, Demos, Unverifiable, Reject, Verified
<1>2. UNCHANGED <<secret, seen, events, job, demo>>
  BY DEF Unverifiable, Reject, Verified, counts, log
<1>3. FirstInv' /\ OnlyMoves(t) /\ pc'[t] \in {"append", "lookup"} /\ (Replaced(t)' <=> Replaced(t))
  BY <1>1, <1>2 DEF FirstInv, OnlyMoves, Unverifiable, Reject, Verified, Build, Goto, Replaced
<1>4. Fresh(t)'
  BY <1>3 DEF Fresh
<1> DEFINE c == Len(demo[t].sent)
<1>5. ASSUME demo[t] # NoDemo
      PROVE  /\ secret # "none" /\ c \in 0 .. 3 /\ job[t].body \notin Unusable
             /\ job[t].signature = IF c = 3 THEN "forged" ELSE demo[t].signs
  <2>1. secret # "none" /\ c < 4
    BY <1>1, <1>5 DEF ThreadInv
  <2>2. /\ job[t].body = DemoBody(demo[t].number, Case[c + 1])
        /\ job[t].signature = IF c = 3 THEN "forged" ELSE demo[t].signs
    BY <1>1, <1>5 DEF RaceInv, Handling
  <2>3. Case[c + 1] \in Cases /\ demo[t].number \in Nat
    BY <1>1, <2>1, CaseTyped DEF Demos
  <2>4. job[t].body \notin Bodies
    BY <2>2, <2>3, DemoBodyTyped
  <2>5. \A k \in Nat : k < 4 => k \in 0 .. 3
    OBVIOUS
  <2>6. c \in 0 .. 3
    BY <1>1, <2>1, <2>5
  <2>7. job[t].body \notin Unusable
    BY <2>4, EventAssumption
  <2> QED
    BY <2>1, <2>2, <2>6, <2>7
<1>6. CASE demo[t] = NoDemo
  BY <1>2, <1>3, <1>4, <1>6, OthersRaceOn DEF RaceInv
<1>7. CASE demo[t] # NoDemo /\ Reject(t)
  <2>1. /\ pc'[t] = "append" /\ entry'[t].status = "bad_signature"
        /\ entry'[t].affected = {}
    BY <1>1, <1>7 DEF Reject, Build, Goto, Event
  <2>2. c < 3 => Replaced(t)
    <3>1. job[t].signature # secret
      BY <1>5, <1>7 DEF Reject
    <3>2. job[t].signature = IF c = 3 THEN "forged" ELSE demo[t].signs
      BY <1>5, <1>7
    <3> HIDE DEF c
    <3> QED
      BY <3>1, <3>2 DEF Replaced
  <2>3. RaceInv(t)'
    BY <1>1, <1>2, <1>3, <1>7, <2>1, <2>2 DEF RaceInv, Bad, Handling
  <2> QED
    BY <1>2, <1>3, <1>4, <2>3, OthersRaceOn
<1>8. CASE demo[t] # NoDemo /\ Verified(t)
  <2>1. pc'[t] = "lookup" /\ job[t].signature = secret /\ UNCHANGED entry
    BY <1>1, <1>8 DEF Verified, Goto
  <2>2. secret # "forged"
    BY <1>1, Strangers DEF Keepers, Signatures
  <2>3. c < 3 /\ ~Replaced(t)
    <3>1. c \in 0 .. 3 /\ job[t].signature = IF c = 3 THEN "forged" ELSE demo[t].signs
      BY <1>5, <1>8
    <3> HIDE DEF c
    <3> QED
      BY <2>1, <2>2, <3>1 DEF Replaced
  <2>4. \A i \in 1 .. c : ~Bad(demo[t].sent[i])
    <3> SUFFICES ASSUME NEW i \in 1 .. c PROVE ~Bad(demo[t].sent[i])
      OBVIOUS
    <3>1. i < 4
      BY <1>1, <2>3
    <3> QED
      BY <1>1, <1>8, <2>3, <3>1 DEF RaceInv
  <2>5. RaceInv(t)'
    BY <1>1, <1>2, <1>3, <1>8, <2>1, <2>3, <2>4 DEF RaceInv, Handling
  <2> QED
    BY <1>2, <1>3, <1>4, <2>5, OthersRaceOn
<1> QED
  BY <1>5, <1>6, <1>7, <1>8 DEF Unverifiable

\* What a demonstration handles past its signature: one of its first three
\* cases, and if not the first, one whose id is known.
LEMMA RaceJob ==
  ASSUME IInv, Racing, NEW t \in Threads, demo[t] # NoDemo,
         pc[t] \in {"lookup", "compare", "mark"}
  PROVE  LET n == demo[t].number
             c == Len(demo[t].sent)
         IN  /\ n \in Nat /\ c \in 0 .. 2
             /\ job[t].body = DemoBody(n, Case[c + 1])
             /\ job[t].body \notin Bodies /\ Key(job[t].body) = <<"demo", n>>
             /\ Digest(job[t].body) = job[t].body
             /\ c # 0 => <<"demo", n>> \in DOMAIN seen
<1> DEFINE n == demo[t].number
           c == Len(demo[t].sent)
<1>1. n \in Nat /\ c \in Nat /\ RaceInv(t)
  BY LenProperties DEF IInv, TypeInv, Racing, Demos
<1>2. c < 3 /\ job[t].body = DemoBody(n, Case[c + 1]) /\ \A i \in 1 .. c : ~Bad(demo[t].sent[i])
  BY <1>1 DEF RaceInv, Handling
<1>3. Case[c + 1] \in Cases
  BY <1>1, <1>2, CaseTyped
<1>4. c # 0 => <<"demo", n>> \in DOMAIN seen
  <2> SUFFICES ASSUME c # 0 PROVE <<"demo", n>> \in DOMAIN seen
    OBVIOUS
  <2>1. 1 \in 1 .. c
    BY <1>1
  <2> QED
    BY <1>1, <1>2, <2>1 DEF RaceInv
<1> HIDE DEF n, c
<1>5. DemoBody(n, Case[c + 1]) \notin Bodies
  BY <1>1, <1>3, DemoBodyTyped
<1>6. /\ Key(DemoBody(n, Case[c + 1])) = <<"demo", n>>
      /\ Digest(DemoBody(n, Case[c + 1])) = DemoBody(n, Case[c + 1])
  BY <1>1, <1>3, DemoBodyTyped
<1>7. c \in 0 .. 2
  BY <1>1, <1>2
<1> QED
  BY <1>1, <1>2, <1>4, <1>5, <1>6, <1>7 DEF n, c

LEMMA LookupRaces ==
  ASSUME IInv, IInv', Racing, NEW t \in Threads, Lookup(t)
  PROVE  Racing'
<1> DEFINE c == Len(demo[t].sent)
           known == <<"demo", demo[t].number>> \in DOMAIN seen
<1>1. RaceInv(t) /\ FirstInv /\ pc[t] = "lookup" /\ pc \in [Threads -> Labels]
  BY DEF IInv, TypeInv, Racing, Lookup
<1>2. /\ UNCHANGED <<secret, seen, job, entry, demo>>
      /\ pc'[t] = IF Key(job[t].body) \in DOMAIN seen THEN "compare" ELSE "mark"
      /\ FirstInv' /\ OnlyMoves(t)
  BY <1>1 DEF Lookup, Goto, log, OnlyMoves, FirstInv
<1>3. Fresh(t)'
  BY <1>2 DEF Fresh
<1>4. CASE demo[t] = NoDemo
  BY <1>2, <1>3, <1>4, OthersRaceOn DEF RaceInv
<1>5. CASE demo[t] # NoDemo
  <2>1. Key(job[t].body) = <<"demo", demo[t].number>> /\ (c # 0 => known)
    BY <1>1, <1>5, RaceJob
  <2>2. /\ pc'[t] \in {"compare", "mark"} /\ pc'[t] = "compare" => known
        /\ pc'[t] = "mark" => c = 0
    BY <1>2, <2>1
  <2>3. Replaced(t)' <=> Replaced(t)
    BY <1>2 DEF Replaced
  <2>4. RaceInv(t)'
    BY <1>1, <1>2, <1>5, <2>2, <2>3 DEF RaceInv, Handling
  <2> QED
    BY <1>2, <1>3, <2>4, OthersRaceOn
<1> QED
  BY <1>4, <1>5

\* The first body's digest is the one that is known.
LEMMA CompareRaces ==
  ASSUME IInv, IInv', Racing, NEW t \in Threads, Compare(t)
  PROVE  Racing'
<1> DEFINE n == demo[t].number
           c == Len(demo[t].sent)
           known == <<"demo", n>> \in DOMAIN seen
           status == IF seen[Key(job[t].body)] = Digest(job[t].body)
                     THEN "duplicate" ELSE "replay_mismatch"
<1>1. /\ RaceInv(t) /\ FirstInv /\ pc[t] = "compare" /\ pc \in [Threads -> Labels]
      /\ entry \in [Threads -> Entries]
  BY DEF IInv, TypeInv, Racing, Compare
<1>2. /\ UNCHANGED <<secret, seen, job, demo>> /\ pc'[t] = "append"
      /\ entry'[t].status = status /\ entry'[t].affected = {}
      /\ FirstInv' /\ OnlyMoves(t)
  BY <1>1 DEF Compare, Goto, Build, Event, log, OnlyMoves, FirstInv
<1>3. Fresh(t)'
  BY <1>2 DEF Fresh
<1>4. CASE demo[t] = NoDemo
  BY <1>2, <1>3, <1>4, OthersRaceOn DEF RaceInv
<1>5. CASE demo[t] # NoDemo
  <2>1. /\ n \in Nat /\ c \in 0 .. 2 /\ job[t].body = DemoBody(n, Case[c + 1])
        /\ Key(job[t].body) = <<"demo", n>> /\ Digest(job[t].body) = job[t].body
    BY <1>1, <1>5, RaceJob
  <2>2. known
    BY <1>1, <1>5 DEF RaceInv
  <2>3. seen[<<"demo", n>>] = DemoBody(n, "first")
    BY <1>1, <2>1, <2>2 DEF FirstInv
  <2>4. status = IF DemoBody(n, "first") = DemoBody(n, Case[c + 1])
                 THEN "duplicate" ELSE "replay_mismatch"
    BY <2>1, <2>3
  <2>5. DemoBody(n, "first") # DemoBody(n, "other")
    BY DEF DemoBody
  <2>6. status \in Expected[c + 1]
    <3>1. CASE c = 0
      BY <2>4, <3>1, ToldIs, ExpectedIs
    <3>2. CASE c = 1
      BY <2>4, <3>2, ToldIs, ExpectedIs
    <3>3. CASE c = 2
      BY <2>4, <2>5, <3>3, ToldIs, ExpectedIs
    <3> QED
      BY <2>1, <3>1, <3>2, <3>3
  <2>7. status # "bad_signature"
    OBVIOUS
  <2>8. Replaced(t)' <=> Replaced(t)
    BY <1>2 DEF Replaced
  <2> HIDE DEF status
  <2>9. RaceInv(t)'
    BY <1>1, <1>2, <1>5, <2>2, <2>6, <2>7, <2>8 DEF RaceInv, Handling, Bad
  <2> QED
    BY <1>2, <1>3, <2>9, OthersRaceOn
<1> QED
  BY <1>4, <1>5

\* Under a demonstration's key only a first body is ever marked.
LEMMA MarkRaces ==
  ASSUME IInv, IInv', Racing, NEW t \in Threads, Mark(t)
  PROVE  Racing'
<1> DEFINE n == demo[t].number
           c == Len(demo[t].sent)
           key == Key(job[t].body)
           status == IF job[t].body \in Unhandled THEN "unsupported" ELSE "accepted"
<1>1. /\ RaceInv(t) /\ ThreadInv(t) /\ FirstInv /\ pc[t] = "mark" /\ pc \in [Threads -> Labels]
      /\ entry \in [Threads -> Entries]
  BY DEF IInv, TypeInv, Racing, Mark
<1>2. /\ UNCHANGED <<secret, job, demo>> /\ pc'[t] = "append"
      /\ entry'[t].status = status /\ entry'[t].affected = {}
      /\ OnlyMoves(t)
  BY <1>1 DEF Mark, Goto, Build, Event, OnlyMoves
<1>3. seen' = [k \in DOMAIN seen \cup {key} |-> IF k = key THEN Digest(job[t].body) ELSE seen[k]]
  BY DEF Mark
<1>4. Fresh(t)' /\ DOMAIN seen \subseteq DOMAIN seen'
  BY <1>2, <1>3 DEF Fresh
<1>5. CASE demo[t] = NoDemo
  <2>1. \A m \in Nat : <<"demo", m>> # key
    <3>1. job[t].body \in Bodies
      BY <1>1, <1>5 DEF ThreadInv, Handling
    <3> QED
      BY <3>1, DemoKeyIsOwn DEF GatewayKeys
  <2>2. FirstInv'
    <3> HIDE DEF key
    <3> QED
      BY <1>1, <1>3, <2>1 DEF FirstInv
  <2>3. RaceInv(t)'
    BY <1>2, <1>5 DEF RaceInv
  <2> QED
    BY <1>2, <1>4, <2>2, <2>3, OthersRaceOn
<1>6. CASE demo[t] # NoDemo
  <2>1. /\ n \in Nat /\ c \in 0 .. 2 /\ job[t].body = DemoBody(n, Case[c + 1])
        /\ job[t].body \notin Bodies
        /\ key = <<"demo", n>> /\ Digest(job[t].body) = job[t].body
    BY <1>1, <1>6, RaceJob
  <2>2. c = 0
    BY <1>1, <1>6 DEF RaceInv
  <2>3. Digest(job[t].body) = DemoBody(n, "first")
    BY <2>1, <2>2, ToldIs
  <2>4. \A m \in Nat : <<"demo", m>> = key => m = n
    BY <2>1
  <2>5. FirstInv'
    <3> HIDE DEF key
    <3> QED
      BY <1>1, <1>3, <2>3, <2>4 DEF FirstInv
  <2>6. status = "accepted"
    BY <2>1, EventAssumption
  <2>7. <<"demo", n>> \in DOMAIN seen'
    BY <1>3, <2>1
  <2>8. status \in Expected[c + 1] /\ status # "bad_signature"
    BY <2>2, <2>6, ExpectedIs
  <2>9. Replaced(t)' <=> Replaced(t)
    BY <1>2 DEF Replaced
  <2> HIDE DEF status
  <2>10. RaceInv(t)'
    BY <1>1, <1>2, <1>4, <1>6, <2>7, <2>8, <2>9 DEF RaceInv, Handling, Bad
  <2> QED
    BY <1>2, <1>4, <2>5, <2>10, OthersRaceOn
<1> QED
  BY <1>5, <1>6

\* The log may be overwritten; what the demonstration is told is not.
LEMMA LogRaces ==
  ASSUME IInv, IInv', Racing, NEW t \in Threads, AppendEvent(t) \/ Scope(t) \/ ReplaceLast(t)
  PROVE  Racing'
<1>1. /\ RaceInv(t) /\ FirstInv /\ pc \in [Threads -> Labels] /\ entry \in [Threads -> Entries]
      /\ demo[t] # NoDemo => demo[t].number \in Nat /\ Len(demo[t].sent) \in Nat
  BY LenProperties DEF IInv, TypeInv, Racing, Demos
<1>2. /\ UNCHANGED <<secret, seen, job, demo>> /\ OnlyMoves(t)
      /\ pc[t] \in {"append", "scope", "replace"} /\ pc'[t] \in {"scope", "replace", "done"}
  BY <1>1 DEF AppendEvent, Scope, ReplaceLast, Goto, Build, log, OnlyMoves
<1>3. FirstInv' /\ Fresh(t)' /\ (Replaced(t)' <=> Replaced(t))
  BY <1>1, <1>2 DEF FirstInv, Fresh, Replaced
<1>4. CASE demo[t] = NoDemo
  BY <1>2, <1>3, <1>4, OthersRaceOn DEF RaceInv
<1>5. CASE demo[t] # NoDemo /\ AppendEvent(t)
  <2>1. /\ pc[t] = "append" /\ UNCHANGED entry
        /\ pc'[t] = IF entry[t].status = "accepted" THEN "scope" ELSE "done"
    BY <1>1, <1>5 DEF AppendEvent, Goto
  <2>2. RaceInv(t)'
    BY <1>1, <1>2, <1>3, <1>5, <2>1 DEF RaceInv, Handling, Bad
  <2> QED
    BY <1>2, <1>3, <2>2, OthersRaceOn
<1>6. CASE demo[t] # NoDemo /\ Scope(t)
  <2>1. /\ pc[t] = "scope" /\ pc'[t] = "replace"
        /\ entry'[t] = [entry[t] EXCEPT !.affected = NamesIn(job[t].body)]
    BY <1>1, <1>6 DEF Scope, Goto, Build
  <2>2. entry'[t].status = entry[t].status /\ entry'[t].affected = NamesIn(job[t].body)
    BY <1>1, <2>1 DEF Entries
  <2>3. NamesIn(job[t].body) = Shown
    <3>1. PICK which \in Cases : job[t].body = DemoBody(demo[t].number, which)
      BY <1>6, <2>1 DEF IInv, ThreadInv, Handling
    <3> QED
      BY <1>1, <1>6, <3>1, DemoBodyTyped
  <2>4. RaceInv(t)'
    BY <1>1, <1>2, <1>3, <1>6, <2>1, <2>2, <2>3 DEF RaceInv, Handling, Bad
  <2> QED
    BY <1>2, <1>3, <2>4, OthersRaceOn
<1>7. CASE demo[t] # NoDemo /\ ReplaceLast(t)
  <2>1. pc[t] = "replace" /\ pc'[t] = "done" /\ UNCHANGED entry
    BY <1>1, <1>7 DEF ReplaceLast, Goto
  <2>2. RaceInv(t)'
    BY <1>1, <1>2, <1>3, <1>7, <2>1 DEF RaceInv, Handling, Bad
  <2> QED
    BY <1>2, <1>3, <2>2, OthersRaceOn
<1> QED
  BY <1>4, <1>5, <1>6, <1>7

LEMMA ReplyRaces ==
  ASSUME IInv, IInv', Racing, NEW t \in Threads, Reply(t)
  PROVE  Racing'
<1> DEFINE a == [status |-> entry[t].status, affected |-> entry[t].affected]
           c == Len(demo[t].sent)
<1>1. /\ RaceInv(t) /\ ThreadInv(t) /\ FirstInv /\ pc[t] = "done" /\ pc \in [Threads -> Labels]
      /\ demo[t] \in Demos /\ demo \in [Threads -> Demos] /\ entry[t] \in Entries
  BY DEF IInv, TypeInv, Racing, Reply
<1>2. UNCHANGED <<secret, seen>> /\ FirstInv' /\ OnlyMoves(t)
  BY <1>1 DEF Reply, Goto, Build, log, OnlyMoves, FirstInv, IInv, TypeInv
<1>3. CASE demo[t] = NoDemo
  <2>1. demo' = demo /\ pc'[t] = "idle"
    BY <1>1, <1>3 DEF Reply, Demonstrating, Goto
  <2> QED
    BY <1>2, <1>3, <2>1, OthersRaceOn DEF RaceInv, Fresh
<1>4. CASE demo[t] # NoDemo
  <2>1. demo'[t] = [demo[t] EXCEPT !.sent = Append(demo[t].sent, a)]
    BY <1>1, <1>4 DEF Reply, Demonstrating
  <2>2. c \in 0 .. 3 /\ demo[t].sent \in Seq(Answers) /\ a \in Answers
    <3>1. demo[t].sent \in Seq(Answers) /\ a \in Answers
      BY <1>1 DEF Demos, Entries, Answers
    <3>2. c \in Nat /\ c < 4
      BY <1>1, <3>1, LenProperties DEF ThreadInv
    <3> HIDE DEF c
    <3>3. c \in 0 .. 3
      BY <3>2
    <3> QED
      BY <3>1, <3>3
  <2>3. /\ demo'[t].sent = Append(demo[t].sent, a)
        /\ demo'[t].signs = demo[t].signs /\ demo'[t].number = demo[t].number
    BY <1>1, <2>1 DEF Demos
  <2>4. /\ Len(demo'[t].sent) = c + 1
        /\ \A i \in 1 .. c : demo'[t].sent[i] = demo[t].sent[i]
        /\ demo'[t].sent[c + 1] = a
    <3> HIDE DEF a
    <3> QED
      BY <2>2, <2>3, AppendProperties
  <2>5. pc'[t] = IF c + 1 = 4 THEN "told" ELSE "send"
    <3>1. pc' = [pc EXCEPT ![t] = IF Len(demo'[t].sent) = 4 THEN "told" ELSE "send"]
      BY <1>4 DEF Reply, Demonstrating, Goto
    <3> QED
      BY <1>1, <2>4, <3>1
  <2>6. Replaced(t)' <=> Replaced(t)
    BY <1>2, <2>3 DEF Replaced
  <2>7. /\ a.status \in Expected[c + 1] \cup {"bad_signature"}
        /\ a.affected = IF a.status = "accepted" THEN Shown ELSE {}
        /\ IF Bad(a) THEN c < 3 => Replaced(t) ELSE <<"demo", demo[t].number>> \in DOMAIN seen
    BY <1>1, <1>4 DEF RaceInv, Bad
  <2>8. \A i \in 1 .. c :
          LET b == demo[t].sent[i] IN
          /\ b.status \in Expected[i] \cup {"bad_signature"}
          /\ b.affected = IF b.status = "accepted" THEN Shown ELSE {}
          /\ IF Bad(b) THEN i < 4 => Replaced(t) ELSE <<"demo", demo[t].number>> \in DOMAIN seen
    BY <1>1, <1>4 DEF RaceInv
  <2> HIDE DEF a
  <2>9. \A i \in 1 .. c + 1 :
          LET b == demo'[t].sent[i] IN
          /\ b.status \in Expected[i] \cup {"bad_signature"}
          /\ b.affected = IF b.status = "accepted" THEN Shown ELSE {}
          /\ IF Bad(b) THEN i < 4 => Replaced(t) ELSE <<"demo", demo[t].number>> \in DOMAIN seen
    <3> SUFFICES ASSUME NEW i \in 1 .. c + 1
                 PROVE  LET b == demo'[t].sent[i] IN
                        /\ b.status \in Expected[i] \cup {"bad_signature"}
                        /\ b.affected = IF b.status = "accepted" THEN Shown ELSE {}
                        /\ IF Bad(b) THEN i < 4 => Replaced(t)
                           ELSE <<"demo", demo[t].number>> \in DOMAIN seen
      OBVIOUS
    <3>1. CASE i = c + 1
      BY <2>2, <2>4, <2>7, <3>1
    <3>2. CASE i # c + 1
      <4>1. i \in 1 .. c
        BY <2>2, <3>2
      <4> QED
        BY <2>4, <2>8, <4>1
    <3> QED
      BY <3>1, <3>2
  <2> HIDE DEF c
  <2>10. Fresh(t)' /\ RaceInv(t)'
    BY <1>2, <2>2, <2>3, <2>4, <2>5, <2>6, <2>9 DEF RaceInv, Fresh, Handling
  <2> QED
    BY <1>2, <2>3, <2>10, OthersRaceOn
<1> QED
  BY <1>3, <1>4

\* What a demonstration is told holds under any interleaving.
THEOREM RaceInvariant == Spec => []Racing
<1>1. Init => Racing
  BY RecordsTyped DEF Init, Racing, FirstInv, Fresh, RaceInv
<1>2. IInv /\ IInv' /\ Racing /\ [Next]_vars => Racing'
  <2> SUFFICES ASSUME IInv, IInv', Racing, [Next]_vars PROVE Racing'
    OBVIOUS
  <2>1. ASSUME NEW t \in Threads, Receive(t) \/ AskDemo(t) PROVE Racing'
    BY <2>1, ArriveRaces
  <2>2. ASSUME NEW t \in Threads, Demonstrate(t) PROVE Racing'
    BY <2>2, DemonstrateRaces
  <2>3. ASSUME NEW t \in Threads, Handle(t) PROVE Racing'
    BY <2>3, VerifyRaces, LookupRaces, CompareRaces, MarkRaces, LogRaces, ReplyRaces DEF Handle
  <2>4. CASE UNCHANGED vars
    BY <2>4 DEF vars, Racing, FirstInv, Fresh, RaceInv, Replaced
  <2> QED
    BY <2>1, <2>2, <2>3, <2>4 DEF Next
<1> QED
  BY <1>1, <1>2, IngestInvariant, PTL DEF Spec

\* A demonstration is told of its cases what they are, or that a signature is
\* void because another demonstration replaced the secret; and where nothing
\* overlaps, its first event is accepted, whatever was delivered before.
THEOREM DemonstrationsAreReal == Spec => []DemonstrationIsReal
<1>1. IInv /\ SInv /\ Racing => DemonstrationIsReal
  <2> SUFFICES ASSUME IInv, SInv, Racing, NEW t \in Threads, pc[t] = "told"
               PROVE  /\ Len(demo[t].sent) = 4
                      /\ \A i \in 1 .. 4 :
                           /\ demo[t].sent[i].status \in Expected[i] \cup {"bad_signature"}
                           /\ demo[t].sent[i].affected =
                                IF demo[t].sent[i].status = "accepted" THEN Shown ELSE {}
                      /\ \A i \in 1 .. 3 :
                           demo[t].sent[i].status = "bad_signature" => secret # demo[t].signs
                      /\ ~overlap => /\ demo[t].sent[1].status = "accepted"
                                     /\ secret = demo[t].signs
    BY DEF DemonstrationIsReal, Expected
  <2>1. demo[t] # NoDemo /\ RaceInv(t)
    BY DEF IInv, ThreadInv, Racing
  <2>2. Len(demo[t].sent) = 4
    BY <2>1 DEF RaceInv
  <2>3. \A i \in 1 .. 4 :
          /\ demo[t].sent[i].status \in Expected[i] \cup {"bad_signature"}
          /\ demo[t].sent[i].affected =
               IF demo[t].sent[i].status = "accepted" THEN Shown ELSE {}
          /\ Bad(demo[t].sent[i]) => (i < 4 => Replaced(t))
    BY <2>1, <2>2 DEF RaceInv
  <2>4. ~overlap => demo[t].sent[1].status = "accepted" /\ secret = demo[t].signs
    <3> SUFFICES ASSUME ~overlap
                 PROVE  demo[t].sent[1].status = "accepted" /\ secret = demo[t].signs
      OBVIOUS
    <3>1. DemoInv(t)
      BY DEF SInv, AloneInv
    <3>2. demo[t].signs = secret /\ demo[t].sent[1] = Told[1]
      BY <2>1, <2>2, <3>1 DEF DemoInv
    <3> QED
      BY <3>2, ToldIs
  <2>5. \A i \in 1 .. 3 : i \in 1 .. 4 /\ i < 4
    OBVIOUS
  <2> QED
    BY <2>2, <2>3, <2>4, <2>5 DEF Bad, Replaced
<1> QED
  BY <1>1, IngestInvariant, AloneInvariant, RaceInvariant, PTL

-----------------------------------------------------------------------------
(* Deliveries that do not overlap implement the store *)

\* The store's log.
Entered == [i \in DOMAIN events |->
              [key |-> Key(events[i].body), digest |-> Digest(events[i].body),
               status |-> events[i].status]]
StoreLog == IF overlap THEN <<>> ELSE Entered

LEMMA FirstOf ==
  ASSUME NEW A, A \subseteq Nat, A # {}
  PROVE  \E i \in A : \A j \in A : i <= j
<1> DEFINE R == OpToRel(<, Nat)
<1>1. IsWellFoundedOn(R, Nat)
  BY NatLessThanWellFounded
<1>2. PICK i \in A : \A j \in A : ~(<<j, i>> \in R)
  <2> HIDE DEF R
  <2> QED
    BY <1>1, WFMin
<1>3. \A j \in A : ~(j < i)
  BY <1>2 DEF OpToRel
<1> QED
  BY <1>3

\* The first event on record under a key is the one whose digest is in `seen`.
LEMMA FirstIsSeen ==
  ASSUME IInv, AloneInv, ~overlap, NEW k, OnFile(k) # {}
  PROVE  /\ Store!OnRecord(k) = OnFile(k) /\ Store!First(k) \in OnFile(k)
         /\ seen[k] = Digest(events[Store!First(k)].body)
<1>1. Store!OnRecord(k) = OnFile(k)
  BY DEF Store!OnRecord, Store!Refusals, OnFile, Refused
<1>2. OnFile(k) \subseteq Nat
  BY LenProperties DEF IInv, TypeInv, OnFile
<1>3. PICK i \in OnFile(k) : \A j \in OnFile(k) : i <= j
  BY <1>2, FirstOf
<1>4. Store!First(k) = CHOOSE m \in OnFile(k) : \A j \in OnFile(k) : m <= j
  BY <1>1 DEF Store!First
<1> QED
  BY <1>1, <1>3, <1>4 DEF AloneInv, FileInv, OnFile, Oldest

LEMMA FunctionIsSeq ==
  ASSUME NEW S, NEW n \in Nat, NEW f \in [1 .. n -> S]
  PROVE  f \in Seq(S) /\ Len(f) = n
<1>1. f \in Seq(S)
  BY SeqDef
<1>2. Len(f) \in Nat /\ 1 .. Len(f) = 1 .. n
  BY <1>1, LenProperties
<1>3. ~(n < Len(f))
  <2> SUFFICES ASSUME n < Len(f) PROVE FALSE
    OBVIOUS
  <2>1. n + 1 \in 1 .. Len(f)
    BY <1>2
  <2> QED
    BY <1>2, <2>1
<1>4. ~(Len(f) < n)
  BY <1>2
<1> QED
  BY <1>1, <1>2, <1>3, <1>4

LEMMA AppendIsJudged ==
  ASSUME IInv, AloneInv, ~overlap, ~overlap', NEW t \in Threads, AppendEvent(t)
  PROVE  Store!Next
<1>0. PICK e, n : e = entry[t] /\ n = Len(events)
  OBVIOUS
<1>1. /\ events \in Seq(Entries) /\ e \in Entries /\ HandlerInv(t) /\ pc[t] = "append"
      /\ events' = Append(events, e)
  BY <1>0 DEF IInv, TypeInv, AloneInv, AppendEvent
<1>2. /\ n \in Nat /\ DOMAIN events = 1 .. n /\ DOMAIN events' = 1 .. (n + 1)
      /\ events'[n + 1] = e /\ \A i \in 1 .. n : events'[i] = events[i]
  BY <1>0, <1>1, AppendProperties, LenProperties
<1> DEFINE r == [key |-> Key(e.body), digest |-> Digest(e.body), status |-> e.status]
<1>3. e.body = job[t].body
  BY <1>0, <1>1 DEF HandlerInv
<1>4. e.status \in Store!Refusals \cup Store!Judgements(r)
  <2>1. CASE e.status \in Refused
    BY <2>1 DEF Store!Refusals, Refused
  <2>2. CASE e.status \in Filed
    <3>1. OnFile(r.key) = {}
      BY <1>0, <1>1, <1>3, <2>2 DEF HandlerInv
    <3>2. Store!OnRecord(r.key) = {}
      BY <3>1 DEF Store!OnRecord, Store!Refusals, OnFile, Refused
    <3> QED
      BY <2>2, <3>2 DEF Store!Judgements, Filed
  <2>3. CASE e.status \in {"duplicate", "replay_mismatch"}
    <3>1. /\ r.key \in DOMAIN seen
          /\ IF e.status = "replay_mismatch" THEN seen[r.key] # r.digest
             ELSE seen[r.key] = r.digest
      BY <1>0, <1>1, <1>3, <2>3 DEF HandlerInv, Refused
    <3>2. ~Marked(t, r.key)
      BY <1>0, <2>3 DEF Marked, Filed
    <3>3. OnFile(r.key) # {}
      BY <1>1, <3>1, <3>2, OnFileIsSeen
    <3>4. /\ Store!OnRecord(r.key) # {} /\ Store!First(r.key) \in DOMAIN events
          /\ seen[r.key] = Digest(events[Store!First(r.key)].body)
      BY <3>3, FirstIsSeen DEF OnFile
    <3> QED
      BY <2>3, <3>1, <3>4 DEF Store!Judgements
  <2> QED
    BY <1>1, <2>1, <2>2, <2>3 DEF Entries, Statuses, Refused, Filed
<1>5. Entered' = Append(Entered, r)
  <2> DEFINE S == {Entered[i] : i \in 1 .. n} \cup {r}
  <2>1. DOMAIN Entered = 1 .. n /\ Entered \in [1 .. n -> S]
    BY <1>2 DEF Entered
  <2>2. Entered \in Seq(S) /\ Len(Entered) = n
    BY <1>2, <2>1, FunctionIsSeq
  <2>3. /\ DOMAIN Entered' = 1 .. (n + 1) /\ Entered'[n + 1] = r
        /\ \A i \in 1 .. n : Entered'[i] = Entered[i]
    BY <1>2 DEF Entered
  <2> QED
    <3>1. r \in S
      OBVIOUS
    <3>2. Entered' \in [1 .. (n + 1) -> S]
      BY <1>2, <2>1, <2>3, <3>1 DEF Entered
    <3> HIDE DEF S, r
    <3>3. Entered' \in Seq(S) /\ Len(Entered') = n + 1
      BY <1>2, <3>2, FunctionIsSeq
    <3>4. /\ Append(Entered, r) \in Seq(S) /\ Len(Append(Entered, r)) = n + 1
          /\ Append(Entered, r)[n + 1] = r
          /\ \A i \in 1 .. n : Append(Entered, r)[i] = Entered[i]
      BY <2>2, <3>1, AppendProperties
    <3>5. \A i \in 1 .. (n + 1) : i \in 1 .. n \/ i = n + 1
      BY <1>2
    <3> QED
      BY <2>3, <3>3, <3>4, <3>5, SeqEqual
<1>6. n + 1 \in DOMAIN Entered' /\ Entered'[n + 1] = r
  BY <1>2 DEF Entered
<1> HIDE DEF r
<1>7. r.status = e.status
  BY DEF r
<1> QED
  BY <1>4, <1>5, <1>6, <1>7 DEF Store!Next, Store!Judge, Entered

\* Nothing else is logged: replace_last puts back what was there.
LEMMA OthersAreUnlogged ==
  ASSUME IInv, SInv, [Next]_vars, \A t \in Threads : ~AppendEvent(t)
  PROVE  StoreLog' = StoreLog
<1>1. ASSUME NEW t \in Threads, ReplaceLast(t), ~overlap PROVE Entered' = Entered
  BY <1>1, ReplacesItself DEF SInv, Entered
<1>2. ASSUME NEW t \in Threads, ReplaceLast(t) PROVE overlap' = overlap
  BY <1>2 DEF ReplaceLast, counts
<1>3. ASSUME NEW t \in Threads, ReplaceLast(t) PROVE StoreLog' = StoreLog
  BY <1>1, <1>2, <1>3 DEF StoreLog
<1>4. CASE \A t \in Threads : ~ReplaceLast(t)
  <2>1. overlap' = overlap /\ events' = events
    BY <1>4 DEF Next, vars, Handle, Demonstrate, Receive, AskDemo, SetSecret, ReadSecret,
                NumberDemo, SendCase, EndDemo, Unverifiable, Reject, Verified, Lookup,
                Compare, Mark, Scope, Reply, counts, log
  <2> QED
    BY <2>1 DEF StoreLog, Entered
<1> QED
  BY <1>3, <1>4

\* Deliveries that do not overlap implement the store: each is judged against
\* the first on record under its key, and only logging it says so.
THEOREM IngestIsAnInbox == Spec => ImplementsInbox
<1>1. Init => Store!Init
  BY DEF Init, Store!Init
<1>2. IInv /\ SInv /\ [Next]_vars => [Store!Next]_StoreLog
  <2> SUFFICES ASSUME IInv, SInv, [Next]_vars, StoreLog' # StoreLog PROVE Store!Next
    OBVIOUS
  <2>1. PICK t \in Threads : AppendEvent(t)
    BY OthersAreUnlogged
  <2>2. overlap' = overlap
    BY <2>1 DEF AppendEvent, counts
  <2>3. ~overlap
    BY <2>2 DEF StoreLog
  <2> QED
    BY <2>1, <2>2, <2>3, AppendIsJudged DEF SInv
<1> QED
  BY <1>1, <1>2, IngestInvariant, AloneInvariant, PTL
     DEF Spec, ImplementsInbox, Store!Spec, StoreLog, Entered
=============================================================================
