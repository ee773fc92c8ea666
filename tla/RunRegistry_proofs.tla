-------------------------- MODULE RunRegistry_proofs --------------------------
(***************************************************************************)
(* The memo of /api/run, for any number of clients, sizes and requests, and *)
(* any run id a browser may replay.  A size is looked up in the execution   *)
(* cache before it is executed; a replay, which skips the lock, finds its   *)
(* size there but for the gap in which it is registered and not yet kept.   *)
(* Until a replay executes in that gap, only the lock's holder works on a   *)
(* run.                                                                     *)
(***************************************************************************)
EXTENDS RunRegistry, FiniteSetTheorems, WellFoundedInduction, TLAPS

Run == [id : Nat, size : Int]

Labels == {"idle", "lock", "memo", "execute", "compute", "register", "keep",
           "store", "release", "done", "over"}

TypeInv ==
  /\ lock \in Threads \cup {Nobody}
  /\ memo \in [Sizes -> Run] /\ cache \in [Sizes -> Run]
  /\ pc \in [Threads -> Labels] /\ call \in [Threads -> {"run", "replay"}]
  /\ want \in [Threads -> Int] /\ got \in [Threads -> Run]
  /\ toWarm \subseteq WarmSizes /\ reexecuted \in BOOLEAN

\* A size a replay will not execute, unless in the gap: it is in the cache, or the
\* thread that registered it is about to put it there.
Found(n) == cache[n] # NoRun \/ \E u \in Threads : pc[u] = "keep" /\ want[u] = n

\* What a thread has in hand is of the size it is about; a replay's is found.
HandInv(t) ==
  /\ pc[t] \notin {"idle", "over"} => want[t] \in Sizes
  /\ pc[t] \in {"register", "keep"} => got[t].size = want[t] /\ got[t].id # 0
  /\ pc[t] = "store" => got[t].size = want[t]
  /\ call[t] = "replay" =>
       /\ t # Warm /\ pc[t] \notin {"lock", "memo"}
       /\ pc[t] = "execute" => Found(want[t])

ServedInv ==
  /\ IsFiniteSet(DOMAIN runs)
  /\ \A i \in DOMAIN runs : runs[i].size \in Sizes /\ Found(runs[i].size)
  /\ \A n \in Sizes : /\ memo[n] # NoRun => memo[n].size = n
                      /\ cache[n] # NoRun => cache[n].size = n

\* What holds whatever is replayed.
AlwaysInv == TypeInv /\ ServedInv /\ \A t \in Threads : HandInv(t)

\* Between `with _LOCK` and its end.
Holds(t) ==
  call[t] = "run" /\ pc[t] \in {"memo", "execute", "compute", "register", "keep",
                                "store", "release"}

\* Registered under its id and kept for its size.
Kept(r) ==
  /\ r.id \in DOMAIN runs /\ runs[r.id] = r
  /\ r.size \in Sizes /\ cache[r.size] = r

\* One thread at a time is inside.
LockInv == \A t \in Threads : Holds(t) => lock = t

\* Runs are numbered from one, and each is kept for its size, but for the one
\* whose thread is about to keep it.
RunsInv ==
  /\ IsFiniteSet(DOMAIN runs) /\ DOMAIN runs = 1 .. Cardinality(DOMAIN runs)
  /\ \A i \in DOMAIN runs :
       /\ runs[i] \in Run /\ runs[i].id = i /\ runs[i].size \in Sizes
       /\ \/ cache[runs[i].size] = runs[i]
          \/ \E t \in Threads : Holds(t) /\ pc[t] = "keep" /\ got[t] = runs[i]
  /\ \A i, j \in DOMAIN runs : runs[i].size = runs[j].size => i = j

CachesInv ==
  /\ \A n \in Sizes : memo[n] # NoRun => memo[n].size = n /\ Kept(memo[n])
  /\ \A n \in Sizes : cache[n] # NoRun => cache[n].size = n /\ Kept(cache[n])

\* What the thread knows at each of its labels.
ThreadInv(t) ==
  /\ pc[t] \notin {"idle", "over"} => want[t] \in Sizes
  /\ t = Warm => call[t] = "run"
  /\ call[t] = "replay" => pc[t] \in {"idle", "execute", "done"}
  /\ pc[t] \in {"compute", "register", "keep"} => cache[want[t]] = NoRun
  /\ pc[t] = "register" =>
       got[t] = [id |-> Cardinality(DOMAIN runs) + 1, size |-> want[t]]
  /\ pc[t] = "keep" =>
       got[t].size = want[t] /\ got[t].id \in DOMAIN runs /\ runs[got[t].id] = got[t]
  /\ pc[t] = "store" => got[t].size = want[t] /\ Kept(got[t])
  /\ pc[t] \in {"release", "done"} => got[t] = NoRun \/ Kept(got[t])

\* A reply tells only of runs a replay will find.
ToldInv == \A id \in told : id \in DOMAIN runs /\ Kept(runs[id])

\* What holds until a replay executes.
CalmInv == /\ LockInv /\ RunsInv /\ CachesInv /\ ToldInv
           /\ \A t \in Threads : ThreadInv(t)

\* The inductive invariant.
IInv == AlwaysInv /\ (~reexecuted => CalmInv)

-----------------------------------------------------------------------------
(* Constants *)

LEMMA SizesAreInts == Sizes \subseteq Int /\ WarmSizes \subseteq Sizes
<1>1. WarmSizes \subseteq Int
  BY RegistryAssumption
<1>2. ASSUME NEW n \in Asked PROVE Clamp(n) \in Int
  BY RegistryAssumption DEF Clamp
<1> QED
  BY <1>1, <1>2 DEF Sizes

LEMMA WarmIsNoClient ==
  Warm \in Threads /\ Warm \notin Clients /\ Nobody \notin Threads
BY RegistryAssumption DEF Threads, Nobody

LEMMA RunTyped ==
  ASSUME NEW i \in Nat, NEW n \in Int
  PROVE  /\ [id |-> i, size |-> n] \in Run
         /\ [id |-> i, size |-> n].id = i /\ [id |-> i, size |-> n].size = n
BY DEF Run

LEMMA NoRunTyped == NoRun \in Run /\ NoRun.id = 0
BY DEF NoRun, Run

\* A finite set of sizes has a largest: the one with the fewest above it.
LEMMA LargestIsIn ==
  ASSUME NEW S \in SUBSET WarmSizes, S # {}
  PROVE  Largest(S) \in S
<1> DEFINE Above(n) == {m \in S : m > n}
           A == {Above(n) : n \in S}
<1>1. IsFiniteSet(S) /\ S \subseteq Int
  BY RegistryAssumption, SizesAreInts, FS_Subset
<1>2. A \subseteq FiniteSubsetsOf(S) /\ A # {}
  <2>1. ASSUME NEW n \in S PROVE Above(n) \in FiniteSubsetsOf(S)
    BY <1>1, FS_Subset DEF FiniteSubsetsOf
  <2> QED
    BY <2>1
<1>3. PICK B \in A : \A C \in A : ~(<<C, B>> \in StrictSubsetOrdering(S))
  <2> HIDE DEF A
  <2>1. IsWellFoundedOn(StrictSubsetOrdering(S), FiniteSubsetsOf(S))
    BY FS_StrictSubsetOrderingWellFounded
  <2> QED
    BY <1>2, <2>1, WFMin
<1>4. PICK n \in S : B = Above(n)
  OBVIOUS
<1>5. B = {}
  <2> SUFFICES ASSUME NEW m \in B PROVE FALSE
    OBVIOUS
  <2>1. m \in S /\ m > n
    BY <1>4
  <2>2. \A k \in S : k > m => k > n
    BY <1>1, <2>1
  <2>3. ~(m > m)
    BY <1>1, <2>1
  <2>4. Above(m) \subseteq B /\ m \notin Above(m)
    BY <1>4, <2>2, <2>3
  <2>5. <<Above(m), B>> \in StrictSubsetOrdering(S)
    BY <1>4, <2>4 DEF StrictSubsetOrdering
  <2>6. Above(m) \in A
    BY <2>1
  <2> QED
    BY <1>3, <2>5, <2>6
<1>6. \A m \in S : m <= n
  BY <1>1, <1>4, <1>5
<1> QED
  BY <1>6 DEF Largest

-----------------------------------------------------------------------------
(* What holds whatever is replayed *)

\* Only thread t moves.
OnlyMoves(t) ==
  \A u \in Threads \ {t} :
    pc'[u] = pc[u] /\ call'[u] = call[u] /\ want'[u] = want[u] /\ got'[u] = got[u]

\* A size found stays found: the thread about to keep it keeps it.
LEMMA FoundStays ==
  ASSUME NEW t \in Threads, OnlyMoves(t), NEW n \in Sizes, Found(n),
         \A m \in Sizes : cache[m] # NoRun => cache'[m] # NoRun,
         pc[t] = "keep" => cache'[want[t]] # NoRun
  PROVE  Found(n)'
<1>1. CASE cache[n] # NoRun
  BY <1>1 DEF Found
<1>2. CASE \E u \in Threads : pc[u] = "keep" /\ want[u] = n
  BY <1>2 DEF Found, OnlyMoves
<1> QED
  BY <1>1, <1>2 DEF Found

\* A step that serves nothing new keeps all, if thread t has the right thing in hand.
LEMMA QuietStaysRight ==
  ASSUME AlwaysInv, NEW t \in Threads, OnlyMoves(t), UNCHANGED registry, pc[t] # "keep",
         TypeInv', HandInv(t)'
  PROVE  AlwaysInv'
<1>1. UNCHANGED <<memo, cache, runs>>
  BY DEF registry
<1>2. \A n \in Sizes : Found(n) => Found(n)'
  BY <1>1, FoundStays
<1>3. ServedInv'
  BY <1>1, <1>2 DEF AlwaysInv, ServedInv
<1>4. ASSUME NEW u \in Threads \ {t} PROVE HandInv(u)'
  <2>1. HandInv(u) /\ UNCHANGED <<pc[u], call[u], want[u], got[u]>>
    BY DEF AlwaysInv, OnlyMoves
  <2>2. CASE pc[u] = "idle" \/ pc[u] = "over"
    BY <2>1, <2>2 DEF HandInv
  <2>3. CASE want[u] \in Sizes /\ pc[u] \notin {"idle", "over"}
    BY <1>2, <2>1, <2>3 DEF HandInv
  <2> QED
    BY <2>1, <2>2, <2>3 DEF HandInv
<1> QED
  BY <1>3, <1>4 DEF AlwaysInv

\* A client or the warm-up turns to a size.
LEMMA AskStaysRight ==
  ASSUME AlwaysInv, NEW t \in Clients, Ask(t) \/ AskReplay(t)
  PROVE  AlwaysInv'
<1>0. t \in Threads /\ t # Warm /\ pc[t] = "idle"
  BY WarmIsNoClient DEF Threads, Ask, AskReplay
<1>1. TypeInv /\ ServedInv
  BY DEF AlwaysInv
<1>2. UNCHANGED <<lock, registry, got, told, toWarm, reexecuted>>
  BY DEF Ask, AskReplay
<1>3. PICK n \in Sizes, c \in {"run", "replay"}, label \in {"lock", "execute"} :
        /\ want' = [want EXCEPT ![t] = n] /\ call' = [call EXCEPT ![t] = c]
        /\ pc' = [pc EXCEPT ![t] = label]
        /\ c = "replay" => label = "execute" /\ Found(n)
  <2>1. CASE Ask(t)
    <3>1. PICK k \in Asked : want' = [want EXCEPT ![t] = Clamp(k)]
      BY <2>1 DEF Ask
    <3>2. Clamp(k) \in Sizes
      BY DEF Sizes
    <3> QED
      BY <2>1, <3>1, <3>2 DEF Ask, Goto
  <2>2. CASE AskReplay(t)
    <3>1. PICK id \in DOMAIN runs : want' = [want EXCEPT ![t] = runs[id].size]
      BY <2>2 DEF AskReplay
    <3>2. runs[id].size \in Sizes /\ Found(runs[id].size)
      BY <1>1 DEF ServedInv
    <3> QED
      BY <2>2, <3>1, <3>2 DEF AskReplay, Goto
  <2> QED
    BY <2>1, <2>2
<1>4. OnlyMoves(t)
  BY <1>1, <1>2, <1>3 DEF OnlyMoves, TypeInv
<1>5. pc'[t] = label /\ call'[t] = c /\ want'[t] = n
  BY <1>0, <1>1, <1>3 DEF TypeInv
<1>6. TypeInv'
  BY <1>0, <1>1, <1>2, <1>3, SizesAreInts DEF TypeInv, registry, Labels
<1>7. Found(n) => Found(n)'
  BY <1>0, <1>2, <1>4, FoundStays DEF registry
<1>8. HandInv(t)'
  BY <1>0, <1>3, <1>5, <1>7 DEF HandInv
<1> QED
  BY <1>0, <1>2, <1>4, <1>6, <1>8, QuietStaysRight

\* The warm-up takes a size of its own, or is over.
LEMMA WarmTurns ==
  ASSUME TypeInv, Warm \in Threads, WarmNext \/ WarmOver
  PROVE  \E n \in Int, label \in {"lock", "over"} :
           /\ want' = [want EXCEPT ![Warm] = n] /\ pc' = [pc EXCEPT ![Warm] = label]
           /\ label = "lock" => n \in Sizes
           /\ toWarm' \subseteq WarmSizes
<1>1. CASE WarmNext
  <2>1. Largest(toWarm) \in toWarm
    BY <1>1, LargestIsIn DEF WarmNext, TypeInv
  <2>2. Largest(toWarm) \in Sizes /\ Largest(toWarm) \in Int
    BY <2>1, SizesAreInts DEF TypeInv
  <2> QED
    BY <1>1, <2>2 DEF WarmNext, Goto, TypeInv
<1>2. CASE WarmOver
  <2>1. want' = [want EXCEPT ![Warm] = want[Warm]] /\ want[Warm] \in Int
    BY <1>2 DEF WarmOver, TypeInv
  <2> QED
    BY <1>2, <2>1 DEF WarmOver, Goto, TypeInv
<1> QED
  BY <1>1, <1>2

LEMMA WarmStaysRight ==
  ASSUME AlwaysInv, WarmNext \/ WarmOver
  PROVE  AlwaysInv'
<1> DEFINE t == Warm
<1>0. t \in Threads /\ pc[t] = "idle"
  BY WarmIsNoClient DEF WarmNext, WarmOver
<1>1. TypeInv /\ HandInv(t)
  BY <1>0 DEF AlwaysInv
<1>2. UNCHANGED <<lock, registry, call, got, told, reexecuted>>
  BY DEF WarmNext, WarmOver
<1>3. PICK n \in Int, label \in {"lock", "over"} :
        /\ want' = [want EXCEPT ![t] = n] /\ pc' = [pc EXCEPT ![t] = label]
        /\ label = "lock" => n \in Sizes
        /\ toWarm' \subseteq WarmSizes
  BY <1>0, <1>1, WarmTurns
<1>4. OnlyMoves(t)
  BY <1>1, <1>2, <1>3 DEF OnlyMoves, TypeInv
<1>5. pc'[t] = label /\ call'[t] = call[t] /\ want'[t] = n
  BY <1>0, <1>1, <1>2, <1>3 DEF TypeInv
<1>6. TypeInv'
  BY <1>0, <1>1, <1>2, <1>3 DEF TypeInv, registry, Labels
<1>7. HandInv(t)'
  BY <1>1, <1>3, <1>5 DEF HandInv
<1> QED
  BY <1>0, <1>2, <1>4, <1>6, <1>7, QuietStaysRight

\* Steps of a thread that put nothing into the registry.
LEMMA WorkStaysRight ==
  ASSUME AlwaysInv, NEW t \in Threads,
         \/ Acquire(t) \/ LookInMemo(t) \/ CacheHit(t) \/ CacheMiss(t) \/ Compute(t)
         \/ ComputeFails(t) \/ Release(t) \/ Answer(t)
  PROVE  AlwaysInv'
<1>1. TypeInv /\ ServedInv /\ HandInv(t)
  BY DEF AlwaysInv
<1>2. UNCHANGED <<registry, call, want, toWarm>> /\ pc[t] \notin {"idle", "over", "keep"}
  BY DEF Acquire, LookInMemo, CacheHit, CacheMiss, Compute, ComputeFails, Release, Answer
<1>3. want[t] \in Sizes
  BY <1>1, <1>2 DEF HandInv
<1>4. /\ memo[want[t]] \in Run /\ cache[want[t]] \in Run /\ got[t] \in Run
      /\ got = [got EXCEPT ![t] = got[t]]
  BY <1>1, <1>3 DEF TypeInv
<1>5. Cardinality(DOMAIN runs) \in Nat /\ want[t] \in Int
  <2>1. IsFiniteSet(DOMAIN runs)
    BY <1>1 DEF ServedInv
  <2>2. Cardinality(DOMAIN runs) \in Nat
    BY <2>1, FS_CardinalityType
  <2> QED
    BY <1>3, <2>2, SizesAreInts
<1>6. PICK r \in Run, label \in {"idle", "memo", "execute", "compute", "register",
                                  "store", "release", "done"} :
        /\ got' = [got EXCEPT ![t] = r] /\ pc' = [pc EXCEPT ![t] = label]
        /\ label = "register" => r.size = want[t] /\ r.id # 0
        /\ label = "store" => r.size = want[t]
        /\ label \in {"memo", "execute"} => call[t] # "replay"
  <2>1. CASE Acquire(t) \/ Release(t)
    BY <1>1, <1>4, <2>1 DEF Acquire, Release, Goto, HandInv
  <2>2. CASE LookInMemo(t)
    <3>1. CASE memo[want[t]] # NoRun
      BY <1>4, <2>2, <3>1 DEF LookInMemo, Goto, Take
    <3>2. CASE memo[want[t]] = NoRun
      BY <1>1, <1>4, <2>2, <3>2 DEF LookInMemo, Goto, HandInv
    <3> QED
      BY <3>1, <3>2
  <2>3. CASE CacheHit(t)
    <3>1. cache[want[t]].size = want[t]
      BY <1>1, <1>3, <2>3 DEF ServedInv, CacheHit
    <3> QED
      BY <1>4, <2>3, <3>1 DEF CacheHit, Goto, Take, Back
  <2>4. CASE CacheMiss(t)
    BY <1>4, <2>4 DEF CacheMiss, Goto
  <2>5. CASE Compute(t)
    <3>1. got' = [got EXCEPT ![t] = [id |-> Cardinality(DOMAIN runs) + 1, size |-> want[t]]]
          /\ pc' = [pc EXCEPT ![t] = "register"]
      BY <2>5 DEF Compute, Goto, Take
    <3>2. /\ [id |-> Cardinality(DOMAIN runs) + 1, size |-> want[t]] \in Run
          /\ [id |-> Cardinality(DOMAIN runs) + 1, size |-> want[t]].id # 0
          /\ [id |-> Cardinality(DOMAIN runs) + 1, size |-> want[t]].size = want[t]
      BY <1>5, RunTyped
    <3> QED
      BY <3>1, <3>2
  <2>6. CASE ComputeFails(t) \/ Answer(t)
    BY <2>6, NoRunTyped DEF ComputeFails, Answer, Goto, Take, Back
  <2> QED
    BY <2>1, <2>2, <2>3, <2>4, <2>5, <2>6
<1>7. OnlyMoves(t) /\ pc'[t] = label /\ got'[t] = r
  BY <1>1, <1>2, <1>6 DEF OnlyMoves, TypeInv
<1>8. lock' \in Threads \cup {Nobody} /\ reexecuted' \in BOOLEAN
  BY <1>1 DEF TypeInv, Acquire, LookInMemo, CacheHit, CacheMiss, Compute, ComputeFails,
              Release, Answer
<1>9. TypeInv'
  BY <1>1, <1>2, <1>6, <1>8 DEF TypeInv, registry, Labels
<1>10. HandInv(t)'
  <2>1. Found(want[t]) => Found(want[t])'
    BY <1>2, <1>3, <1>7, FoundStays DEF registry
  <2> QED
    BY <1>1, <1>2, <1>3, <1>6, <1>7, <2>1 DEF HandInv
<1> QED
  BY <1>2, <1>7, <1>9, <1>10, QuietStaysRight

\* Registering: the thread is at "keep", so the size it registered is found.
LEMMA RegisterStaysRight ==
  ASSUME AlwaysInv, NEW t \in Threads, Register(t)
  PROVE  AlwaysInv'
<1>1. TypeInv /\ ServedInv /\ HandInv(t)
  BY DEF AlwaysInv
<1>2. /\ pc[t] = "register" /\ pc' = [pc EXCEPT ![t] = "keep"]
      /\ runs' = [id \in DOMAIN runs \cup {got[t].id} |->
                    IF id = got[t].id THEN got[t] ELSE runs[id]]
      /\ UNCHANGED <<lock, memo, cache, call, want, got, told, toWarm, reexecuted>>
  BY DEF Register, Goto
<1>3. want[t] \in Sizes /\ got[t].size = want[t] /\ got[t].id # 0
  BY <1>1, <1>2 DEF HandInv
<1>4. OnlyMoves(t) /\ pc'[t] = "keep"
  BY <1>1, <1>2 DEF OnlyMoves, TypeInv
<1>5. \A n \in Sizes : Found(n) => Found(n)'
  BY <1>2, <1>4, FoundStays
<1>6. Found(want[t])'
  BY <1>2, <1>4 DEF Found
<1>7. ServedInv'
  <2>1. IsFiniteSet(DOMAIN runs')
    BY <1>1, <1>2, FS_AddElement DEF ServedInv
  <2>2. ASSUME NEW i \in DOMAIN runs' PROVE (runs[i].size \in Sizes /\ Found(runs[i].size))'
    <3>1. CASE i = got[t].id
      BY <1>2, <1>3, <1>6, <3>1
    <3>2. CASE i # got[t].id
      <4>1. i \in DOMAIN runs /\ runs'[i] = runs[i]
        BY <1>2, <3>2
      <4> QED
        BY <1>1, <1>5, <4>1 DEF ServedInv
    <3> QED
      BY <3>1, <3>2
  <2> QED
    BY <1>1, <1>2, <2>1, <2>2 DEF ServedInv
<1>8. ASSUME NEW u \in Threads PROVE HandInv(u)'
  <2>1. HandInv(u) /\ UNCHANGED <<call[u], want[u], got[u]>>
    BY <1>2 DEF AlwaysInv
  <2>2. pc'[u] = pc[u] \/ (u = t /\ pc'[u] = "keep")
    BY <1>4 DEF OnlyMoves
  <2> QED
    BY <1>3, <1>5, <2>1, <2>2 DEF HandInv
<1>9. TypeInv'
  BY <1>1, <1>2 DEF TypeInv, Labels
<1> QED
  BY <1>7, <1>8, <1>9 DEF AlwaysInv

LEMMA StoringStaysRight ==
  ASSUME AlwaysInv, NEW t \in Threads, Keep(t) \/ Store(t)
  PROVE  AlwaysInv'
<1>1. TypeInv /\ ServedInv /\ HandInv(t)
  BY DEF AlwaysInv
<1>2. /\ pc[t] \in {"keep", "store"} /\ (pc[t] = "keep" <=> Keep(t))
      /\ UNCHANGED <<lock, runs, call, want, got, told, toWarm, reexecuted>>
  BY DEF Keep, Store
<1>3. /\ want[t] \in Sizes /\ got[t].size = want[t] /\ got[t] \in Run
      /\ Keep(t) => got[t] # NoRun
  BY <1>1, <1>2, NoRunTyped DEF HandInv, TypeInv
<1>4. PICK label \in {"store", "done", "release"} : pc' = [pc EXCEPT ![t] = label]
  BY DEF Keep, Store, Goto, Back
<1>5. OnlyMoves(t) /\ pc'[t] = label
  BY <1>1, <1>2, <1>4 DEF OnlyMoves, TypeInv
<1>6. /\ memo' \in [Sizes -> Run] /\ cache' \in [Sizes -> Run]
      /\ \A n \in Sizes : memo'[n] = memo[n] \/ (n = want[t] /\ memo'[n] = got[t])
      /\ \A n \in Sizes :
           cache'[n] = cache[n] \/ (n = want[t] /\ cache'[n] = got[t] /\ Keep(t))
      /\ Keep(t) => cache'[want[t]] = got[t]
  BY <1>1, <1>2, <1>3 DEF TypeInv, Keep, Store
<1>7. \A n \in Sizes : Found(n) => Found(n)'
  BY <1>2, <1>3, <1>5, <1>6, FoundStays
<1>8. ServedInv'
  BY <1>1, <1>2, <1>3, <1>6, <1>7 DEF ServedInv
<1>9. ASSUME NEW u \in Threads PROVE HandInv(u)'
  <2>1. HandInv(u) /\ UNCHANGED <<call[u], want[u], got[u]>>
    BY <1>2 DEF AlwaysInv
  <2>2. pc'[u] = pc[u] \/ (u = t /\ pc'[u] \in {"store", "done", "release"})
    BY <1>5 DEF OnlyMoves
  <2> QED
    BY <1>3, <1>7, <2>1, <2>2 DEF HandInv
<1>10. TypeInv'
  BY <1>1, <1>2, <1>4, <1>6 DEF TypeInv, Labels
<1> QED
  BY <1>8, <1>9, <1>10 DEF AlwaysInv

LEMMA NextAlways == AlwaysInv /\ [Next]_vars => AlwaysInv'
<1> SUFFICES ASSUME AlwaysInv, [Next]_vars PROVE AlwaysInv'
  OBVIOUS
<1>1. ASSUME NEW t \in Clients, Ask(t) \/ AskReplay(t) PROVE AlwaysInv'
  BY <1>1, AskStaysRight
<1>2. CASE WarmNext \/ WarmOver
  BY <1>2, WarmStaysRight
<1>3. ASSUME NEW t \in Threads, Serve(t) PROVE AlwaysInv'
  BY <1>3, WorkStaysRight, RegisterStaysRight, StoringStaysRight DEF Serve
<1>4. CASE UNCHANGED vars
  BY <1>4 DEF vars, AlwaysInv, TypeInv, ServedInv, HandInv, Found
<1> QED
  BY <1>1, <1>2, <1>3, <1>4 DEF Next

-----------------------------------------------------------------------------
(* What one thread's step leaves of another's *)

\* Runs are never renumbered, and a size once in the cache stays there.
Growing ==
  /\ DOMAIN runs \subseteq DOMAIN runs'
  /\ \A i \in DOMAIN runs : runs'[i] = runs[i]
  /\ \A n \in Sizes : cache[n] # NoRun => cache'[n] = cache[n]

LEMMA KeptIsARun ==
  ASSUME RunsInv, NEW r, Kept(r)
  PROVE  r # NoRun /\ r.id \in Nat \ {0}
<1>1. Cardinality(DOMAIN runs) \in Nat
  BY FS_CardinalityType DEF RunsInv
<1>2. r.id \in Nat \ {0}
  BY <1>1 DEF RunsInv, Kept
<1> QED
  BY <1>2, NoRunTyped

LEMMA KeptStays ==
  ASSUME RunsInv, Growing, NEW r, Kept(r)
  PROVE  Kept(r)'
BY KeptIsARun DEF Kept, Growing

\* Whoever is inside excludes every other thread.
LEMMA AloneInside ==
  ASSUME LockInv, NEW t \in Threads, Holds(t), NEW u \in Threads \ {t}
  PROVE  ~Holds(u)
BY DEF LockInv

LEMMA OthersKeep ==
  ASSUME TypeInv, CalmInv, NEW t \in Threads, OnlyMoves(t), Growing,
         UNCHANGED <<runs, cache>> \/ Holds(t),
         NEW u \in Threads \ {t}
  PROVE  ThreadInv(u)'
<1>1. ThreadInv(u)
  BY DEF CalmInv
<1>2. UNCHANGED <<pc[u], call[u], want[u], got[u]>>
  BY DEF OnlyMoves
<1>3. RunsInv
  BY DEF CalmInv
<1>4. CASE UNCHANGED <<runs, cache>>
  BY <1>1, <1>2, <1>4 DEF ThreadInv, Kept
<1>5. CASE Holds(t)
  <2>1. ~Holds(u)
    BY <1>5, AloneInside DEF CalmInv
  <2>2. call[u] \in {"run", "replay"}
    BY DEF CalmInv, TypeInv
  <2>3. pc[u] \notin {"memo", "compute", "register", "keep", "store", "release"}
    BY <1>1, <2>1, <2>2 DEF Holds, ThreadInv
  <2>4. Kept(got[u]) => Kept(got[u])'
    BY <1>3, KeptStays, <1>2
  <2>5. want[u] \in Sizes /\ cache[want[u]] # NoRun => cache'[want[u]] # NoRun
    BY DEF Growing
  <2> QED
    BY <1>1, <1>2, <2>3, <2>4, <2>5 DEF ThreadInv
<1> QED
  BY <1>4, <1>5

-----------------------------------------------------------------------------
(* Steps that serve nothing new: registry and told stay as they are *)

LEMMA QuietKeeps ==
  ASSUME TypeInv, CalmInv, NEW t \in Threads, OnlyMoves(t), UNCHANGED <<registry, told>>,
         pc[t] # "keep", TypeInv', LockInv', ThreadInv(t)'
  PROVE  CalmInv'
<1>1. UNCHANGED <<memo, cache, runs, told>>
  BY DEF registry
<1>2. Growing
  BY <1>1 DEF Growing
<1>3. \A u \in Threads : ThreadInv(u)'
  BY <1>1, <1>2, OthersKeep
<1>4. RunsInv'
  <2>1. ASSUME NEW u \in Threads, Holds(u), pc[u] = "keep"
        PROVE  Holds(u)' /\ pc'[u] = "keep" /\ got'[u] = got[u]
    BY <2>1 DEF OnlyMoves, Holds
  <2>2. RunsInv
    BY DEF CalmInv
  <2> QED
    BY <1>1, <2>1, <2>2 DEF RunsInv
<1>5. CachesInv' /\ ToldInv'
  BY <1>1 DEF CalmInv, CachesInv, ToldInv, Kept
<1> QED
  BY <1>3, <1>4, <1>5 DEF CalmInv

\* A client, or the warm-up, starts to wait for the lock, or to replay.
LEMMA AskKeeps ==
  ASSUME TypeInv, TypeInv', CalmInv, NEW t \in Clients, Ask(t) \/ AskReplay(t)
  PROVE  CalmInv'
<1>0. t \in Threads /\ t # Warm /\ pc[t] = "idle"
  BY WarmIsNoClient DEF Threads, Ask, AskReplay
<1>1. TypeInv /\ ThreadInv(t) /\ RunsInv /\ ToldInv
  BY <1>0 DEF CalmInv
<1>2. UNCHANGED <<lock, registry, got, told, toWarm>>
  BY DEF Ask, AskReplay
<1>3. PICK n \in Sizes, c \in {"run", "replay"}, label \in {"lock", "execute"} :
        /\ want' = [want EXCEPT ![t] = n] /\ call' = [call EXCEPT ![t] = c]
        /\ pc' = [pc EXCEPT ![t] = label]
        /\ \/ c = "run" /\ label = "lock"
           \/ c = "replay" /\ label = "execute"
  <2>1. CASE Ask(t)
    <3>1. PICK k \in Asked : want' = [want EXCEPT ![t] = Clamp(k)]
      BY <2>1 DEF Ask
    <3>2. Clamp(k) \in Sizes
      BY DEF Sizes
    <3> QED
      BY <2>1, <3>1, <3>2 DEF Ask, Goto
  <2>2. CASE AskReplay(t)
    <3>1. PICK id \in DOMAIN runs : want' = [want EXCEPT ![t] = runs[id].size]
      BY <2>2 DEF AskReplay
    <3>2. runs[id].size \in Sizes
      BY <1>1 DEF RunsInv
    <3> QED
      BY <2>2, <3>1, <3>2 DEF AskReplay, Goto
  <2> QED
    BY <2>1, <2>2
<1>4. OnlyMoves(t)
  BY <1>1, <1>2, <1>3 DEF OnlyMoves, TypeInv
<1>5. /\ pc'[t] = label /\ call'[t] = c /\ want'[t] = n /\ got'[t] = got[t]
  BY <1>0, <1>1, <1>2, <1>3 DEF TypeInv
<1>6. LockInv'
  BY <1>2, <1>3, <1>4, <1>5 DEF CalmInv, LockInv, Holds, OnlyMoves
<1>7. ThreadInv(t)'
  BY <1>0, <1>2, <1>3, <1>5 DEF ThreadInv, registry
<1> QED
  BY <1>0, <1>2, <1>4, <1>6, <1>7, QuietKeeps

LEMMA WarmKeeps ==
  ASSUME TypeInv, TypeInv', CalmInv, WarmNext \/ WarmOver
  PROVE  CalmInv'
<1> DEFINE t == Warm
<1>0. t \in Threads /\ pc[t] = "idle"
  BY WarmIsNoClient DEF WarmNext, WarmOver
<1>1. TypeInv /\ ThreadInv(t)
  BY <1>0 DEF CalmInv
<1>2. UNCHANGED <<lock, registry, call, got, told>>
  BY DEF WarmNext, WarmOver
<1>3. PICK n \in Int, label \in {"lock", "over"} :
        /\ want' = [want EXCEPT ![t] = n] /\ pc' = [pc EXCEPT ![t] = label]
        /\ label = "lock" => n \in Sizes
        /\ toWarm' \subseteq WarmSizes
  BY <1>0, WarmTurns
<1>4. OnlyMoves(t)
  BY <1>1, <1>2, <1>3 DEF OnlyMoves, TypeInv
<1>5. pc'[t] = label /\ call'[t] = call[t] /\ want'[t] = n /\ got'[t] = got[t]
  BY <1>0, <1>1, <1>2, <1>3 DEF TypeInv
<1>6. LockInv'
  BY <1>2, <1>3, <1>4, <1>5 DEF CalmInv, LockInv, Holds, OnlyMoves
<1>7. ThreadInv(t)'
  BY <1>0, <1>1, <1>2, <1>3, <1>5 DEF ThreadInv, registry
<1> QED
  BY <1>0, <1>2, <1>4, <1>6, <1>7, QuietKeeps

\* Taking the lock when nobody has it, or leaving it.
LEMMA LockStepKeeps ==
  ASSUME TypeInv, TypeInv', CalmInv, NEW t \in Threads, Acquire(t) \/ Release(t)
  PROVE  CalmInv'
<1>1. TypeInv /\ ThreadInv(t) /\ LockInv
  BY DEF CalmInv
<1>2. UNCHANGED <<registry, call, want, got, told, toWarm>>
  BY DEF Acquire, Release
<1>3. PICK label \in {"memo", "done"} : pc' = [pc EXCEPT ![t] = label]
  BY DEF Acquire, Release, Goto
<1>4. OnlyMoves(t) /\ pc'[t] = label
  BY <1>1, <1>2, <1>3 DEF OnlyMoves, TypeInv
<1>5. LockInv' /\ ThreadInv(t)'
  <2>1. CASE Acquire(t)
    <3>1. pc[t] = "lock" /\ lock = Nobody /\ lock' = t /\ pc'[t] = "memo"
      BY <1>1, <2>1 DEF Acquire, Goto, TypeInv
    <3>2. \A u \in Threads : ~Holds(u)
      BY <1>1, <3>1, WarmIsNoClient DEF LockInv
    <3>3. LockInv'
      BY <1>2, <1>4, <3>1, <3>2 DEF LockInv, Holds, OnlyMoves
    <3> QED
      BY <1>1, <1>2, <3>1, <3>3 DEF ThreadInv, registry, TypeInv
  <2>2. CASE Release(t)
    <3>1. pc[t] = "release" /\ pc'[t] = "done"
      BY <1>1, <2>2 DEF Release, Goto, TypeInv
    <3>2. Holds(t)
      BY <1>1, <3>1 DEF Holds, ThreadInv, TypeInv
    <3>3. \A u \in Threads \ {t} : ~Holds(u)
      BY <1>1, <3>2, AloneInside
    <3>4. LockInv'
      BY <1>2, <1>4, <3>1, <3>3 DEF LockInv, Holds, OnlyMoves
    <3> QED
      BY <1>1, <1>2, <3>1, <3>4 DEF ThreadInv, registry, Kept
  <2> QED
    BY <2>1, <2>2
<1>6. pc[t] # "keep" /\ UNCHANGED <<registry, told>>
  BY <1>2 DEF Acquire, Release
<1> QED
  BY <1>4, <1>5, <1>6, QuietKeeps

\* Looking a size up, computing it, or failing to.
LEMMA LookKeeps ==
  ASSUME TypeInv, TypeInv', CalmInv, ~reexecuted', NEW t \in Threads,
         LookInMemo(t) \/ CacheHit(t) \/ CacheMiss(t) \/ Compute(t) \/ ComputeFails(t)
  PROVE  CalmInv'
<1>1. TypeInv /\ ThreadInv(t) /\ LockInv /\ RunsInv /\ CachesInv
  BY DEF CalmInv
<1>2. UNCHANGED <<lock, registry, call, want, told, toWarm>>
  BY DEF LookInMemo, CacheHit, CacheMiss, Compute, ComputeFails
<1>3. want[t] \in Sizes /\ want[t] \in Int
  BY <1>1, SizesAreInts
     DEF ThreadInv, LookInMemo, CacheHit, CacheMiss, Compute, ComputeFails
<1>4. Cardinality(DOMAIN runs) + 1 \in Nat
  BY <1>1, FS_CardinalityType DEF RunsInv
<1>5. PICK r \in Run, label \in {"release", "execute", "store", "done", "compute", "register"} :
        got' = [got EXCEPT ![t] = r] /\ pc' = [pc EXCEPT ![t] = label]
  <2>1. got = [got EXCEPT ![t] = got[t]] /\ got[t] \in Run
    BY <1>1 DEF TypeInv
  <2>2. CASE LookInMemo(t)
    <3>1. memo[want[t]] \in Run
      BY <1>1, <1>3 DEF TypeInv
    <3> QED
      BY <2>1, <2>2, <3>1 DEF LookInMemo, Take, Goto
  <2>3. CASE CacheHit(t)
    <3>1. cache[want[t]] \in Run
      BY <1>1, <1>3 DEF TypeInv
    <3> QED
      BY <2>3, <3>1 DEF CacheHit, Take, Goto, Back
  <2>4. CASE CacheMiss(t)
    BY <2>1, <2>4 DEF CacheMiss, Goto
  <2>5. CASE Compute(t)
    BY <1>3, <1>4, <2>5, RunTyped DEF Compute, Take, Goto
  <2>6. CASE ComputeFails(t)
    BY <2>6, NoRunTyped DEF ComputeFails, Take, Goto, Back
  <2> QED
    BY <2>2, <2>3, <2>4, <2>5, <2>6
<1>6. OnlyMoves(t) /\ pc'[t] = label /\ got'[t] = r
  BY <1>1, <1>2, <1>5 DEF OnlyMoves, TypeInv
<1>7. LockInv'
  <2>1. Holds(t)' => Holds(t)
    BY <1>2 DEF Holds, LookInMemo, CacheHit, CacheMiss, Compute, ComputeFails
  <2> QED
    BY <1>1, <1>2, <1>6, <2>1 DEF LockInv, Holds, OnlyMoves
<1>8. ThreadInv(t)'
  <2>0. UNCHANGED <<runs, cache, memo>> /\ call'[t] = call[t] /\ want'[t] = want[t]
    BY <1>2 DEF registry
  <2>1. CASE LookInMemo(t)
    <3>1. call[t] = "run" /\ pc[t] = "memo"
      BY <1>1, <2>1 DEF LookInMemo, ThreadInv, TypeInv
    <3>2. \/ label = "release" /\ r = memo[want[t]] /\ r # NoRun
          \/ label = "execute"
      BY <1>1, <1>5, <1>6, <2>1 DEF LookInMemo, Take, Goto, TypeInv
    <3>3. label = "release" => Kept(r)
      BY <1>1, <1>3, <3>2 DEF CachesInv
    <3> QED
      BY <1>1, <1>3, <1>6, <2>0, <3>1, <3>2, <3>3 DEF ThreadInv, Kept
  <2>2. CASE CacheHit(t)
    <3>1. /\ pc[t] = "execute" /\ r = cache[want[t]] /\ r # NoRun
          /\ label = IF call[t] = "run" THEN "store" ELSE "done"
      BY <1>1, <1>6, <2>2 DEF CacheHit, Take, Goto, Back, TypeInv
    <3>2. Kept(r) /\ r.size = want[t]
      BY <1>1, <1>3, <3>1 DEF CachesInv
    <3>3. Kept(r)'
      BY <2>0, <3>2 DEF Kept
    <3> QED
      BY <1>1, <1>3, <1>6, <2>0, <3>1, <3>2, <3>3 DEF ThreadInv
  <2>3. CASE CacheMiss(t)
    <3>1. pc[t] = "execute" /\ label = "compute" /\ cache[want[t]] = NoRun
      BY <1>1, <1>6, <2>3 DEF CacheMiss, Goto, TypeInv
    <3>2. call[t] # "replay"
      BY <2>3 DEF CacheMiss
    <3> QED
      BY <1>1, <1>3, <1>6, <2>0, <3>1, <3>2 DEF ThreadInv
  <2>4. CASE Compute(t)
    <3>1. /\ pc[t] = "compute" /\ label = "register"
          /\ r = [id |-> Cardinality(DOMAIN runs) + 1, size |-> want[t]]
      BY <1>1, <1>6, <2>4 DEF Compute, Take, Goto, TypeInv
    <3> QED
      BY <1>1, <1>3, <1>6, <2>0, <3>1 DEF ThreadInv
  <2>5. CASE ComputeFails(t)
    <3>1. pc[t] = "compute" /\ r = NoRun /\ label \in {"release", "done"}
      BY <1>1, <1>6, <2>5 DEF ComputeFails, Take, Goto, Back, TypeInv
    <3>2. call[t] = "run"
      BY <1>1, <3>1 DEF ThreadInv, TypeInv
    <3> QED
      BY <1>1, <1>3, <1>6, <2>0, <3>1, <3>2 DEF ThreadInv
  <2> QED
    BY <2>1, <2>2, <2>3, <2>4, <2>5
<1>9. pc[t] # "keep" /\ UNCHANGED <<registry, told>>
  BY <1>2 DEF LookInMemo, CacheHit, CacheMiss, Compute, ComputeFails
<1> QED
  BY <1>6, <1>7, <1>8, <1>9, QuietKeeps

-----------------------------------------------------------------------------
(* Steps that change what is served *)

\* A thread that works on a run does so inside the lock.
LEMMA WorkingIsInside ==
  ASSUME TypeInv, CalmInv, NEW t \in Threads, pc[t] \in {"register", "keep", "store"}
  PROVE  Holds(t) /\ call[t] = "run"
<1>1. ThreadInv(t) /\ call[t] \in {"run", "replay"}
  BY DEF CalmInv, TypeInv
<1> QED
  BY <1>1 DEF ThreadInv, Holds

\* The new run takes the next number; no other run has its size, because its
\* size was not in the cache and nobody else is about to put one there.
LEMMA RegisterKeeps ==
  ASSUME TypeInv, TypeInv', CalmInv, NEW t \in Threads, Register(t)
  PROVE  CalmInv'
<1> DEFINE k == Cardinality(DOMAIN runs)
           r == got[t]
<1>1. TypeInv /\ ThreadInv(t) /\ LockInv /\ RunsInv /\ CachesInv /\ ToldInv
  BY DEF CalmInv
<1>2. /\ pc[t] = "register" /\ pc' = [pc EXCEPT ![t] = "keep"]
      /\ runs' = [id \in DOMAIN runs \cup {r.id} |-> IF id = r.id THEN r ELSE runs[id]]
      /\ UNCHANGED <<lock, memo, cache, call, want, got, told, toWarm>>
  BY DEF Register, Goto
<1>3. Holds(t) /\ call[t] = "run"
  BY <1>2, WorkingIsInside
<1>4. k \in Nat /\ IsFiniteSet(DOMAIN runs) /\ DOMAIN runs = 1 .. k
  BY <1>1, FS_CardinalityType DEF RunsInv
<1>5. want[t] \in Sizes /\ cache[want[t]] = NoRun /\ want[t] \in Int
  BY <1>1, <1>2, SizesAreInts DEF ThreadInv
<1>6. r = [id |-> k + 1, size |-> want[t]]
  BY <1>1, <1>2 DEF ThreadInv
<1>7. r \in Run /\ r.id = k + 1 /\ r.size = want[t]
  BY <1>4, <1>5, <1>6, RunTyped
<1> HIDE DEF r
<1>8. /\ DOMAIN runs' = 1 .. (k + 1) /\ IsFiniteSet(DOMAIN runs')
      /\ Cardinality(DOMAIN runs') = k + 1
  <2>1. DOMAIN runs' = DOMAIN runs \cup {k + 1} /\ k + 1 \notin DOMAIN runs
    BY <1>2, <1>4, <1>7
  <2>2. 1 .. (k + 1) = 1 .. k \cup {k + 1}
    BY <1>4
  <2> QED
    BY <1>4, <2>1, <2>2, FS_AddElement
<1>9. runs'[k + 1] = r /\ \A i \in DOMAIN runs : runs'[i] = runs[i]
  BY <1>2, <1>4, <1>7
<1>10. Growing
  BY <1>2, <1>4, <1>8, <1>9 DEF Growing
<1>11. OnlyMoves(t) /\ pc'[t] = "keep" /\ got'[t] = r
  BY <1>1, <1>2 DEF OnlyMoves, TypeInv, r
<1>12. LockInv' /\ Holds(t)'
  BY <1>1, <1>2, <1>3, <1>11 DEF LockInv, Holds, OnlyMoves
<1>13. \A i \in DOMAIN runs : cache[runs[i].size] = runs[i]
  <2> SUFFICES ASSUME NEW i \in DOMAIN runs,
                      NEW u \in Threads, Holds(u), pc[u] = "keep"
               PROVE  FALSE
    BY <1>1 DEF RunsInv
  <2> QED
    BY <1>1, <1>2, <1>3, AloneInside
<1>14. \A i \in DOMAIN runs : runs[i].size # want[t]
  <2> SUFFICES ASSUME NEW i \in DOMAIN runs, runs[i].size = want[t] PROVE FALSE
    OBVIOUS
  <2>1. runs[i] = NoRun /\ runs[i].id = i
    BY <1>1, <1>5, <1>13 DEF RunsInv
  <2> QED
    BY <1>4, <2>1, NoRunTyped
<1>15. RunsInv'
  <2>1. ASSUME NEW i \in DOMAIN runs'
        PROVE  /\ runs'[i] \in Run /\ runs'[i].id = i /\ runs'[i].size \in Sizes
               /\ \/ cache'[runs'[i].size] = runs'[i]
                  \/ Holds(t)' /\ pc'[t] = "keep" /\ got'[t] = runs'[i]
    <3>1. i \in DOMAIN runs \/ i = k + 1
      BY <1>4, <1>8
    <3> QED
      BY <3>1, <1>1, <1>2, <1>5, <1>7, <1>9, <1>11, <1>12, <1>13 DEF RunsInv
  <2>2. \A i, j \in DOMAIN runs' : runs'[i].size = runs'[j].size => i = j
    <3>1. \A i \in DOMAIN runs' : i \in DOMAIN runs \/ i = k + 1
      BY <1>4, <1>8
    <3> QED
      BY <3>1, <1>1, <1>7, <1>9, <1>14 DEF RunsInv
  <2> QED
    BY <1>8, <2>1, <2>2 DEF RunsInv
<1>16. CachesInv' /\ ToldInv'
  <2>1. \A x : Kept(x) => Kept(x)'
    BY <1>1, <1>10, KeptStays
  <2> QED
    BY <1>1, <1>2, <1>9, <1>10, <2>1 DEF CachesInv, ToldInv, Growing
<1>17. ThreadInv(t)'
  BY <1>1, <1>2, <1>3, <1>4, <1>5, <1>7, <1>8, <1>9, <1>11 DEF ThreadInv
<1> QED
  BY <1>3, <1>10, <1>11, <1>12, <1>15, <1>16, <1>17, OthersKeep DEF CalmInv

LEMMA KeepKeeps ==
  ASSUME TypeInv, TypeInv', CalmInv, NEW t \in Threads, Keep(t)
  PROVE  CalmInv'
<1> DEFINE r == got[t]
           n == want[t]
<1>1. TypeInv /\ ThreadInv(t) /\ LockInv /\ RunsInv /\ CachesInv /\ ToldInv
  BY DEF CalmInv
<1>2. /\ pc[t] = "keep" /\ cache' = [cache EXCEPT ![n] = r]
      /\ UNCHANGED <<lock, memo, runs, call, want, got, told, toWarm>>
  BY DEF Keep
<1>3. Holds(t) /\ call[t] = "run"
  BY <1>2, WorkingIsInside
<1>4. pc' = [pc EXCEPT ![t] = "store"]
  BY <1>3 DEF Keep, Goto, Back
<1>5. /\ n \in Sizes /\ cache[n] = NoRun
      /\ r.size = n /\ r.id \in DOMAIN runs /\ runs[r.id] = r
  BY <1>1, <1>2 DEF ThreadInv
<1>6. cache'[n] = r /\ \A m \in Sizes \ {n} : cache'[m] = cache[m]
  BY <1>1, <1>2, <1>5 DEF TypeInv
<1>7. Growing
  BY <1>2, <1>5, <1>6 DEF Growing
<1>8. OnlyMoves(t) /\ pc'[t] = "store" /\ got'[t] = r /\ want'[t] = n
  BY <1>1, <1>2, <1>4 DEF OnlyMoves, TypeInv
<1>9. LockInv'
  BY <1>1, <1>2, <1>3, <1>8 DEF LockInv, Holds, OnlyMoves
<1>10. Kept(r)'
  BY <1>2, <1>5, <1>6 DEF Kept
<1>11. RunsInv'
  <2>1. ASSUME NEW i \in DOMAIN runs PROVE cache'[runs[i].size] = runs[i]
    <3>0. runs[i].size \in Sizes
      BY <1>1 DEF RunsInv
    <3>1. CASE runs[i].size = n
      BY <1>1, <1>5, <1>6, <3>1 DEF RunsInv
    <3>2. CASE runs[i].size # n
      <4>1. ASSUME NEW u \in Threads, Holds(u), pc[u] = "keep", got[u] = runs[i]
            PROVE  FALSE
        <5>1. u = t
          BY <1>1, <1>3, <4>1, AloneInside
        <5> QED
          BY <1>5, <3>2, <4>1, <5>1
      <4> QED
        BY <1>1, <1>6, <3>0, <3>2, <4>1 DEF RunsInv
    <3> QED
      BY <3>1, <3>2
  <2> QED
    BY <1>1, <1>2, <2>1 DEF RunsInv
<1>12. CachesInv' /\ ToldInv'
  <2>1. \A x : Kept(x) => Kept(x)'
    BY <1>1, <1>7, KeptStays
  <2> QED
    BY <1>1, <1>2, <1>5, <1>6, <1>10, <2>1 DEF CachesInv, ToldInv
<1>13. ThreadInv(t)'
  BY <1>1, <1>2, <1>3, <1>5, <1>8, <1>10 DEF ThreadInv
<1> QED
  BY <1>3, <1>7, <1>8, <1>9, <1>11, <1>12, <1>13, OthersKeep DEF CalmInv

LEMMA StoreKeeps ==
  ASSUME TypeInv, TypeInv', CalmInv, NEW t \in Threads, Store(t)
  PROVE  CalmInv'
<1>1. TypeInv /\ ThreadInv(t) /\ LockInv /\ RunsInv /\ CachesInv /\ ToldInv
  BY DEF CalmInv
<1>2. /\ pc[t] = "store" /\ pc' = [pc EXCEPT ![t] = "release"]
      /\ memo' = [memo EXCEPT ![want[t]] = got[t]]
      /\ UNCHANGED <<lock, cache, runs, call, want, got, told, toWarm>>
  BY DEF Store, Goto
<1>3. Holds(t) /\ call[t] = "run"
  BY <1>2, WorkingIsInside
<1>4. want[t] \in Sizes /\ got[t].size = want[t] /\ Kept(got[t])
  BY <1>1, <1>2 DEF ThreadInv
<1>5. Growing
  BY <1>2 DEF Growing
<1>6. OnlyMoves(t) /\ pc'[t] = "release"
  BY <1>1, <1>2 DEF OnlyMoves, TypeInv
<1>7. LockInv'
  BY <1>1, <1>2, <1>3, <1>6 DEF LockInv, Holds, OnlyMoves
<1>8. \A x : Kept(x)' <=> Kept(x)
  BY <1>2 DEF Kept
<1>9. RunsInv'
  <2>1. ASSUME NEW u \in Threads, Holds(u), pc[u] = "keep"
        PROVE  Holds(u)' /\ pc'[u] = "keep" /\ got'[u] = got[u]
    BY <1>2, <1>6, <2>1 DEF OnlyMoves, Holds
  <2> QED
    BY <1>1, <1>2, <2>1 DEF RunsInv
<1>10. CachesInv' /\ ToldInv'
  BY <1>1, <1>2, <1>4, <1>8 DEF CachesInv, ToldInv, TypeInv
<1>11. ThreadInv(t)'
  BY <1>1, <1>2, <1>3, <1>4, <1>6, <1>8 DEF ThreadInv
<1> QED
  BY <1>3, <1>5, <1>6, <1>7, <1>9, <1>10, <1>11, OthersKeep DEF CalmInv

\* What a browser is told of is kept, hence a later replay finds it.
LEMMA AnswerKeeps ==
  ASSUME TypeInv, TypeInv', CalmInv, NEW t \in Threads, Answer(t)
  PROVE  CalmInv'
<1>1. TypeInv /\ ThreadInv(t) /\ LockInv /\ RunsInv /\ CachesInv /\ ToldInv
  BY DEF CalmInv
<1>2. /\ pc[t] = "done" /\ pc' = [pc EXCEPT ![t] = "idle"]
      /\ got' = [got EXCEPT ![t] = NoRun]
      /\ UNCHANGED <<lock, memo, cache, runs, call, want, toWarm>>
  BY DEF Answer, Goto, Take, registry
<1>3. Growing
  BY <1>2 DEF Growing
<1>4. OnlyMoves(t) /\ pc'[t] = "idle"
  BY <1>1, <1>2 DEF OnlyMoves, TypeInv
<1>5. LockInv'
  BY <1>1, <1>2, <1>4 DEF LockInv, Holds, OnlyMoves
<1>6. \A x : Kept(x)' <=> Kept(x)
  BY <1>2 DEF Kept
<1>7. RunsInv'
  <2>1. ASSUME NEW u \in Threads, Holds(u), pc[u] = "keep"
        PROVE  Holds(u)' /\ pc'[u] = "keep" /\ got'[u] = got[u]
    BY <1>2, <1>4, <2>1 DEF OnlyMoves, Holds
  <2> QED
    BY <1>1, <1>2, <2>1 DEF RunsInv
<1>8. CachesInv'
  BY <1>1, <1>2, <1>6 DEF CachesInv
<1>9. ToldInv'
  <2>1. \/ told' = told
        \/ got[t] # NoRun /\ told' = told \cup {got[t].id}
    BY DEF Answer
  <2>2. got[t] # NoRun => Kept(got[t])
    BY <1>1, <1>2 DEF ThreadInv
  <2> QED
    BY <1>1, <1>2, <1>6, <2>1, <2>2 DEF ToldInv, Kept
<1>10. ThreadInv(t)'
  BY <1>1, <1>2, <1>4 DEF ThreadInv
<1> QED
  BY <1>2, <1>3, <1>4, <1>5, <1>7, <1>8, <1>9, <1>10, OthersKeep DEF CalmInv

-----------------------------------------------------------------------------
(* Theorems, for any run ids a browser may replay: an id left in a tab by an  *)
(* earlier process may name a run of this one.                                *)

LEMMA InitIInv == Init => IInv
<1> SUFFICES ASSUME Init PROVE IInv
  OBVIOUS
<1>1. DOMAIN runs = {} /\ IsFiniteSet(DOMAIN runs) /\ Cardinality(DOMAIN runs) = 0
  BY FS_EmptySet DEF Init
<1>2. TypeInv
  BY NoRunTyped, RegistryAssumption DEF Init, TypeInv, Labels
<1>3. RunsInv /\ ServedInv
  BY <1>1 DEF RunsInv, ServedInv, Init
<1>4. CachesInv /\ ToldInv /\ LockInv
  BY DEF Init, CachesInv, ToldInv, LockInv, Holds
<1>5. \A t \in Threads : ThreadInv(t) /\ HandInv(t)
  BY DEF Init, ThreadInv, HandInv
<1> QED
  BY <1>2, <1>3, <1>4, <1>5 DEF IInv, AlwaysInv, CalmInv

LEMMA NextIInv == IInv /\ [Next]_vars => IInv'
<1> SUFFICES ASSUME IInv, [Next]_vars PROVE IInv'
  OBVIOUS
<1>1. AlwaysInv' /\ TypeInv /\ TypeInv'
  BY NextAlways DEF IInv, AlwaysInv
<1>2. ASSUME ~reexecuted' PROVE CalmInv'
  <2>1. CalmInv
    <3>1. ~reexecuted
      BY <1>2 DEF Next, Serve, vars, Ask, AskReplay, WarmNext, WarmOver, Acquire,
         LookInMemo, CacheHit, CacheMiss, Compute, ComputeFails, Register, Keep, Store,
         Release, Answer
    <3> QED
      BY <3>1 DEF IInv
  <2>2. ASSUME NEW t \in Clients, Ask(t) \/ AskReplay(t) PROVE CalmInv'
    BY <1>1, <2>1, <2>2, AskKeeps
  <2>3. CASE WarmNext \/ WarmOver
    BY <1>1, <2>1, <2>3, WarmKeeps
  <2>4. ASSUME NEW t \in Threads, Serve(t) PROVE CalmInv'
    BY <1>1, <1>2, <2>1, <2>4, LockStepKeeps, LookKeeps, RegisterKeeps, KeepKeeps,
       StoreKeeps, AnswerKeeps DEF Serve
  <2>5. CASE UNCHANGED vars
    BY <2>1, <2>5 DEF vars, registry, CalmInv, LockInv, Holds, RunsInv, CachesInv,
       ToldInv, Kept, ThreadInv
  <2> QED
    BY <2>2, <2>3, <2>4, <2>5 DEF Next
<1> QED
  BY <1>1, <1>2 DEF IInv

\* Whatever is replayed, a run in hand is of its size and a registered size is
\* found, but for its gap.  Until a replay executes there, threads exclude each
\* other, runs are numbered without a gap, and what a reply told of is found.
THEOREM RegistryInvariant == Spec => []IInv
<1>1. Init => IInv
  BY InitIInv
<1>2. IInv /\ [Next]_vars => IInv'
  BY NextIInv
<1> QED
  BY <1>1, <1>2, PTL DEF Spec

\* What is kept for a size is always of that size.  Until a replay executes beside
\* the lock, no size is executed twice and what is kept is the run its id
\* addresses, however many clients ask at once and whatever execution fails.
THEOREM EachSizeIsExecutedOnce == Spec => []OneExecutionPerSize
<1>1. IInv => OneExecutionPerSize
  BY DEF IInv, AlwaysInv, ServedInv, CalmInv, OneExecutionPerSize, RunsInv, CachesInv, Kept
<1> QED
  BY <1>1, RegistryInvariant, PTL

\* Any client may replay any id at any time: it executes only beside a thread that
\* has registered a run of the same size and not kept it, and until one has done so
\* never a size a reply has told of.
THEOREM ReplaysRaceOnlyTheGap == Spec => ReplayExecutesOnlyInTheGap
<1> DEFINE Step(t) ==
      call[t] = "replay" /\ pc[t] = "execute" /\ pc'[t] = "compute" =>
        /\ \E u \in Threads \ {t} : pc[u] = "keep" /\ want[u] = want[t]
        /\ ~reexecuted => \A id \in told : runs[id].size # want[t]
<1>1. ASSUME IInv, [Next]_vars PROVE [\A t \in Clients : Step(t)]_vars
  <2> SUFFICES ASSUME Next, NEW t \in Clients,
                      call[t] = "replay", pc[t] = "execute", pc'[t] = "compute"
               PROVE  /\ \E u \in Threads \ {t} : pc[u] = "keep" /\ want[u] = want[t]
                      /\ ~reexecuted => \A id \in told : runs[id].size # want[t]
    BY <1>1
  <2>1. TypeInv /\ HandInv(t) /\ t \in Threads
    BY <1>1 DEF IInv, AlwaysInv, Threads
  <2>2. CacheMiss(t)
    BY <2>1, WarmIsNoClient DEF TypeInv, Next, Serve, Goto, Back, Ask, AskReplay, WarmNext,
       WarmOver, Acquire, LookInMemo, CacheHit, CacheMiss, Compute, ComputeFails, Register,
       Keep, Store, Release, Answer
  <2>3. cache[want[t]] = NoRun /\ Found(want[t])
    BY <2>1, <2>2 DEF CacheMiss, HandInv
  <2>4. ASSUME ~reexecuted, NEW id \in told, runs[id].size = want[t] PROVE FALSE
    <3>1. RunsInv /\ id \in DOMAIN runs /\ Kept(runs[id])
      BY <1>1, <2>4 DEF IInv, CalmInv, ToldInv
    <3> QED
      BY <2>3, <2>4, <3>1, KeptIsARun DEF Kept
  <2> QED
    BY <2>3, <2>4 DEF Found
<1> QED
  BY <1>1, RegistryInvariant, PTL DEF Spec, ReplayExecutesOnlyInTheGap
=============================================================================
