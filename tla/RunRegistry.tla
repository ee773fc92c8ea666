----------------------------- MODULE RunRegistry -----------------------------
(***************************************************************************)
(* Serving runs: attest/web.py `_run` (a memo under one lock), `_warm` (the *)
(* start-up thread) and the two caches of attest/api.py `execute`, which   *)
(* the replay handler calls without the lock.  One thread per request.     *)
(***************************************************************************)
EXTENDS Integers, FiniteSets, Sequences

CONSTANTS
  Clients,       \* request threads
  Warm,          \* the warm-up thread
  Asked,         \* portfolio sizes clients ask for, in range or not
  MinSize, MaxSize,   \* the range /api/run clamps to (10 and 5000)
  WarmSizes,     \* SIZES
  StaleIds,      \* run ids a browser tab kept from an earlier server process
  MaxRequests    \* bound on requests

ASSUME RegistryAssumption ==
  /\ Warm \notin Clients /\ "nobody" \notin Clients \cup {Warm}
  /\ IsFiniteSet(WarmSizes)
  /\ Asked \subseteq Int /\ MinSize \in Int /\ MaxSize \in Int
  /\ MinSize <= MaxSize /\ WarmSizes \subseteq MinSize .. MaxSize
  /\ StaleIds \subseteq Nat \ {0} /\ MaxRequests \in Nat

VARIABLES
  lock,          \* holder of _LOCK, or Nobody
  memo,          \* _MEMO: size -> run, NoRun when absent
  cache,         \* _EXEC_CACHE at the demo seed: size -> run
  runs,          \* _RUNS: run id -> run
  pc, call, want, got,   \* each thread: where, in which handler, size, run
  asked,         \* requests so far
  told,          \* run ids a reply has named
  toWarm,        \* sizes _warm has still to compute
  reexecuted     \* history: a replay has executed its portfolio again

registry == <<memo, cache, runs>>
vars == <<lock, memo, cache, runs, pc, call, want, got, asked, told,
          toWarm, reexecuted>>

-----------------------------------------------------------------------------

Threads == Clients \cup {Warm}
Nobody == "nobody"

Clamp(n) == IF n < MinSize THEN MinSize ELSE IF n > MaxSize THEN MaxSize ELSE n

Sizes == {Clamp(n) : n \in Asked} \cup WarmSizes

\* Largest first.
Largest(S) == CHOOSE n \in S : \A m \in S : m <= n

NoRun == [id |-> 0, size |-> 0]

Init ==
  /\ lock = Nobody
  /\ memo = [n \in Sizes |-> NoRun]
  /\ cache = [n \in Sizes |-> NoRun]
  /\ runs = <<>>
  /\ pc = [t \in Threads |-> "idle"]
  /\ call = [t \in Threads |-> "run"]
  /\ want = [t \in Threads |-> MinSize]
  /\ got = [t \in Threads |-> NoRun]
  /\ asked = 0
  /\ told = {}
  /\ toWarm = WarmSizes
  /\ reexecuted = FALSE

Goto(t, label) == pc' = [pc EXCEPT ![t] = label]
Take(t, r) == got' = [got EXCEPT ![t] = r]

\* Where execute() returns to: _run under the lock, or the replay handler.
Back(t, label) == IF call[t] = "run" THEN label ELSE "done"

\* GET /api/run.
Ask(t) ==
  /\ pc[t] = "idle" /\ t \in Clients
  /\ asked < MaxRequests
  /\ asked' = asked + 1
  /\ \E n \in Asked : want' = [want EXCEPT ![t] = Clamp(n)]
  /\ call' = [call EXCEPT ![t] = "run"]
  /\ Goto(t, "lock")
  /\ UNCHANGED <<lock, registry, got, told, toWarm, reexecuted>>

\* GET /api/replay, for a run the server has told of or one left in a tab.
AskReplay(t) ==
  /\ pc[t] = "idle" /\ t \in Clients
  /\ asked < MaxRequests
  /\ asked' = asked + 1
  /\ \E id \in (told \cup StaleIds) \cap DOMAIN runs :
       want' = [want EXCEPT ![t] = runs[id].size]
  /\ call' = [call EXCEPT ![t] = "replay"]
  /\ Goto(t, "execute")
  /\ UNCHANGED <<lock, registry, got, told, toWarm, reexecuted>>

\* _warm turns to its next size.
WarmNext ==
  /\ pc[Warm] = "idle" /\ toWarm # {}
  /\ want' = [want EXCEPT ![Warm] = Largest(toWarm)]
  /\ toWarm' = toWarm \ {Largest(toWarm)}
  /\ Goto(Warm, "lock")
  /\ UNCHANGED <<lock, registry, call, got, asked, told, reexecuted>>

WarmOver ==
  /\ pc[Warm] = "idle" /\ toWarm = {}
  /\ Goto(Warm, "over")
  /\ UNCHANGED <<lock, registry, call, want, got, asked, told, toWarm, reexecuted>>

Mut_Acquire(t) ==      \* the lock is gone
  /\ pc[t] = "lock"
  /\ lock' = t
  /\ Goto(t, "memo")
  /\ UNCHANGED <<registry, call, want, got, asked, told, toWarm, reexecuted>>

\* with _LOCK.
Acquire(t) ==
  /\ pc[t] = "lock"
  /\ lock = Nobody
  /\ lock' = t
  /\ Goto(t, "memo")
  /\ UNCHANGED <<registry, call, want, got, asked, told, toWarm, reexecuted>>

\* `n not in _MEMO`.
LookInMemo(t) ==
  /\ pc[t] = "memo"
  /\ IF memo[want[t]] # NoRun
     THEN Take(t, memo[want[t]]) /\ Goto(t, "release")
     ELSE Goto(t, "execute") /\ UNCHANGED got
  /\ UNCHANGED <<lock, registry, call, want, asked, told, toWarm, reexecuted>>

\* execute: the (n, seed) was executed before.
CacheHit(t) ==
  /\ pc[t] = "execute"
  /\ cache[want[t]] # NoRun
  /\ Take(t, cache[want[t]])
  /\ Goto(t, Back(t, "store"))
  /\ UNCHANGED <<lock, registry, call, want, asked, told, toWarm, reexecuted>>

Mut_CacheMiss(t) ==    \* every call executes afresh
  /\ pc[t] = "execute"
  /\ Goto(t, "compute")
  /\ reexecuted' = (reexecuted \/ call[t] = "replay")
  /\ UNCHANGED <<lock, registry, call, want, got, asked, told, toWarm>>

CacheMiss(t) ==
  /\ pc[t] = "execute"
  /\ cache[want[t]] = NoRun
  /\ Goto(t, "compute")
  /\ reexecuted' = (reexecuted \/ call[t] = "replay")
  /\ UNCHANGED <<lock, registry, call, want, got, asked, told, toWarm>>

\* The portfolio is built, reconciled and calibrated; the run is numbered
\* after the runs registered so far.
Compute(t) ==
  /\ pc[t] = "compute"
  /\ Take(t, [id |-> Cardinality(DOMAIN runs) + 1, size |-> want[t]])
  /\ Goto(t, "register")
  /\ UNCHANGED <<lock, registry, call, want, asked, told, toWarm, reexecuted>>

Mut_ComputeFails(t) == \* the lock is not a context manager
  /\ pc[t] = "compute"
  /\ Take(t, NoRun)
  /\ Goto(t, "done")
  /\ UNCHANGED <<lock, registry, call, want, asked, told, toWarm, reexecuted>>

\* The execution raises: nothing is stored, and leaving `with` frees the lock.
ComputeFails(t) ==
  /\ pc[t] = "compute"
  /\ Take(t, NoRun)
  /\ Goto(t, Back(t, "release"))
  /\ UNCHANGED <<lock, registry, call, want, asked, told, toWarm, reexecuted>>

\* `_RUNS[r.run_id] = r`.
Register(t) ==
  /\ pc[t] = "register"
  /\ runs' = [id \in DOMAIN runs \cup {got[t].id} |->
                IF id = got[t].id THEN got[t] ELSE runs[id]]
  /\ Goto(t, "keep")
  /\ UNCHANGED <<lock, memo, cache, call, want, got, asked, told, toWarm, reexecuted>>

\* `_EXEC_CACHE[cache_key] = r`.
Keep(t) ==
  /\ pc[t] = "keep"
  /\ cache' = [cache EXCEPT ![want[t]] = got[t]]
  /\ Goto(t, Back(t, "store"))
  /\ UNCHANGED <<lock, memo, runs, call, want, got, asked, told, toWarm, reexecuted>>

\* `_MEMO[n] = ...`.
Store(t) ==
  /\ pc[t] = "store"
  /\ memo' = [memo EXCEPT ![want[t]] = got[t]]
  /\ Goto(t, "release")
  /\ UNCHANGED <<lock, cache, runs, call, want, got, asked, told, toWarm, reexecuted>>

Release(t) ==
  /\ pc[t] = "release"
  /\ lock' = Nobody
  /\ Goto(t, "done")
  /\ UNCHANGED <<registry, call, want, got, asked, told, toWarm, reexecuted>>

\* The reply names the run; the warm-up only prints.
Answer(t) ==
  /\ pc[t] = "done"
  /\ told' = IF t = Warm \/ got[t] = NoRun THEN told ELSE told \cup {got[t].id}
  /\ Take(t, NoRun)
  /\ Goto(t, "idle")
  /\ UNCHANGED <<lock, registry, call, want, asked, toWarm, reexecuted>>

Serve(t) ==
  \/ Acquire(t) \/ LookInMemo(t) \/ CacheHit(t) \/ CacheMiss(t)
  \/ Compute(t) \/ ComputeFails(t) \/ Register(t) \/ Keep(t) \/ Store(t)
  \/ Release(t) \/ Answer(t)

Next == \/ \E t \in Clients : Ask(t) \/ AskReplay(t)
        \/ WarmNext \/ WarmOver
        \/ \E t \in Threads : Serve(t)

Spec == Init /\ [][Next]_vars

\* Running threads run.  threading.Lock promises no order among its waiters,
\* so nothing stronger is assumed of Acquire.
FairSpec == /\ Spec
            /\ \A t \in Threads : WF_vars(Serve(t))
            /\ WF_vars(WarmNext \/ WarmOver)

-----------------------------------------------------------------------------
(* Properties *)

\* What the memo keeps for a size is a run of that size.  And until a replay
\* executes beside the lock, no size is executed twice: a request that arrives
\* while its size is being computed waits for that answer, and what is kept for a
\* size is the run its id addresses, so that a browser drills into what it was
\* shown.
OneExecutionPerSize ==
  /\ \A n \in Sizes : memo[n] # NoRun => memo[n].size = n
  /\ ~reexecuted =>
       /\ \A i, j \in DOMAIN runs : runs[i].size = runs[j].size => i = j
       /\ \A n \in Sizes :
            memo[n] # NoRun => memo[n].id \in DOMAIN runs /\ runs[memo[n].id] = memo[n]

\* A replay, which takes no lock, executes only in the gap between _RUNS and
\* _EXEC_CACHE: another thread has registered a run of that size and has not kept
\* it yet.  So the first replay to do so is never of a size a reply has told of.
ReplayExecutesOnlyInTheGap ==
  [][\A t \in Clients :
       call[t] = "replay" /\ pc[t] = "execute" /\ pc'[t] = "compute" =>
         /\ \E u \in Threads \ {t} : pc[u] = "keep" /\ want[u] = want[t]
         /\ ~reexecuted => \A id \in told : runs[id].size # want[t]]_vars

\* What the docstring of replay_view says, "the new run is a separate record with
\* its own id" (attest/api.py:2711-2712): a replay answers with a run no reply has
\* told of.  No run asks for it: execute finds the original in its cache and
\* returns that.
ReplayIsASeparateRecord ==
  \A t \in Clients :
    call[t] = "replay" /\ pc[t] = "done" /\ got[t] # NoRun => got[t].id \notin told

\* What the comment on _LOCK says (attest/web.py:250-255): two portfolios are never
\* computed at once.  No run asks for it: a replay in the gap computes beside the
\* thread that warms up or serves under the lock.
OnePortfolioAtATime ==
  \A t, u \in Threads : pc[t] = "compute" /\ pc[u] = "compute" => t = u

\* Whatever fails on the way, every request is answered, with a run or with an
\* error, and the warm-up comes to its end.
EveryRequestIsAnswered ==
  /\ \A t \in Clients : pc[t] \in {"lock", "execute"} ~> pc[t] = "idle"
  /\ <>(pc[Warm] = "over")
=============================================================================
