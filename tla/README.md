# closepilot in TLA+

Closepilot reconciles payouts of a payment gateway with the orders they settle, decides
which reconciliations may be posted, and tells a controller whether the books of a period
can be closed. The engine is the Python package `attest`; `closepilot` is the product on
top of it (review queue, dashboard, simulator, reports). This directory holds TLA+ modules
translated from that source, the TLC configurations that check them on small instances, and
proofs checked by TLAPS. `PROJECT.json` lists components, runs, mutants, the source lines
behind every definition, the hazards and the theorems.

## 1. Inventory

Paths are below `src/`. "Hard" names what a test would hardly reach.

| component | state | operations | hard | correct when |
|---|---|---|---|---|
| Cascade engine: `attest/pipeline.py`, `blocking.py`, `layers.py` | work list, rung of the lag ladder, spent orders, findings | one settlement at a time: single match, search, widen, exhaust, consume; then the overlay of cores | long sequences: what an early settlement takes, a later one lacks | orders are handed out once, a contradiction is a finished search, every settlement is answered |
| Search and kernel: `subsetsum.py`, `verdict.py`, `searchspace.py`, `model.py` | none (pure) | `solve`, `_enumerate`, `check`, `postable` | three pruning cuts, a counting cap, an envelope; a tolerance per bundle | no cut loses an explanation, a capped search does not claim to be complete, an abstention lists what it says it lists |
| Settlement calendar: `blocking.py` | none | inverse window | weekends, the span of the inverse | the orders a payout was made from are in a window |
| Partition solver: `partition.py` | none | components, joint packing, forced picks, cores | orders shared through a third settlement, truncated lists | parts add up to an optimal packing, a forced pick has no rival |
| Evidence propagation: `evidence.py` | claims, findings, round | `propagate`, `to_fixed_point` | order of loops inside a round, capped lists, the bound on rounds | removes only the impossible, deduces only the entailed, posts nothing |
| Webhook ingest: `webhooks.py`, `api.py`, `web.py` | `seen`, `events`, the secret, one thread per request | verify, look up, compare, mark, append, scope, replace; the demonstration that sends events of its own | unlocked check-then-set, `replace_last` by position, retries, mutations, forgeries, a secret that appears | accepted once, nothing unverified remembered, a demonstration gets the answers its cases deserve |
| Run registry: `web.py`, `api.py` | memo, execution cache, `_RUNS`, a lock, the warm-up | ask, replay, warm | replay does not hold the lock; an execution that raises | one execution per size until a replay executes beside the lock, which it can in one gap only; every request answered |
| Adapters: `attest/adapters/*.py` | rows read, position | fetch page by page, deduplicate, parse, normalise | a ledger that grows while it is read, rows that cannot be read | complete or warned, counted once |
| Portfolio generator: `generate/*.py` | none | walk the calendar, make a case | the families that tamper with the records | an honest book holds its truth |
| Exceptions: `exceptions.py` | none | classify | shares of an amount, a greedy partial | the money left unexplained is what the close weighs |
| Policy and ledger: `policy.py`, `ledger.py` | journal | decide, post, simulate | a negative line, an entry that does not balance | nothing posts that policy did not let through, every finding is an entry or a refusal |
| Hypotheses: `hypothesis.py`, `eval/anchoring.py` | accepted anchor, rejected ones, round | propose, falsify, iterate | a proposer that may say anything | an anchor chooses among explanations and makes none |
| Comparison of runs: `whatchanged.py`, `__main__.py` | two runs | diff, attribute | pools of two different windows | a change is attributed to what arrived |
| Agents and advisors: `agents.py`, `advisors.py` | none | request through four stages | a finding the loop proposed | what reaches the action stage was proven by the engine |
| Close controller: `close/*.py` | none (a period in, a decision out) | assess exposure, decide period, certify | exposure assessed twice, thresholds, duplicated findings, order of the input | what is left without orders is immaterial and listed; verdict, certificate and journal agree |
| Simulator, predictor: `closepilot/simulator.py`, `predictor.py` | none | project a scenario, decide again | a rewrite that touches what the scenario did not | nobody is relieved of a blocker nobody resolved |
| Lineage: `closepilot/lineage.py` | none | build, trace, validate | thirty conditions for edges | a blocker that is not about a single order is traced to its money |
| Investigator: `closepilot/investigator.py` | none | tools, report, grounding | records of another settlement | what is cited was retrieved and is about the subject |
| Review desk and dashboard: `closepilot/review_queue.py`, `dashboard.py` | the queue in the server's state | `record_action`, the screens | unlocked read-modify-write of an immutable value; screens that take their figures anew | status follows the log, the log only grows, blockers are shown first, screens agree |
| Evaluation: `eval/metrics.py`, `eval/harness.py`, `scripts/benchmark_evaluation.py` | counters | measure, calibrate, simulate | four readers of one finding | they agree |
| API views and plan: `attest/api.py`, `actions.py`, `certificate.py` | none (they read a run) | a dozen screens of one run, the plan, a settlement's certificate, the export | each derives its figures and its policy decision anew | one figure for one question, what is permitted is what is posted |
| Rules, estimate, graph; pages; native kernel | none | presentation, statistics, a compiled copy | - | - |

How they interact: the web server (`web.py`, a `ThreadingHTTPServer`) serves runs out of
the registry; an execution builds a portfolio, runs the cascade over it, classifies what is
left as exceptions, applies policy to post entries, and hands findings and exceptions to the
close controller. The hypothesis loop and the agents look at the same findings. The dashboard
decides the period once, answers every screen from that state, builds the review queue from
the exceptions and applies a controller's actions to it. Webhooks name settlements of the
current run. The shared state is three module-level dictionaries (`_MEMO`, `_EXEC_CACHE`,
`_RUNS`), the event log and its secret, and the dashboard's `state` dictionary; only the
first is behind a lock.

## 2. Plan

Order: what decides about money first, then what several threads share, then the decisions
built on findings, then what stands around the engine.

1. `SettlementCalendar`, `SubsetSum`, `Cascade`, abstract `ClaimBook` - done, with proofs.
2. `Propagation` over the findings of the real cascade - done, with proofs.
3. `EventIngest` with abstract `Inbox`; `ReviewDesk` with abstract `AuditTrail`;
   `RunRegistry` - done; the demonstration is a second client of the ingest - done.
4. `Exceptions`, `Posting` and `PeriodClose`, composed with the cascade into the close of
   one period - done, with proofs.
5. `Packing` (the partition solver) over the book of the cascade - done, with proofs.
6. `Portfolio` and `Gateway` as sources, `RunDiff`, `Hypothesis`, `Agents`, `Measurement`,
   composed in `Anchoring` - done, with proofs.
7. `Readiness` (the controller over any books), `Simulator`, `Predictor`, `Lineage`,
   `Investigator`, `ReviewQueue`, composed with `ReviewDesk` in `Dashboard` - done, with proofs.
8. `RunScreens`, the views of a run, over the composed close - done, with proofs.
9. Left: the first two requests that build two ingests (`api.py:73`); the prediction screen;
   two payments of one order id in the gateway; portfolios of several settlements in
   `Anchoring`.

Proofs: every safety and refinement property a passing run checks is a theorem (section 5); liveness
under fairness is what is left to TLC.

## 3. Modules

### SettlementCalendar
A day is a number, day 0 a Monday. `IsCaptureDate` is membership in
`blocking._capture_dates_for`: the twelve-day span and the forward walk. The walk itself, day
by day, is `Portfolio`'s.

### SubsetSum, Amounts, Amounts_proofs
`Amounts` is what the modules share about money: sums over sets, magnitudes, folds of amounts.
`SubsetSum` is `solve`, `_enumerate` and the kernel as pure operators. The depth-first walk is
given by what it reports: a set is reported when it fits, no prefix of it (largest net first) fits
already, and none of the three cuts (overshoot, too little left, remainder unreachable)
fires on the way. `Found` is the first `MaxEnum` of these in the order of the walk,
`Exhaustive` says that there were no more. The bitset of reachable sums is the set of those
sums. `solve_unfiltered` and the native copy of the bitset are left out. `InReach` is the
promise the search can keep: a set of candidates that fits, does not overshoot, and leaves no
more than the band open (section 6 says why the band is part of it).

### Cascade, ClaimBook, MCCascade, Cascade_proofs
`run` of `pipeline.py`: `Init` is any order file and settlement file; `MatchSingle`, `Skip`,
`Decide`, `Widen` and `Exhaust` are the five ways one turn of the inner loop ends;
`Conclude` appends the finding, consumes its orders when it is postable and moves on, as
the code does after the loop; `Finish` and `AttachCores` are the overlay. A finding keeps
the fields later code reads. `WithCore` rebuilds a finding field by field, as
`_attach_cores` calls the constructor, so a field left out of the call would fall back to its
default; `AbstentionsAreComplete` is what such a loss would break. Which orders a core names is a
choice of the packing solver, kept in `Packing`; here it is only kept that the finding was rebuilt.
`ClaimBook` is the promise without the search: settlements answer once, an answer takes
orders nobody holds, nothing is handed on. `ImplementsClaimBook` maps the owner of an order
to the settlement whose postable finding cites it.

### Propagation, Packing, MCPropagation, Propagation_proofs
`evidence.py` runs on the findings of the cascade when `ATTEST_PROP` is set (off by
default). `Seed` fills the claims from proven findings, `Deduce` is the first loop of a
round with the `claimed.update(forced)` after it, `Eliminate` the second loop with the test
that ends the iteration. `received` and `worlds` are history: the lists as the cascade made
them, and every way of explaining all explained settlements at once without sharing an
order, including explanations the cap left off the lists. Properties are stated against
`worlds`, which the code never computes.

`Packing` is `partition.py` over the same book: what each settlement lists out of the pool
nobody consumed from, the groups of settlements that share orders (`GroupOf`: who is in every
group around the settlement that stands `Apart` from the rest), an optimal packing of
each, the forced picks, and the cores. A property compares the parts with a packing of the
whole book at once (`PackingIsOptimal`), and a forced pick with every optimal packing that
leaves it out (`ForcedHasNoRival`). CP-SAT is its result, any optimum, and is taken to finish
in its ten seconds.

### EventIngest, Inbox, MCEventIngest, EventIngest_proofs
Each handler thread goes through `handle` with a step per access of the shared `seen` and
`events`. Deliveries are chosen freely: new, repeated, mutated under an old id, forged,
unsigned, garbled. A demonstration (`AskDemo` to `EndDemo`) sets the secret when there is
none, numbers its four events by the length of the log and sends them through the same steps.
What a demonstration is told of its four cases is `demo[t].sent`; `DemonstrationIsReal` is about it
under every interleaving, and stronger where nothing overlaps.
`overlap` says whether handlers of this behaviour may overlap; when they do not, the log
implements `Inbox`, the sequential store the class comment describes: a delivery is judged
against the first on record under its key, and one that is refused is listed and weighs
nothing. Ids and bodies of the gateway are taken to be none of the demonstration's
(`evt_demo_...`), which the code expects of a gateway and does not enforce.

### ReviewDesk, AuditTrail
A handler reads the queue (`Receive`), computes its successor and publishes it (`Publish`)
or refuses (`Refuse`), and answers (`Reply`). `overlap` says whether requests of this
behaviour may overlap; the trail is implemented when they do not. `Follows` says what a
log makes of each item: its status, its reviewer, and where each action on it started. `Dashboard` composes the
desk with the screens, so its properties are checked and proved there.

### RunRegistry, RunRegistry_proofs
`_run` under the lock (`Acquire` to `Release`), `execute` inside it or inside a replay
without it (`CacheHit`, `CacheMiss`, `Compute`, `Register`, `Keep`), `_warm` (`WarmNext`,
`WarmOver`). An execution may raise (`ComputeFails`). A client may replay any id it was told of,
and those in `StaleIds`: a browser tab may have kept an id from an earlier process. `reexecuted` is
history: a replay has missed the cache, so that it executes beside whoever holds the lock.

### Exceptions, Posting, PeriodClose, MCPeriodClose, PeriodClose_proofs
`Exceptions` is `classify` with the severities and the money an answer leaves unexplained;
`Posting` is `decide` and `post`. `PeriodClose` follows the system pipeline of
`scripts/benchmark_evaluation.py`: the cascade runs (`Reconcile`), its findings are
classified (`ClassifyAll`) and judged (`JudgeAll`), the period is decided (`DecidePeriod`)
and certified (`IssueCertificate`); the journal (`WriteJournal`, `journal_view` of `api.py`)
may be written at any time after the judgements. `Rule` gives every blocking rule the
settlements it blocks. The price of an error is any member of `Prices`, or `Unmeasured`: the
risk model was measured on other portfolios. Every space the engine records is a reduced one
(the date window), so every proof raises `SEARCH_SPACE_UNCERTAIN`. The period is the whole
settlement file, and the journal is written under the costs of the close, as the screens do
by default; a proof's arithmetic is exact, so the rule that checks it is left out.

### RunScreens
The views of `attest/api.py` that answer from a finished run, as operators over the state of
`PeriodClose` (a view stores nothing, so it is no action): summary, rows, attention, spine,
activity, journal, decision, control loop, evidence, dock, export, evidence request; the
plan of `actions.py`; the certificate of one settlement. They are taken under the costs of
the run, as the screens are by default. A price is not kept in the state, so what a view
says of one is required of every price that leads to the recorded judgement.

### Readiness
The controller once more, over any books instead of those the cascade makes: several findings
and exceptions of one settlement, findings of settlements outside the period, settlements
without a finding, late ones, ones policy blocks, proofs whose arithmetic is off, an order
proven twice. `AssessExposure` is `exposure.py` with the first finding of a settlement standing for
it, ties by magnitude, and the disputed and the verified parts; `DecidePeriod` lists the
blockers in the order of the rules, with what each refers to. It is the module the simulator,
the lineage, the investigator and the queue build on.

### Simulator, Predictor
`Project` copies the books and does to the copy what `_evaluate_scenario_internal` does: drop
the resolved exceptions, give a settlement left without any a hypothetical proof, let policy
through, supply absent findings, harmonise several; then the controller decides. `Suite` and
`Recommended` are the standard suite and its choice. `Predictor` keeps the logit in ten
thousandths, so each test of a probability is a test of an integer.

### Lineage, Investigator, ReviewQueue
`Lineage` builds nodes and edges from the books and the verdict, `TraceBackward` and `TraceForward` close
under predecessors and successors, `Defects` is `validate_integrity`. `Investigator` is the deterministic
investigator: what its tools return, the early returns of `investigate` in order, and what
`validate_grounding` accepts. `ReviewQueue` is `compute_priority_score`.

### Dashboard, MCDashboard, Dashboard_proofs
`CreateState` decides the period; after that each request is an action that answers from the
state: simulate, compare scenarios, investigate, evidence, readiness, why-blocked,
materiality, or, for a behaviour that reviews, the desk. Analyses only read, and no analysis
reads the queue, so a behaviour asks for one or the other.

### Portfolio, Gateway
`Portfolio` makes one settlement of a case of the taxonomy: the walk day by day, the bundle,
the records that confuse it and the credit; `truth` is the generator's own record of what the
credit was made from. `Gateway` is a pull from the Razorpay endpoint page by page while rows
arrive in front, then the identities, the parsing and the composition of `normalise`. A raw
amount is a number of thousandths of a paisa or no number; the k-th order is the k-th row that
composes one (`NumberOf`, `RowOf`).

### Hypothesis, Agents, RunDiff, Measurement
`Hypothesis` runs the loop over the explanations of an ambiguous finding; the model may
propose any set of records and of ids no record has, the batch proposer proposes what the code does.
`Agents` is the chain of four stages and the roster. `RunDiff` withholds orders from a first
run, runs again with all of them and attributes the difference. `Measurement` is what
`metrics.py`, `harness.py`, `calibrate` and `simulate` count of the finding.

### Anchoring, MCAnchoring, Anchoring_proofs
One payout from source to agent: `FetchSynthetic` or `FetchRazorpay` and `Load`, the cascade,
then either a comparison with an earlier run, or the loop and a request. The properties relate
the two ends: the truth of the source to what the engine lists, the rows of the ledger to the
credit, an agent's permission to what the ledger would post.

## 4. Runs

| run | shows |
|---|---|
| Cascade | two settlements and four orders over three windows: disjoint claims, accounted spending, finished contradictions, no unrelated rival of a proof, abstentions that say all they claim to also with a core overlaid, an answer for each, and the refinement of `ClaimBook` |
| CascadeUnique | (violation) layer 2 proves a credit that two other orders explain as well |
| Propagation | three payouts, four orders: removal and deduction are sound against every consistent explanation of the book, nothing is posted; the packing of the book by components is optimal and what it forces has no rival |
| PropGuess | (violation) a capped list with one survivor is promoted to PROVEN |
| EventIngest | two threads, three deliveries, two demonstrations: no interleaving makes an unsigned body remembered or a demonstration's answers wrong; and, without overlap, the refinement of `Inbox` |
| EventTwice | (violation) two threads hold one event and its retry, and both were told to act on it |
| Dashboard | 1019 books of up to three settlements: the controller's verdict does not depend on the order of the input and names what it carries; simulations relieve nothing they did not touch and are monotone; blockers rank first and are traced; reports are grounded; the screens agree; the desk keeps its log under any interleaving and implements the trail without overlap |
| ReviewLost | (violation) two overlapping actions, one acknowledged record missing |
| RunRegistry | two clients, the warm-up, three requests, replays of any id: one execution per size until a replay executes beside the lock, replays that execute in one gap only, every request answered |
| PeriodClose | two payouts and four orders up to the certificate and the journal: the guards against a faulty engine stay silent, a period that closes lists what is left, and verdict, certificate, journal and the views of the run have one figure |
| JournalLost | (violation) a fee line below zero raises out of the loop that writes the journal |
| Anchoring | one payout from a synthetic case or a gateway's ledger to an agent's request: pulls are complete or say so, records count once, honest books list their truth, four readers of a finding agree, changes are attributed, anchors only choose, and what an agent may do the ledger would post |

Bounds and why they are enough. Two settlements are the fewest that compete and three
payouts the fewest that chain a deduction, or a component, through a third. In `Cascade`, nets
10, 15, 25 with credits 25 and 36 give a single match, a sum of two, sums within and just
outside the tolerance, ties, and a contradiction; capture days 4 and 8 put an order in the
tightest window or only in the widest. `MaxPool = 3` and `MaxEnum = 2` make four orders exceed
the envelope and the enumeration cap; the code's values (constants of `subsetsum.py`) appear
only as these constants. In `Propagation` the pool stays inside the envelope (`MaxPool = 4`), so a
packing over a search outside it is not exercised, while the cap on a list is.
`LargestFirst` in the MC modules names the orders by size, which loses nothing: ids matter only
for the place among ties, and ties stay in both orders through `Position`. Payouts are symmetric
in `Propagation` (they differ by credit and turn, both free) and threads in `EventIngest`;
neither run has a liveness property. `PeriodClose` has amounts for which each of these occurs: both
payouts booked; a carried ambiguity (36 from 32 with one of two 4s), a carried adjustment (36
against 32s), a contradiction with and without enough orders, a search outside the envelope
that is immaterial, and blocks by severity, by materiality, by an ambiguous amount and by policy
alone; its single capture day leaves the ladder to the run `Cascade`; `HighValue = 36` is a credit that
may be ambiguous.

For threads, two are the fewest that race; a third delivery lets a retry meet a mutation, and
two demonstrations number their events over one log. Where handlers may overlap `EventIngest`
has two requests in all. The warm-up makes the registry's third thread; `StaleIds = {1}` is the id every
process gives out first.

`Dashboard`'s books put each of two settlements in any of 26 situations (proven, proven and blocked by
policy, proof not postable, proven both to post and not to, ambiguous, contradicted, insufficient, never
looked at, two findings, findings that conflict, exceptions of each severity, late, not in the file) and
three in any of 7; the amounts are one settlement above the one percent threshold and two that are
immaterial together or not. A book stands still while requests are answered, so a run is as deep as one
request. Three review requests on one book are enough for a retry to meet another controller's action.
The amounts of the run never come near the point where money could lift an item over a blocker: it varies
ages and doubts, and `BlockersComeFirst` covers the amounts.

`Anchoring`: four records is the longest enumeration at these amounts in which a bundle of three has a
decoy; walks start on a Monday, a Thursday, a Saturday and a Sunday and take two or four business days,
which crosses a weekend in each way; 9 of the 15 cases are drawn, the others build the same records;
refunds, reversals and splits keep the code's proportions at small amounts. The 19 ledgers hold one row
or a few of each peculiarity (no amount, rounding up or down by a paisa, a twin, two names, none, half a
paisa, an unknown method, unreadable columns, not settled), pages of two rows, a pull that stops past the
second page, and one arrival, which may push a row over a page's border. `BandCap` is 1 for the code's
64, so that the ledger of two payments the gateway rounds up is a truth beyond the band. `MaxEnum = 3` is
met by the books with twins, `MaxRounds` of the loop is 2 for the code's 3 and is met when the model
keeps naming records that do not help.

Fairness. `run` is a plain loop, so `WF(Next)`. A server thread that has a request keeps
running, so the registry has `WF` of each thread's own steps; that a further request comes is
not assumed. `threading.Lock` promises no order among waiters: no strong fairness is assumed of
`Acquire`, and `EveryRequestIsAnswered` of the registry rests on requests being finitely
many (`MaxRequests`), not on the lock. The event log, the desk, the close, the dashboard and
`Anchoring` are checked for safety only and state no fairness of their own in these runs.
`CHECK_DEADLOCK FALSE`: every one of these systems stops when its input is used up.

## 5. Proofs

What holds here holds for every value of the constants under the named assumptions of the modules:

- finite sets of orders and settlements, distinct positions, integer amounts, ids that name one thing (a
  settlement is not "nobody", a thread is not the warm-up, a gateway's event is not a demonstration's),
  and rows whose raw amounts are integers of a thousandth of a paisa;
- `BooksAssumption`: the books of the dashboard are records of the code's types, with one exception to an
  id; what is found and what is in doubt is of a settlement filed or in the period; nothing stays
  unproven without an exception; and an exception that leaves more open than its settlement is worth is
  of high severity (`classify` and `_severity`);
- `PlainAssumption`, used for `ResolvingMoreIsSafe`: orders are numbered from one (a simulated proof gets
  an order of its own), a settlement that is proven is not both short and over, and one that is not filed
  has one finding and one exception at most;
- `AnchoringAssumption`: nets that no rounding of the whole file adds up to: of n records each at least
  3(n + 1) paise, so that an order more or less is worth more than the tolerance (the generator draws
  nothing below 9,900 paise, and parts that collide with a payout are a third of it at least); and of a
  gateway's payments, that they are worth more paise than there are records and are charged as the fee
  model charges them, to a paisa.

Some theorems state a hypothesis more. `BlockersComeFirst`: the ceiling on materiality is below
552,000,000 paise (`Outweighed`; the code's is 10,000,000). `OneSetOfFigures`: credits are amounts
received (the controller takes their absolute value, the views do not). Two say in their own words whom
they leave out: `TheTruthIsListed` a truth the payout exceeds by more than the search's band (64 paise at
most, which rounding over some sixty orders may come to), `BlockersAreTraced` a blocker about an order
proven twice. There is no bound on the number of orders, and none on the ids a client may replay. Each
inductive invariant was first checked by TLC on the run of its component, and each property is checked on
every state of the run that lists it.

`Amounts_proofs`. A sum over a finite set is unfolded by an argument from the smallest
counterexample, since induction takes an operator: were there a set whose sum goes wrong there
would be one with no such subset, and one member less refutes it. The rest are consequences: sums of
disjoint parts, of equal parts, of a difference, and sums of sums grouped by a key, which is what
figures by settlement, by reason or by verdict are.

`Cascade_proofs`. `SearchIsComplete` shows that the cuts lose nothing: of a set that fits, take the
shortest prefix (largest net first) that fits; no cut fires on the way to it, so it is reported.
`FoundIsAll` adds that a list within the cap, or a list of one, is everything. `CascadeInvariant` is the
inductive invariant behind the engine: types; the work list visits each settlement once; settlements not
yet reached are undecided; `spent` is the union of claims; claims are pairwise disjoint. Disjointness is
not inductive by itself: a new finding's claim is within its recorded pool, and the pool excludes what is
spent, which must therefore be known to contain every earlier claim. From it follow `TypeCorrect`,
`ClaimsAreDisjoint`, `SpentIsClaimed`, and, step by step, the refinement `CascadeIsAClaimBook`: a turn
that answers claims free orders for one settlement, every other step stutters. `SearchInvariant`
(`SearchInv`) says of each finding what the search behind it found among the members of its recorded
space, which is what later states still know of a pool since consumed. With the completeness of the
search it gives `ContradictionsAreFinished`, `ProofsHaveNoRival` and `AbstentionsTellAll`: an abstention,
rebuilt with a core or not, lists every set in reach when its flag says so and only then. Its steps rest
on `EngineOK`, the types alone, so that `Anchoring_proofs` can carry them over books the engine is
handed.

`Propagation_proofs`. The cascade's invariant survives every round
(`PropagationInvariant`): a rewritten finding has no search space and can claim nothing, and
only an AMBIGUOUS one, which claimed nothing, is rewritten. `PropagationIsNeutral`
follows. `EntailmentInvariant` is soundness against every consistent explanation of
the whole book: in each of them an owner deduced owns the order, and the explanation it gives a
settlement is still on the list if it ever was. Neither half is inductive without the other: a
deduction is right because the lists are, a removal because the owners are.
`NothingPossibleIsRemoved` and `DeducedOwnersAreEntailed` are the halves. `PackingOnlyNamesCores`
maps every step of the engine with the packing layer to one of the engine without, so the
theorems on propagation hold beside it, whatever the solver answers. `PackingIsOptimalAlways` rests on
`PackInv` (the packing is one of the results the groups of this book can give) and on an exchange:
groups that stand apart share no order, so the part of any packing within a group can be put in place of
the chosen part, and were the whole better some group's part would be. The sum over the groups is
again taken from the smallest counterexample. `ForcedPicksHaveNoRival` adds that a pick is forced
only where its list was complete, which leaves the cap nothing to hide.

`PeriodClose_proofs`. `CloseInvariant` adds to the cascade's invariant that a PROVEN finding is
postable (its proof is a non-empty set of candidates, so the recorded pool is not empty) and
that after classification every settlement has an exception. With the disjoint claims the two
guards block nothing (`GuardsNeverTrip`), and what is carried forward is every settlement, so
in particular each one without orders (`CarriedByName`). For `OneSetOfFigures` the invariant is
`ScreenIInv`: beside the close's, every finding is sound and faithful to its search, everyone is
answered once the cascade ended, and each stage of the close is a function of the one before it (classes
of findings, judgements of a price, one exposure behind verdict and certificate, a journal whole or lost).
Each view is then an identity between sums over the same settlements, grouped differently.

`Dashboard_proofs`. The state is simple (`DashInv`: the verdict is that of the books, the answer in
hand one the code gives over them); the work is in the operators.

- `CloseNamesWhatIsUnverified`: a settlement not verified in full has an exception, and a period that may
  close carries every exception.
- `SimulationWaivesNothing`: a hard blocker is a matter of the records it is about, and a scenario leaves
  those it did not act on as they were.
- `ResolvingMoreIsSafe`: with more resolved, each settlement either stands on its own simulated proof or
  keeps what was found for it with fewer exceptions. It is worth the same, at least as much of it is verified
  and no more is exposed, and the threshold is one, so sums and decision follow settlement by settlement.
- `OrderDoesNotDecide`: a second listing is an injection of findings onto findings with equal fields.
  The hard rules find the same records in any order; where none is broken the findings of a
  settlement agree, so whichever is listed first says the same. The net exposure is also equal
  as long as no settlement is proven both to post and not to.
- `BlockersComeFirst` bounds what age, impact and doubt can add to a score by what blocking adds.
  `ScreensAgreeAlways`, `ReportsCiteTheRecords` compare the screens and the reports with the books they
  are read from.
- `LineageAccountsForTheVerdict`: a trace is the least closed set, so what one edge after another
  reaches is in it and what a closed set without it shows is not; the chains for blockers are given
  rule by rule. Every blocker is about a settlement of the period and its trace comes there, but for one
  kind: of DUPLICATE_LEDGER_IMPACT, about an order, nothing is claimed, since the code draws it no cause.

Of the desk it composes: `DeskInvariant`, the published queue, and every copy a handler holds,
follows its own log. It is inductive because a handler publishes a successor of a queue it read; which
queue that was does not matter. Hence `PublishedQueueFollowsLog` under any interleaving. That no
record is lost needs requests that do not overlap (`AloneInvariant`: the copy at work is the queue
published); then `AcknowledgedIsKeptAlone`, which the run `ReviewLost` refutes without that
hypothesis, and the refinement `DeskIsAnAuditTrail`. `DashboardRunsTheDesk` carries both to the dashboard.

`RunRegistry_proofs`. `RegistryInvariant`, for any number of clients, sizes and requests and whatever ids
are replayed, has two parts. `AlwaysInv` holds through everything: types, what memo and caches keep for a
size is of that size, and so is what each thread has in its hands. `CalmInv` holds as long as
`reexecuted` is false: one thread is inside the lock, runs are numbered from one and no size twice, memo
and cache name the numbered run of their size, but for the one whose thread is about to keep it, what was
told is in the cache, and each thread is where its label says. That part is needed because nothing is
looked up a second time: a size is still absent from the cache when an execution ends because of the
lock, and a replay takes none. It finds what it was told of in the cache, so the one replay that breaks
the calm is of an id of an earlier process, between `_RUNS[rid] = r` and `_EXEC_CACHE[key] = r`: that is
`ReplaysRaceOnlyTheGap`. `EachSizeIsExecutedOnce` follows, the memo's half of it without the condition.

`EventIngest_proofs` has three invariants. `IngestInvariant` holds under any interleaving: the
gateway's secret never changes, one a demonstration set excludes the gateway's keys from `seen`,
and a handler past the signature holds a body the present secret signs. Hence
`NothingUnsignedIsSeen`. `RaceInvariant` says, under any interleaving, where a
demonstration stands after each of its cases: under its key `seen` holds nothing but its own first body, and a
case that was refused was refused because another demonstration had replaced the secret. So each case gets its
answer or a refusal (`DemonstrationsAreReal`).
`AloneInvariant` is for handlers that do not overlap: `seen` holds
under each key the digest of the first event on record, except between the steps of the one
handler at work. It gives the last conjunct of `DemonstrationsAreReal`, that the first case is accepted after
any history, and the refinement `IngestIsAnInbox`.

`Anchoring_proofs` follows a payout from its source.

- The pull: rows arrive in front, so the row that was k-th when the pull began is now `arrivals` further
  on, and what lay before the place reached was read when that place was passed (`PullInv`). A short last
  page then leaves nothing (`NoRowIsLost`). Named records and the rows that count are in bijection, so a
  record read on two pages counts once (`EveryRecordCountsOnce`, of ledgers whose records carry names of
  their own).
- The book: `BooksInv` collects the pull, the engine over any book (`RunInv`), the rows of the ledger,
  the walk (`WalkInv`), the one turn of the payout (`PlaceInv`), what the book was made of (`TruthInv`),
  and what the answer says of the search (`DecidedInv`). The walk's days are counted by an arithmetic
  formula for the weekend days between two dates, the invariant of the recursion on days, so it lands in
  every window that reaches its lag within the span. The truth is in such a window and within the band,
  so a prefix of it is listed, and that prefix is the whole: an order more or less is worth more than the
  tolerance. Hence `TheTruthIsNeverLost`, for any number of orders; a truth short of the payout by more
  than the band is left out by the property.
- The figures: PROVEN is postable, and what the explanations of an ambiguity agree on is strictly inside
  one of them, so exposure, ledger, simulation and benchmark count the same money (`FiguresAlwaysAgree`).
- Two runs: `DaysInv` says that each stopped where the search over its own file did. Explanations only
  grow with the pool, so the second stops at a rung no later than the first. A set without late orders
  that does not overshoot and is within the band was reported already in the first run, so an explanation
  the first did not have names a late order (`ChangesHaveTheirCause`).
- The loop and the request: `LoopInv`, what the loop promotes is the engine's abstention with one listed
  explanation picked out. `AnchorsAddNothing` follows with the completeness of the search, and
  `OnlyProofsArePermitted` because a finding the loop promoted records no search space, which the ledger
  refuses.

Only model-checked: the two liveness properties (`EverySettlementIsAnswered`, `EveryRequestIsAnswered`),
since fairness is out of the prover's reach. Every other property of the seven passing runs is proved.
The five runs that expect a violation are counterexamples and have nothing to prove. Constants, walks and
ledgers are bounded in the runs and not in the theorems. What a proof takes from outside is the meaning
of the modules: that they say what the code does is for a reader to compare (`map` in `PROJECT.json`).

## 6. Where code and documents disagree

Kept as runs, each with a finding in `PROJECT.json`: CascadeUnique, PropGuess, EventTwice,
ReviewLost, JournalLost. Seen while modelling and recorded here without a run of their own; for seven of
them the module holds the document's statement, and TLC refutes it when it takes the place of the
invariants of the run's configuration:

| statement | module | configuration | what TLC shows |
|---|---|---|---|
| `RefusedOnTheRecord`, `webhooks.py:247-249` | `EventIngest` | EventIngest.cfg | a rejection is overwritten by another thread's `replace_last` |
| `DemonstrationAsAnnounced`, `api.py:1092-1093` | `EventIngest` | EventIngest.cfg | the third case is answered replay_mismatch, not duplicate |
| `ReplayIsASeparateRecord`, `api.py:2711-2712` | `RunRegistry` | RunRegistry.cfg | a replay is answered with the run it replays, out of the cache |
| `OnePortfolioAtATime`, `web.py:250-255` | `RunRegistry` | RunRegistry.cfg | a replay of an id of an earlier process executes beside the lock's holder |
| `ConflictsAreLeftToTheCaller`, `evidence.py:84-86` | `Propagation` | Propagation.cfg (as a PROPERTY) | an order two settlements force in one round goes to the later one |
| `EveryBlockerHasACause`, `lineage.py:1006` | `Dashboard` | Dashboard.cfg | the trace of a blocker about an order is the blocker itself |
| `RejectionsAreNotProven`, `tests/test_adapter.py:323-325` | `Anchoring` | Anchoring.cfg | a row with an unreadable column is dropped from orders and total, and the rest is PROVEN |

Search and calendar:

- `verdict.py:13` CONTRADICTED "none does": the search band is one-sided (`subsetsum.py:173-177`), so two
  orders that net to one paisa more than the credit are accepted by the kernel and never found.
- The band is capped at 64 (`subsetsum.py:173`), a pool may hold 900 orders (`MAX_POOL`), and the kernel
  allows one paisa per order: a bundle of more than 64 that falls short by more than 64 paise is accepted
  by the kernel and not looked for. CONTRADICTED and "no rival" are therefore stated, and proved, of what
  is within the band (`InReach`), and `TheTruthIsListed` of a truth within it. The proof met the
  difference first; the run `Anchoring`, whose `BandCap` is 1, meets it in the ledger of two payments
  rounded up, which is contradicted.
- `searchspace.py:145-148` the amount ceiling loses "nothing true": it keeps `net <= credit` without
  tolerance (`blocking.py:100`), so an order one paisa over is turned away (`TheTruthIsListed` says so by
  asking for a payout that is no less than its orders; the ledger `Shaved` is one that is).
- `blocking.py:43-46` says that a capture on Saturday and one on the following Monday settle on one day;
  under the walk it is Friday, Saturday and Sunday that do, and the code is right.
- `partition.py:403-415`: the relaxation that is to force "a *different* conflict" contradicts the
  assumptions, which are all made again, so the same core refutes the next round and the search for
  further ones may end there. A forced pick looks at the lists of its neighbours and not at whether they
  were truncated; an ambiguous finding is overlaid a core even when its own list in the packing was cut
  or out of the envelope.

Propagation and hypotheses:

- `evidence.py:84-86`, the conflict of two settlements in one round: beside what the table shows, two
  settlements may be promoted in one round by the same order.
- `evidence.py:129-132` calls the bound on rounds a guard against a bug: a chain of nine
  payouts, each waiting for the one before, needs nine rounds and is cut off at eight.
- `blocking_study.py:231`, `pipeline.py:172-173`: a promoted finding carries no search space,
  so `Finding.postable` refuses it and nothing propagation or the loop proves is ever posted.
- `hypothesis.py` `falsify` does not look at `finding.exhaustive`: an anchor may choose among the
  explanations of a list that was cut. The loop is off by default and `investigate_view`
  discards its verdict.

Webhooks and runs:

- `webhooks.py:15-16` "a repeat of either is refused": a body without an id is keyed by its raw hash and
  digests are compared under an equal key only, so one payload in two renderings is accepted twice.
- Once a demonstration has set a secret, deliveries that were "unverifiable" become "bad_signature".
- `api.py:253`: ids are `len(_RUNS) + 1` taken before registration, and a replay is outside the lock.
  After a replay between `api.py:259` and `:260` has executed, two runs of a size are numbered and the
  memo may name an id that addresses the other one: `OneExecutionPerSize` promises this only until then
  (`reexecuted`).
- Two demonstrations that read the same length of the log make up the same id, so the first case of the
  later one is told duplicate (`api.py:1141`).

Close:

- `readiness.py:15-36` READY_TO_CLOSE: no period with a payout reaches it over this engine,
  since each proof raises an exception about its reduced space; a fully proven period is
  READY_WITH_CARRY_FORWARD with nothing unresolved.
- `readiness.py:72` "strictly below materiality": the test is `>` (`materiality.py:88`), so an
  exposure equal to the bound carries forward, as `materiality.py:78-79` says.
- `api.py:2466`, `:2484`: of a proof in a stratum without a measured rate `decision_view`
  compares and formats an expected loss of `None`, so the screen that is to show "WHY it was not"
  priced (lines 2502-2503) raises (`DecisionRaises`). The spine and the activity feed say "Journal entry
  written" from the judgement alone, also when the entry cannot be built; the portfolio's spine
  names a stage it stopped at even when everything posts.
- `api.py:961-962` the checks are "derived from the proof rather than asserted": "single assignment ... no
  order in this proof is claimed by another settlement" (lines 972-973) is the constant `True`. An
  ambiguous settlement consumes nothing, so a later one may take the very orders of all its explanations.
- `api.py` (`evidence_request`) and `exceptions.py:309-310`: a reference on any one contested order is
  said to be "enough to leave at most one" explanation; of {a,b}, {a,c}, {b,c} a reference to a leaves two.
- `readiness.py:553`: the material exposure of a blocked period that is not material sums over
  blockers, and one exception can stand behind two of them (a contradiction that is also of high
  severity), so its money is counted twice.
- `exposure.py` says the input order does not change the result; it changes which of two
  findings without a proof is listed and the gross figure, not the decision (`DecisionIgnoresOrder`).
- The sum of what the carried exceptions leave unexplained can be below the net exposure: an ambiguous
  finding counts its whole value, its exception names what is disputed. It can be above it too: the
  orders an ambiguous settlement disputes may be worth more than the settlement, so a material
  exception does not make the net exposure material.
- `exposure.py`: which finding stands for a settlement is the first one listed, so the net exposure
  of a settlement that is proven both to post and not to depends on the order of the input. The period
  is blocked either way.
- `certificate.py`: the conservation law is printed among the certificate's invariants and not
  evaluated; blocker ids are unique by reference and the reasons beside them are not, so the two
  lists can differ in length.

Dashboard and its parts:

- `dashboard.py:524-536` passes the bare id to `trace_backward`, while node ids are prefixed with their
  kind: the trace on the evidence screen is always empty (`tests/test_dashboard_api.py:159` asks only for
  the key).
- The threshold of the screens is taken of the settlement file, that of the verdict of the period
  (`ScreensAgree` asks for a file that is the period's). `can_close` is true for READY_TO_CLOSE only,
  though a carry-forward may close too. `unique_blocked_settlements` is 0 for a period blocked only by an
  exception of high severity.
- `simulator.py`: of a proven settlement with two exceptions of opposite sign, resolving one exposes what
  the other had offset: more resolved, more exposed. `ResolvingMoreNeverHurts` holds of books without
  such a pair (`Plain`), which `classify` does not make.
- `simulator.py`: the flag of CARRY_FORWARD_IMMATERIAL is read by nobody, an unknown type falls back to
  the baseline, and a wait resolves exceptions the predictor routes to MANUAL_AUDIT.
- The predictor's age of an exception is never passed (`simulator.py:648`, `dashboard.py:223`): every
  exception is new. `review_queue.py:561` calls `predict_resolution` with two positional arguments, which
  raises, so an item without a batch prediction cannot be queued.
- `lineage.py:552-558` links a bank line by whole words of its narration, the investigator by any
  occurrence; `lineage.py:809-811` looks for an order id among sentences and never finds one; two
  findings of one settlement share a node.

Sources and comparison:

- `razorpay.py:263-266`: the row with an unreadable column, in the table above. Rows without an identity
  are kept however often a page repeats them; rows that vanish between pages are missed without a
  warning. That the ledger is newest first is an assumption about the gateway.
- `generator.py`: the later payout of a split order is never made; a reversal may leave a credit of
  nothing or less.
- `whatchanged.py`: every space has the same integrity, so the cause that compares it never fires;
  CONTRADICTED to INSUFFICIENT is attributed to nothing; "order_left" may name an order that only fell
  outside a narrower window.
- `whatchanged.py` says a late order is named when the answer changed for it. Three ways it is not, met
  while proving `ChangesAreAttributed` and left out of it: a late order can make a sum reachable that
  lets the search walk on to an overshooting set of earlier orders (credit 100, orders of 60 and 41, a
  late 98: nothing yesterday, proven by layer 3 today, and nothing late is cited); a settlement
  INSUFFICIENT yesterday that is AMBIGUOUS today at a narrower rung is "reframed"; and today's list, cut
  at the cap, may hold none of the late orders when layer 2 proved the settlement yesterday.

## 7. Not modelled

`PROJECT.json` gives the reason per component. Presentation and catalogues (the pages and their wording,
claims read from files, rules, the graph drawing); statistics over many runs (the blocking study, the
adversarial suite, sweeps); what a library computes (CP-SAT, the language model), of which the models
take any result it may return; floating-point estimates and digests; the native kernel, compared with the
Python one by its own tests. Of modelled components: the lazy construction of the one ingest; the
memoised numeric code of the search; prompts, plans and the wording of reports; two payments of one order
and currencies other than the rupee in the gateway; the prediction screen.
