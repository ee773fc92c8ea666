------------------------------- MODULE Anchoring -------------------------------
(***************************************************************************)
(* From a data source to an agent's request, for one payout: the synthetic *)
(* portfolio or a pull from the gateway becomes the engine's book, the     *)
(* cascade decides it, the hypothesis loop investigates what it could not  *)
(* decide (attest/eval/anchoring.py measure, api.investigate_view), and    *)
(* agents ask to act on either answer (api.agents_view).                   *)
(***************************************************************************)
EXTENDS RunDiff, Gateway, Agents, Measurement

CONSTANTS Requesters, Capabilities      \* who asks, and for what

\* A payment the gateway charges as the fee model does, to a paisa, and whose
\* paise are more than the records of the book: those of the source are worth
\* a rupee at least.
Ordinary(row) ==
  (row.kind = "payment" /\ ColumnsRead(row) /\ row.method \in DOMAIN FeeBps /\ Reads(Gross(row))) =>
    /\ OrderOf(row).net > Cardinality(Orders)
    /\ Magnitude(Amount(row.credit) - Amount(row.debit) - OrderOf(row).net) <= 1

\* Every row the gateway may serve.
Rows == (UNION {Range(rows) : rows \in Ledgers}) \cup Arriving

\* The generator draws no order below 9_900 paise, and of the two parts that
\* collide with a payout neither is less than a third of it.
ASSUME AnchoringAssumption ==
  /\ \A n \in Nets : n >= 3 * (Cardinality(Orders) + 1)
  /\ \A row \in Rows : Ordinary(row)

VARIABLE source            \* "none", then "synthetic" or "razorpay"

all == <<vars, walk, drawn, gateway, days, loopvars, attempt, source>>

AnchoringInit ==
  /\ NoBook /\ phase = "source" /\ source = "none"
  /\ WalkInit /\ GatewayInit /\ DaysInit /\ LoopInit /\ AgentsInit

rest == <<days, loopvars, attempt>>

WalkStep == phase = "source" /\ source = "none" /\ Step
            /\ UNCHANGED <<gateway, rest, source>>

\* SyntheticAdapter.fetch.
FetchSynthetic ==
  /\ source = "none" /\ Draw
  /\ source' = "synthetic"
  /\ UNCHANGED <<gateway, rest>>

\* RazorpayAdapter.fetch, for a payout the gateway dates as the walk does.
Reading == Connect \/ NotConnected \/ GetPage \/ PageFails \/ Arrive

FetchRazorpay ==
  /\ phase = "source" /\ moved = lag /\ lag = 2
  /\ source \in {"none", "razorpay"} /\ source' = "razorpay"
  /\ Reading
  /\ UNCHANGED <<vars, walk, drawn, rest>>

\* The snapshot handed to the engine.  Without a payout there is nothing to
\* reconcile.
Load ==
  /\ phase = "source" /\ source = "razorpay" /\ pull = "fetched"
  /\ LET snapshot == Normalised(items)
     IN  /\ Book([k \in DOMAIN snapshot.orders |-> Record(snapshot.orders[k].net, start)],
                 snapshot.net, day)
         /\ work' = IF snapshot.payout THEN work ELSE <<>>
         /\ truth' = {k \in DOMAIN snapshot.orders : snapshot.orders[k].linked}
         /\ warned' = snapshot.warnings
  /\ UNCHANGED <<walk, family, rest, source, ledger, arrivals, asked, items, skip, pull>>

Reconcile == Next /\ UNCHANGED <<walk, drawn, gateway, rest, source>>

\* `--changed`: the portfolio is run a second time.
Compare == source = "synthetic" /\ (Withhold \/ RunAgain)
           /\ UNCHANGED <<walk, drawn, gateway, loopvars, attempt, source>>

\* `measure` and the screens, over one run.
Loop == late = {} /\ (Investigate \/ AskModel \/ AskBatch)
        /\ UNCHANGED <<walk, drawn, gateway, days, attempt, source>>

Ask == Request(Requesters, Capabilities)
       /\ UNCHANGED <<walk, drawn, gateway, days, source>>

AnchoringNext ==
  WalkStep \/ FetchSynthetic \/ FetchRazorpay \/ Load \/ Reconcile
  \/ Compare \/ Loop \/ Ask

AnchoringSpec == AnchoringInit /\ [][AnchoringNext]_all

-----------------------------------------------------------------------------
(* Properties *)

Distinct == {row \in Range(items) : ColumnsRead(row) /\ ~Conflicted(row)}

\* Every record of them has a name, and no other record read has it: what came
\* twice is the same record, read on two pages.
Identified ==
  \A row \in Distinct :
    /\ NamesOf(row) # {}
    /\ \A other \in Range(items) :
         (other.kind = row.kind /\ NamesOf(other) = NamesOf(row)) => other = row

\* A record the source asserts once is counted once: however pages overlapped,
\* the payout the engine must explain is the sum over the distinct records
\* read, and every one of them that is a payment is one order (ADAPTER-001).
CountedOnce ==
  (source = "razorpay" /\ phase # "source" /\ Identified) =>
    /\ credit[Payout] = Total([row \in Distinct |-> Amount(row.credit) - Amount(row.debit)],
                              {row \in Distinct : row.settled})
    /\ Cardinality(truth) <= Cardinality({row \in Distinct : row.kind = "payment"})

\* "Dropping the credit as well would shrink the target until the surviving
\* orders could explain it exactly, turning a read failure into a PROVEN verdict.
\* That is the one outcome a reader must never produce."
\* (tests/test_adapter.py:323-325): a payout is not proven when a row of it was
\* rejected.  No run asks for it: of a row whose credit or fee cannot be read the
\* code drops the credit as well, and the rest proves the smaller payout.
RejectionsAreNotProven ==
  (source = "razorpay" /\ phase # "source" /\ \E i \in Rejected(items) : items[i].settled)
    => findings[Payout].verdict # "PROVEN"

\* The payout is made of records that are shown, and of nothing else; others
\* may be shown beside them.
HonestRow(row) ==
  /\ row.kind = "payment"
  /\ NamesOf(row) # {} /\ ~Conflicted(row) /\ ColumnsRead(row)
  /\ row.method \in DOMAIN FeeBps /\ Reads(Gross(row))

Honest ==
  CASE source = "synthetic" -> family \notin Tampered
    [] source = "razorpay" -> \A row \in Range(items) : HonestRow(row)
    [] OTHER -> FALSE

\* Books that hold the truth are never contradicted, and a search that was
\* finished lists it: nothing between the source's calendar, fees and pages and
\* the engine's windows, ceilings and cuts loses the orders a payout was made
\* from, as long as they do not net to more than it, nor to less by more than the
\* search opens its band for (subsetsum.py:173-176: 64 paise).
TheTruthIsListed ==
  LET f == findings[Payout]
  IN  (Honest /\ f.verdict # "UNDECIDED" /\ truth \subseteq Recorded
        /\ Residual(net, truth, credit[Payout]) \in 0 .. BandCap) =>
        /\ f.verdict # "CONTRADICTED"
        /\ (f.layer = "L3-dp" /\ f.exhaustive) => truth \in f.proofs

\* The figures of the benchmark hang together, whoever computes them, and a
\* false proof over a book that holds its truth is an answer of layer 2, which
\* looks for no rival (metrics.py: the only number that moves money in the
\* wrong direction).
FiguresAgree ==
  LET f == findings[Payout]
  IN  (phase # "source" /\ f.verdict # "UNDECIDED") =>
        \A price \in Prices :
          /\ SameStory(f, price)
          /\ NothingCountedTwice(f, price)
          /\ WithinTheCeiling(f)
          /\ (/\ Honest /\ truth \subseteq Recorded
              /\ Residual(net, truth, credit[Payout]) \in 0 .. BandCap
              /\ Measured(f, price).false_proof)
             => f.layer = "L2-single"
=============================================================================
