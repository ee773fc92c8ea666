-------------------------------- MODULE Gateway --------------------------------
(***************************************************************************)
(* The gateway's recon endpoint as attest/adapters/razorpay.py reads it:   *)
(* pages of a ledger that may grow while it is read, put together and      *)
(* normalised into the engine's records (attest/adapters/money.py and the  *)
(* fee model of attest/model.py).  The ledger is the gateway's: newest     *)
(* row first, and a row that arrives pushes the others down a place.       *)
(***************************************************************************)
EXTENDS Integers, Sequences, FiniteSets, Functions
Ext == INSTANCE FiniteSetsExt

CONSTANTS
  Ledgers,      \* the ledgers the gateway may hold when a pull begins
  Arriving,     \* rows that may be added while it is read
  MaxArrivals,  \* bound on those
  PageSize,     \* `page`, 1_000 in the code
  MaxSkip       \* the 100_000 of fetch

\* A raw amount is a number of thousandths of a paisa, or no number at all.
RawAmounts == [number : BOOLEAN, milli : Int]

\* A row of the recon endpoint.
RowType ==
  [kind : STRING, own : STRING, entity : STRING, settled : BOOLEAN,
   credit : RawAmounts, debit : RawAmounts, fee : RawAmounts, tax : RawAmounts,
   amount : RawAmounts, method : STRING]

ASSUME GatewayAssumption ==
  /\ PageSize \in Nat \ {0} /\ MaxSkip \in Nat /\ MaxArrivals \in Nat
  /\ Ledgers \subseteq Seq(RowType) /\ Arriving \subseteq RowType

VARIABLES
  ledger,     \* the gateway's rows
  arrivals,   \* how many of them came during the pull
  asked,      \* the rows it had when the pull began
  items,      \* rows read so far
  skip,
  warned,     \* the snapshot's warnings
  pull        \* "idle", "pulling", "fetched", "failed" (an exception, no snapshot)

gateway == <<ledger, arrivals, asked, items, skip, warned, pull>>

GatewayInit ==
  /\ ledger = <<>> /\ arrivals = 0 /\ asked = <<>>
  /\ items = <<>> /\ skip = 0 /\ warned = {} /\ pull = "idle"

-----------------------------------------------------------------------------
(* The pull *)

\* Credentials are set: NotConnected is not raised.
Connect ==
  /\ pull = "idle"
  /\ ledger' \in Ledgers
  /\ asked' = ledger' /\ pull' = "pulling"
  /\ UNCHANGED <<arrivals, items, skip, warned>>

NotConnected ==
  /\ pull = "idle" /\ pull' = "failed"
  /\ UNCHANGED <<ledger, arrivals, asked, items, skip, warned>>

\* The page the endpoint serves at `skip`.
Batch == SubSeq(ledger, skip + 1, Ext!Min({skip + PageSize, Len(ledger)}))

Mut_GetPage ==                   \* the pull stops at the cap and says nothing
  /\ pull = "pulling"
  /\ items' = items \o Batch
  /\ skip' = IF Len(Batch) < PageSize THEN skip ELSE skip + PageSize
  /\ pull' = IF Len(Batch) < PageSize \/ skip' > MaxSkip THEN "fetched" ELSE "pulling"
  /\ UNCHANGED <<ledger, arrivals, asked, warned>>

\* One turn of fetch's loop: on to the next page until a short one arrives.
GetPage ==
  /\ pull = "pulling"
  /\ items' = items \o Batch
  /\ skip' = IF Len(Batch) < PageSize THEN skip ELSE skip + PageSize
  /\ warned' = IF skip' > MaxSkip THEN {"truncated"} ELSE {}
  /\ pull' = IF Len(Batch) < PageSize \/ skip' > MaxSkip THEN "fetched" ELSE "pulling"
  /\ UNCHANGED <<ledger, arrivals, asked>>

\* _get raises: nothing of what was read is kept.
PageFails ==
  /\ pull = "pulling" /\ pull' = "failed"
  /\ items' = <<>>
  /\ UNCHANGED <<ledger, arrivals, asked, skip, warned>>

Arrive ==
  /\ pull = "pulling" /\ arrivals < MaxArrivals
  /\ \E row \in Arriving \ Range(ledger) : ledger' = <<row>> \o ledger
  /\ arrivals' = arrivals + 1
  /\ UNCHANGED <<asked, items, skip, warned, pull>>

-----------------------------------------------------------------------------
(* Amounts *)

Paise(n) == [number |-> TRUE, milli |-> 1000 * n]
Unreadable == [number |-> FALSE, milli |-> 0]
Absent == [number |-> FALSE, milli |-> -1]

\* parse_amount: exactly, or not at all.
Reads(raw) == raw.number /\ raw.milli >= 0 /\ raw.milli % 1000 = 0
Amount(raw) == raw.milli \div 1000

RoundHalfUp(n, d) == (n + d \div 2) \div d

\* FEE_BPS of METHOD_MAP's methods, `emi` being a card.
FeeBps == [upi |-> 0, card |-> 200, emi |-> 200, netbanking |-> 150, wallet |-> 250]
FeePaise(gross, method) == RoundHalfUp(gross * FeeBps[method], 10000)
TaxPaise(fee) == RoundHalfUp(fee * 1800, 10000)
NetPaise(gross, method) ==
  LET fee == FeePaise(gross, method) IN gross - fee - TaxPaise(fee)

-----------------------------------------------------------------------------
(* normalise *)

\* The names a row gives itself: a payment and a refund have one of their own
\* beside the entity id.
NamesOf(row) ==
  (IF row.kind \in {"payment", "refund"} THEN {row.own, row.entity} ELSE {row.entity}) \ {""}

\* IdentityConflict: it names itself twice, differently.
Conflicted(row) == Cardinality(NamesOf(row)) > 1

Mut_Kept(rows) == {i \in DOMAIN rows : ~Conflicted(rows[i])}    \* no deduplication

\* The first row of every (type, identity), and every row that has none.
Kept(rows) ==
  {i \in DOMAIN rows :
     /\ ~Conflicted(rows[i])
     /\ NamesOf(rows[i]) # {} =>
          ~\E j \in 1 .. (i - 1) : /\ rows[j].kind = rows[i].kind
                                   /\ NamesOf(rows[j]) = NamesOf(rows[i])}

\* The settlement columns; an absent one is 0.
Columns(row) == {row.credit, row.debit, row.fee, row.tax}
ColumnsRead(row) == \A raw \in Columns(row) : Reads(raw)

\* Rows that count towards the payout.
Counted(rows) == {i \in Kept(rows) : ColumnsRead(rows[i])}

\* `amount`, or what the columns add up to when the source leaves it out.
Gross(row) ==
  IF row.amount = Absent
  THEN Paise(Amount(row.credit) + Amount(row.fee) + Amount(row.tax)) ELSE row.amount

\* Rows that become orders: payments of a known method, read exactly.
Composing(rows) ==
  {i \in Counted(rows) :
     /\ rows[i].kind = "payment"
     /\ rows[i].method \in DOMAIN FeeBps
     /\ Reads(Gross(rows[i]))}

\* What a row brings in.
BroughtIn(rows) ==
  [i \in DOMAIN rows |-> Amount(rows[i].credit) - Amount(rows[i].debit)]

\* The settlement's net, over the rows that carry its id.
SettlementNet(rows) ==
  Ext!MapThenSumSet(LAMBDA i : BroughtIn(rows)[i], {i \in Counted(rows) : rows[i].settled})

Duplicates(rows) ==
  Cardinality({i \in DOMAIN rows : ~Conflicted(rows[i])} \ Kept(rows))

\* Conflicting names, columns or an amount that cannot be read exactly.
Rejected(rows) ==
  {i \in DOMAIN rows :
     \/ Conflicted(rows[i])
     \/ i \in Kept(rows) \ Counted(rows)
     \/ /\ i \in Counted(rows) \ Composing(rows)
        /\ rows[i].kind = "payment" /\ rows[i].method \in DOMAIN FeeBps}

UnknownMethods(rows) ==
  {i \in Counted(rows) : rows[i].kind = "payment" /\ rows[i].method \notin DOMAIN FeeBps}

OrderOf(row) ==
  [net |-> NetPaise(Amount(Gross(row)), row.method), linked |-> row.settled]

\* Orders are numbered as the rows came.
NumberOf(rows, i) == Cardinality({j \in Composing(rows) : j <= i})
RowOf(rows, k) == rows[CHOOSE i \in Composing(rows) : NumberOf(rows, i) = k]

\* The snapshot of what was read.
Normalised(rows) ==
  [orders |-> [k \in 1 .. Cardinality(Composing(rows)) |-> OrderOf(RowOf(rows, k))],
   payout |-> \E i \in Counted(rows) : rows[i].settled,
   net |-> SettlementNet(rows),
   warnings |-> warned
     \cup (IF Duplicates(rows) > 0 THEN {"duplicates"} ELSE {})
     \cup (IF Rejected(rows) # {} THEN {"rejected"} ELSE {})
     \cup (IF UnknownMethods(rows) # {} THEN {"methods"} ELSE {})]

-----------------------------------------------------------------------------
(* Properties *)

\* A pull that ends without saying it was cut short holds every row the
\* gateway had when it began, however many arrived meanwhile (fetch: "a partial
\* pull is surfaced as a warning rather than silently truncated").
CompleteOrWarned ==
  (pull = "fetched" /\ "truncated" \notin warned) => Range(asked) \subseteq Range(items)
=============================================================================
