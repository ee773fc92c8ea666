------------------------------- MODULE Portfolio -------------------------------
(***************************************************************************)
(* The synthetic source, attest/generate/generator.py, one settlement at a *)
(* time: the forward walk over the settlement calendar, day by day (the    *)
(* loop blocking._capture_dates_for inverts), then the bundle, the records *)
(* that confuse it, and the credit of the family drawn.  The cascade then  *)
(* reconciles what was built.                                              *)
(***************************************************************************)
EXTENDS Cascade

CONSTANTS
  Starts,       \* capture dates drawn
  Lags,         \* business-day lags walked: the generator's two
  Cases,        \* families of taxonomy.py drawn from
  MaxBundle,    \* bound on the orders of a bundle
  LeastRefund, MostRefund,   \* the 5_000 and 150_000 of a refund offset
  ReversalAge   \* days between a reversed order and the payout, 14 to 30

\* The families of taxonomy.Case, by what they do to the records: to the
\* credit, to the order file, to the calendar, to the amounts, or to nothing
\* the engine's arithmetic reads.
Tampered == {"refund_offset", "chargeback_reversal", "split_order", "orphan_settlement"}
Crowded == {"ambiguous_subset", "orphan_order"}
Plain == {"clean", "missing_ref", "bundle_large", "month_boundary", "narration_garble",
          "name_variant", "mixed_method"}
Families == Tampered \cup Crowded \cup Plain \cup {"timing_gap", "duplicate_amount"}

ASSUME PortfolioAssumption ==
  /\ Orders = 1 .. Cardinality(Orders) /\ Cardinality(Settlements) = 1
  /\ Starts \subseteq Nat /\ Lags \subseteq Nat \ {0} /\ {2, 4} \subseteq Lags
  /\ Cases \subseteq Families /\ MaxBundle \in Orders
  /\ LeastRefund \in Nat /\ MostRefund \in Nat /\ ReversalAge \in 14 .. 30

VARIABLES
  start, lag, day, moved,   \* the walk under way
  family,                   \* the case drawn, "none" before
  truth                     \* the orders the credit was made from

walk == <<start, lag, day, moved>>
drawn == <<family, truth>>

Payout == CHOOSE s \in Settlements : TRUE

\* No record names an order whose net is 0: it is in no pool.
NoBook ==
  /\ net = [o \in Orders |-> 0] /\ capturedOn = [o \in Orders |-> 0]
  /\ credit = [s \in Settlements |-> 0] /\ settledOn = [s \in Settlements |-> 0]
  /\ work = <<Payout>> /\ turn = 1 /\ rung = 0 /\ spent = {}
  /\ findings = [s \in Settlements |-> Undecided]

WalkInit ==
  /\ start \in Starts /\ lag \in Lags
  /\ day = start /\ moved = 0
  /\ family = "none" /\ truth = {}

\* One turn of the loop: the next day, counted when it is a business day.
Step ==
  /\ moved < lag
  /\ day' = day + 1
  /\ moved' = IF IsBusinessDay(day + 1) THEN moved + 1 ELSE moved
  /\ UNCHANGED <<start, lag, drawn, vars>>

LagOf(c) == IF c = "timing_gap" THEN 4 ELSE 2

\* The nets of a bundle; duplicate_amount starts with twins.
Bundles(c) ==
  {f \in UNION {[1 .. k -> Nets] : k \in 1 .. MaxBundle} :
     c = "duplicate_amount" => {1, 2} \subseteq DOMAIN f /\ f[1] = f[2]}

Record(n, on) == [net |-> n, on |-> on]

\* What the family makes of a bundle: the records beside it and the credit.
\* _collide is bounded to two parts.
Made(c, f) ==
  LET total == Total(f, DOMAIN f)
  IN  CASE c = "refund_offset" ->
             {[extra |-> <<>>, credit |-> total - x] :
                x \in {y \in LeastRefund .. (MostRefund - 1) : y < total \div 3}}
        [] c = "chargeback_reversal" ->
             {[extra |-> <<Record(n, start - ReversalAge)>>, credit |-> total - n] : n \in Nets}
        [] c = "split_order" ->
             {[extra |-> <<>>, credit |-> total - f[Cardinality(DOMAIN f)] \div 2]}
        [] c = "orphan_settlement" ->
             {[extra |-> <<>>, credit |-> total + n] : n \in Nets}
        [] c = "ambiguous_subset" ->
             {[extra |-> <<Record(x, start), Record(total - x, start)>>, credit |-> total] :
                x \in (total \div 3) .. (total \div 2 - 1)}
        [] c = "orphan_order" ->
             {[extra |-> <<Record(n, start)>>, credit |-> total] : n \in Nets}
        [] OTHER -> {[extra |-> <<>>, credit |-> total]}

\* The records, numbered in the order they were made: the order file.
Book(records, paid, on) ==
  /\ net' = [o \in Orders |-> IF o \in DOMAIN records THEN records[o].net ELSE 0]
  /\ capturedOn' = [o \in Orders |-> IF o \in DOMAIN records THEN records[o].on ELSE 0]
  /\ credit' = [s \in Settlements |-> paid]
  /\ settledOn' = [s \in Settlements |-> on]
  /\ phase' = "cascade"
  /\ UNCHANGED <<turn, rung, spent, findings>>

\* One turn of build(), once the payout date is known.
Draw ==
  /\ phase = "source" /\ moved = lag
  /\ \E c \in Cases :
       /\ lag = LagOf(c)
       /\ family' = c
       /\ \E f \in Bundles(c) : \E made \in Made(c, f) :
            LET size == Cardinality(DOMAIN f)
            IN  /\ size + Len(made.extra) <= Cardinality(Orders)
                /\ Book([i \in 1 .. size |-> Record(f[i], start)] \o made.extra,
                        made.credit, day)
                /\ truth' = DOMAIN f
  /\ UNCHANGED <<walk, work>>
=============================================================================
