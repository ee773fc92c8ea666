------------------------------ MODULE MCAnchoring ------------------------------
\* A payout of up to four records, small enough to enumerate.  Day 0 is
\* a Monday; the walks start on a Monday, a Thursday, a Saturday and a Sunday.
EXTENDS Anchoring

MCOrders == 1 .. 4
MCPosition == [o \in MCOrders |-> o]
MCStarts == {14, 17, 19, 20}
MCZero == [o \in MCOrders |-> 0]

\* Rows of the gateway, by what is peculiar to them.
Row(name, gross, method) ==
  LET fee == FeePaise(gross, method)
  IN  [kind |-> "payment", own |-> name, entity |-> name, settled |-> TRUE,
       credit |-> Paise(NetPaise(gross, method)), debit |-> Paise(0),
       fee |-> Paise(fee), tax |-> Paise(TaxPaise(fee)),
       amount |-> Paise(gross), method |-> method]

Upi == Row("upi", 700, "upi")
Card == Row("card", 1025, "card")
Emi == [Row("emi", 5025, "emi") EXCEPT !.amount = Absent]
Twin == Row("twin", 700, "upi")
Ceiled == [Row("ceiled", 900, "wallet") EXCEPT !.credit.milli = @ + 1000]
Raised == [Row("raised", 1100, "wallet") EXCEPT !.credit.milli = @ + 1000]
Shaved == [Row("shaved", 500, "netbanking") EXCEPT !.credit.milli = @ - 1000]
Refund == [Row("refund", 0, "upi") EXCEPT !.kind = "refund", !.debit = Paise(300)]
Nameless ==
  [Row("", 0, "upi") EXCEPT !.kind = "adjustment", !.debit = Paise(40)]
TwoNames == [Row("two", 600, "upi") EXCEPT !.entity = "names"]
Halves == [Row("halves", 800, "upi") EXCEPT !.amount.milli = 800500]
Later == [Row("later", 400, "upi") EXCEPT !.method = "paylater"]
Garbled == [Row("garbled", 300, "upi") EXCEPT !.fee = Unreadable]
Pending == [Row("pending", 650, "netbanking") EXCEPT !.settled = FALSE]
Double == [Row("double", 1400, "upi") EXCEPT !.settled = FALSE]

MCLedgers ==
  {<<>>, <<Upi>>, <<Emi>>, <<Ceiled>>, <<Shaved>>, <<Pending>>, <<Ceiled, Raised>>,
   <<Upi, Card>>, <<Upi, Twin, Card>>, <<Card, Emi, Upi>>, <<Ceiled, Card, Twin, Upi>>,
   <<Card, Upi, Refund>>, <<Nameless, Upi, Card>>, <<TwoNames, Upi, Card>>,
   <<Halves, Upi>>, <<Later, Upi, Card>>, <<Garbled, Upi, Twin>>, <<Pending, Upi, Card>>, <<Upi, Double, Twin>>,
   <<Upi, Card, Emi, Twin, Ceiled>>}

MCArriving == {Twin, Refund}
=============================================================================
