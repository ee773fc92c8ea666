---------------------------- MODULE MCPeriodClose ----------------------------
\* A small period: four orders, two payouts.
EXTENDS RunScreens

CONSTANTS a, b, c, d

MCPosition == [o \in Orders |-> CASE o = a -> 1 [] o = b -> 2 [] o = c -> 3 [] OTHER -> 4]

\* b was paid by UPI, which is free; the others cost two paise, one of tax.
MCCharge == [o \in Orders |-> IF o = b THEN 0 ELSE 3]
MCFee == [o \in Orders |-> IF o = b THEN 0 ELSE 2]
MCTax == [o \in Orders |-> IF o = b THEN 0 ELSE 1]
=============================================================================
