-------------------------- MODULE SettlementCalendar --------------------------
(***************************************************************************)
(* The T+n settlement calendar of attest/blocking.py.  A day is a number;  *)
(* day 0 is a Monday, so day % 7 < 5 is date.weekday() < 5.                *)
(***************************************************************************)
EXTENDS Integers, FiniteSets

\* The span of blocking._capture_dates_for: how many days back it looks.
Span == 12

IsBusinessDay(d) == d % 7 < 5

\* The business days the forward walk counts on its way from c to d.
BusinessDaysAfter(c, d) == {x \in (c + 1) .. d : IsBusinessDay(x)}

\* Walking forward from c, the day on which the lag-th business day is
\* reached is d.  For lag > 0 the walk always stops on a business day.
Settles(c, d, lag) ==
  /\ IsBusinessDay(d)
  /\ Cardinality(BusinessDaysAfter(c, d)) = lag

Mut_IsCaptureDate(c, d, lag) ==      \* a hand-written inverse: weekends are lost
  c \in (d - Span) .. d /\ Settles(c, d, lag) /\ IsBusinessDay(c)

\* Membership of c in blocking._capture_dates_for(d, lag): the forward walk,
\* inverted over the span.
IsCaptureDate(c, d, lag) == c \in (d - Span) .. d /\ Settles(c, d, lag)
=============================================================================
