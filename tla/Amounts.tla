------------------------------- MODULE Amounts -------------------------------
(***************************************************************************)
(* Sums of paise and their size, as the engine and the close controller    *)
(* take them: abs() and sum() over whole amounts, which Python does not    *)
(* bound.                                                                  *)
(***************************************************************************)
EXTENDS Integers, FiniteSets
Sets == INSTANCE FiniteSetsExt

Magnitude(n) == IF n < 0 THEN -n ELSE n

\* What a finite set of things comes to; worth gives each of them its amount.
Total(worth, S) == Sets!MapThenSumSet(LAMBDA o : worth[o], S)
=============================================================================
