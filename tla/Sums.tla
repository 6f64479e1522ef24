---------------------------------- MODULE Sums ----------------------------------
(* The sums the portfolio code takes over rows: sum(... for bet in bets).          *)
EXTENDS Integers, FiniteSets, FiniteSetsExt

\* The total of w over the set S.
Total(w, S) == MapThenSumSet(LAMBDA x : w[x], S)
=============================================================================
