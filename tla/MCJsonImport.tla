----------------------------- MODULE MCJsonImport -----------------------------
(* Files of one prototype: a portfolio whose bankroll agrees with its bets, the *)
(* same portfolio grown by a bet and with the first one settled, and a file of  *)
(* two portfolios that share a bet's identifier and whose bankroll does not     *)
(* follow from the bets.                                                      *)
EXTENDS JsonImport, TLC

Legacy(id, stake, result, payout) == [id |-> id, stake |-> stake, result |-> result, payout |-> payout]

LegacyFirst == Legacy("b1", 2, Unset, 0)

MCFiles ==
    {"p1" :> [bankroll |-> 8, bets |-> <<LegacyFirst>>],
     "p1" :> [bankroll |-> 9, bets |-> <<Legacy("b1", 2, "win", 1), Legacy("b2", 3, "loss", -3),
                                         Legacy("b2", 1, Unset, 0), Legacy("b3", 0, Unset, 0)>>],
     "p1" :> [bankroll |-> 7, bets |-> <<LegacyFirst>>]
       @@ "p2" :> [bankroll |-> 12, bets |-> <<Legacy("b1", 4, "push", 0), Legacy("b4", 1, Unset, 0)>>]}
=============================================================================
