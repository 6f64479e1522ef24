-------------------------- MODULE MCPortfolioLedger --------------------------
(* A small bank for TLC: two principals, one shared key, capital of 4 that two  *)
(* bets of 3 overdraw, risk caps wide enough to let every accounting case       *)
(* happen.                                                                      *)
EXTENDS PortfolioLedger, TLC

CONSTANTS p1, p2, r1, r2

MCStartingCapital == 4

MCPolicy ==
    [maxStake |-> 50, coreBet |-> 1000, oppBet |-> 500, daily |-> 1000, game |-> 1000,
     team |-> 1000, market |-> 1000, correlated |-> 1000, reduced |-> 500, paused |-> 900, floor |-> 0,
     reducedFactor |-> 500, minStake |-> 1, parlay |-> 5, dailyParlay |-> 10]

Position(event, side) ==
    [event |-> event, teams |-> {"home", "away"}, market |-> "spreads", side |-> side]

MCRow ==
    r1 :> [port |-> p1, kind |-> "straight", class |-> "CORE", stake |-> 2, slate |-> 1,
           legs |-> {Position("game", "home")}]
    @@
    r2 :> [port |-> p2, kind |-> "straight", class |-> "OPPORTUNISTIC", stake |-> 1, slate |-> 1,
           legs |-> {Position("game", "away")}]

\* A stake of half a cent rounds to nothing: the body with stake 0.
MCOrder ==
    {[stake |-> s, slate |-> 1, legs |-> {Position("direct", "home")}] : s \in {0, 3}}

MCPayout == {-3, -2, -1, 0, 2}

Symmetric == Permutations(BetId)
=============================================================================
