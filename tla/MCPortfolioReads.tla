--------------------------- MODULE MCPortfolioReads ---------------------------
(* One portfolio with a capital of 10, direct bets of 4, a recommendation of 1,  *)
(* wins of 2, losses and pushes, and one reader.                                *)
EXTENDS PortfolioReads, TLC

CONSTANTS main, r1

MCPolicy ==
    [maxStake |-> 50, coreBet |-> 500, oppBet |-> 100, daily |-> 1000, game |-> 1000,
     team |-> 1000, market |-> 1000, correlated |-> 1000, reduced |-> 200, paused |-> 300,
     floor |-> 500, reducedFactor |-> 500, minStake |-> 1, parlay |-> 5, dailyParlay |-> 10]

ALeg == [event |-> "g1", market |-> "spreads", side |-> "home", teams |-> {"ann", "ben"}]

MCRow ==
    r1 :> [port |-> main, kind |-> "straight", class |-> "CORE", stake |-> 1, slate |-> 1,
           legs |-> {ALeg}]

MCOrder == {[stake |-> 4, slate |-> 1, legs |-> {[ALeg EXCEPT !.event = "provider-g1"]}]}

MCPayout == {-4, -1, 0, 2}

Symmetric == Permutations(BetId)
=============================================================================
