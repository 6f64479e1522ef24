--------------------------- MODULE MCApprovalRisk ---------------------------
(* The portfolio under the repository's default risk policy: capital 200, two   *)
(* games, recommendations at the CORE cap of 4 that together pass the game and  *)
(* market caps, one that opposes another, a parlay over two of them, and a      *)
(* direct bet of 40 whose loss pauses the portfolio and whose win raises the    *)
(* peak.                                                                        *)
EXTENDS PortfolioLedger, TLC

CONSTANTS main, r1, r2, r3, r4, r5

MCPolicy ==
    [maxStake |-> 50, coreBet |-> 20, oppBet |-> 10, daily |-> 80, game |-> 40,
     team |-> 50, market |-> 50, correlated |-> 40, reduced |-> 100, paused |-> 200, floor |-> 500,
     reducedFactor |-> 500, minStake |-> 1, parlay |-> 5, dailyParlay |-> 10]

Position(event, market, side) ==
    [event |-> event, market |-> market, side |-> side,
     teams |-> IF event = "g1" THEN {"ann", "ben"} ELSE {"cal", "dee"}]

Straight(leg) ==
    [port |-> main, kind |-> "straight", class |-> "CORE", stake |-> 4, slate |-> 1, legs |-> {leg}]

MCRow ==
       r1 :> Straight(Position("g1", "spreads", "home"))
    @@ r2 :> Straight(Position("g1", "totals", "over"))
    @@ r3 :> Straight(Position("g1", "spreads", "away"))
    @@ r4 :> Straight(Position("g2", "spreads", "home"))
    @@ r5 :> [port |-> main, kind |-> "parlay", class |-> "OPPORTUNISTIC", stake |-> 1, slate |-> 1,
              legs |-> {Position("g1", "spreads", "home"), Position("g2", "spreads", "home")}]

\* A direct bet names its game by the provider's id, never by the canonical one.
MCOrder ==
    {[stake |-> 40, slate |-> 1,
      legs |-> {[event |-> "provider-g1", market |-> "h2h", side |-> "ann", teams |-> {"ann", "ben"}]}]}

MCPayout == {-40, -4, -1, 50}

Symmetric == Permutations(BetId)
=============================================================================
