-------------------------- MODULE MCDecisionEngine --------------------------
(* The default risk policy on a capital of 200. The books: nothing open; a       *)
(* direct bet on one team; an open parlay of the slate; a drawdown of an eighth; *)
(* nearly all cash in one direct bet on another day; a drawdown that pauses. Five*)
(* candidates: two opposing, two in one game, three of one market.               *)
EXTENDS DecisionEngine, TLC

CONSTANTS main, b1

MCPolicy ==
    [maxStake |-> 50, coreBet |-> 20, oppBet |-> 10, daily |-> 80, game |-> 40,
     team |-> 50, market |-> 50, correlated |-> 40, reduced |-> 100, paused |-> 200, floor |-> 500,
     reducedFactor |-> 500, minStake |-> 1, parlay |-> 5, dailyParlay |-> 10]

TeamsOf(event) == {<<event, 1>>, <<event, 2>>}

Leg(event, market, side) ==
    [event |-> event, market |-> market, side |-> side, teams |-> TeamsOf(event)]

Core(leg) == [leg |-> leg, class |-> "CORE", adjusted |-> 30]

C1 == Core(Leg("g1", "spreads", "home"))
C2 == Core(Leg("g1", "totals", "over"))
C3 == Core(Leg("g1", "spreads", "away"))
C4 == Core(Leg("g2", "spreads", "home"))
C5 == [leg |-> Leg("g3", "spreads", "away"), class |-> "OPPORTUNISTIC", adjusted |-> 15]

MCCandidate == {C1, C2, C3, C4, C5}

MCOffer ==
    {[legs |-> {C1, C4}, fraction |-> 8], [legs |-> {C2, C4, C5}, fraction |-> 8]}

Bet(kind, stake, slate, legs, status, pnl) ==
    [port |-> main, kind |-> kind, stake |-> stake, slate |-> slate, legs |-> legs,
     status |-> status, pnl |-> pnl]

Direct(team) == [event |-> "provider", market |-> "h2h", side |-> team, teams |-> {team}]

Opening(bets0, order0, cash0) == [port |-> main, bets |-> bets0, order |-> order0, cash |-> cash0]

MCBook ==
    {Opening(<<>>, <<>>, 200),
     Opening(b1 :> Bet("straight", 6, 1, {Direct(<<"g1", 1>>)}, "open", 0), <<>>, 194),
     Opening(b1 :> Bet("parlay", 1, 1, {C1.leg, C4.leg}, "open", 0), <<>>, 199),
     Opening(b1 :> Bet("straight", 25, 0, {Direct(<<"g4", 1>>)}, "lost", -25), <<b1>>, 175),
     Opening(b1 :> Bet("straight", 195, 0, {Direct(<<"g4", 1>>)}, "open", 0), <<>>, 5),
     Opening(b1 :> Bet("straight", 50, 0, {Direct(<<"g4", 1>>)}, "lost", -50), <<b1>>, 150)}
=============================================================================
