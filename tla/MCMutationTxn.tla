---------------------------- MODULE MCMutationTxn ----------------------------
(* Connections of one owner with a capital of 4. The keyed requests reuse a key *)
(* with the same and with another body and settle the bet they placed; the      *)
(* decision requests approve, reject and approve again while a direct bet        *)
(* competes for the cash and a snapshot creates the portfolio.                   *)
EXTENDS MutationTxn, TLC

CONSTANTS alice, p1, r1, b1, k1, k2

MCPolicy ==
    [maxStake |-> 50, coreBet |-> 1000, oppBet |-> 500, daily |-> 1000, game |-> 1000,
     team |-> 1000, market |-> 1000, correlated |-> 1000, reduced |-> 500, paused |-> 900, floor |-> 0,
     reducedFactor |-> 500, minStake |-> 1, parlay |-> 5, dailyParlay |-> 10]

Position(event) == [event |-> event, teams |-> {"home", "away"}, market |-> "spreads", side |-> "home"]

MCRow ==
    r1 :> [port |-> p1, kind |-> "straight", class |-> "CORE", stake |-> 2, slate |-> 1,
           legs |-> {Position("game")}]

Body(stake) == [stake |-> stake, slate |-> 1, legs |-> {Position("direct")}]

MCOrder == {Body(1), Body(3)}

MCPayout == {-3, -1, 2}

KeyedRequests ==
    {Place(alice, p1, Body(3), k1), Place(alice, p1, Body(1), k1), Place(alice, p1, Body(3), k2),
     Settle(alice, p1, b1, "loss", -3, k1)}

DecisionRequests ==
    {ApproveRec(alice, r1), RejectRec(alice, r1), Place(alice, p1, Body(3), NoKey),
     Place(alice, p1, Body(1), k1), Snapshot(alice, p1)}

MixedRequests ==
    {Place(alice, p1, Body(1), k1), Place(alice, p1, Body(3), k2), Snapshot(alice, p1),
     View(alice, p1), ApproveRec(alice, r1), RejectRec(alice, r1)}

SameOwnerRequests == {Place(alice, p1, Body(1), k1), Place(alice, p1, Body(1), k2), View(alice, p1)}

Interchangeable == Permutations(Session)
=============================================================================
