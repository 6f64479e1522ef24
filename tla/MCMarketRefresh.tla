--------------------------- MODULE MCMarketRefresh ---------------------------
(* Two callers on two servers; a slate with an early and a late game, and a later *)
(* slate of one game.                                                           *)
EXTENDS MarketRefresh, TLC

MCKickoffs == 1 :> {3, 6} @@ 2 :> {6}
=============================================================================
