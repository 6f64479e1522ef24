-------------------------- MODULE MCMarketIngestion --------------------------
(* Two provider ids, one of which names a second game after a reschedule; fetches *)
(* that list two games in both orders, a game without an id, a malformed game, an *)
(* offer listed twice, and two names of one sportsbook.                           *)
EXTENDS MarketIngestion, TLC

MCCanonical == "caesars" :> "williamhill" @@ "williamhill" :> "williamhill"

Quote(ident, valid) == [ident |-> ident, side |-> "home", valid |-> valid]

At1(pid, identity, offers) == [pid |-> pid, identity |-> identity, valid |-> TRUE, offers |-> offers]

A == At1("x", "a on Saturday", <<Quote("caesars", TRUE), Quote("williamhill", TRUE)>>)
Moved == At1("x", "a on Sunday", <<Quote("williamhill", TRUE)>>)
B == At1("y", "b on Saturday", <<>>)
Unnamed == At1(NoId, "c on Saturday", <<Quote("caesars", FALSE)>>)
Malformed == [B EXCEPT !.valid = FALSE]

MCFetch == {<<A, B>>, <<B, A>>, <<Moved>>, <<Unnamed, Malformed>>}

RepeatFetch == {<<A>>}
=============================================================================
