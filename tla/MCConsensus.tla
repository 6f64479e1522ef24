----------------------------- MODULE MCConsensus -----------------------------
(* Boards of three books. Each book shows one of a few sheets: both sides, in    *)
(* several prices; several lines; a side alone; a newer snapshot that withdrew or *)
(* moved a line; lines that are stale, unmatched, from after the cutoff or        *)
(* malformed. Points are half points.                                           *)
EXTENDS Consensus, TLC

Line(snap, side, point, odds) ==
    [active |-> TRUE, matched |-> TRUE, snap |-> snap, requested |-> 4 + snap, observed |-> 3 + snap,
     ingested |-> 5 + snap, side |-> side, point |-> point, odds |-> odds]

Two(snap, market, point, first, second) ==
    {Line(snap, Sides(market)[1], point, first),
     Line(snap, Sides(market)[2],
          IF market = "spread" THEN -point ELSE point, second)}

Money(snap, home, away) ==
    {Line(snap, "home", Pointless, home), Line(snap, "away", Pointless, away)}

MoneySheets ==
    {{}, Money(1, -200, 125), Money(1, -125, 100), Money(1, 125, -200), Money(1, 100, -100),
     Money(1, -200, 125) \cup {Line(2, "home", Pointless, -125)},
     Money(1, 100, -125) \cup Money(2, 125, -250),
     {[x EXCEPT !.requested = 1] : x \in Money(1, 150, -200)},
     {[x EXCEPT !.matched = FALSE] : x \in Money(1, 150, -200)},
     Money(1, -125, 100) \cup {[x EXCEPT !.ingested = 9] : x \in Money(2, 150, -250)},
     Two(1, "spread", -3, 100, 100)}

LineSheets(market, line) ==
    {{}, Two(1, market, line, -125, 100), Two(1, market, line, 100, -125),
     Two(1, market, line + 1, -125, -125), Two(1, market, line + 1, 125, -200),
     Two(1, market, line + 8, -125, -125),
     Two(1, market, line, -125, -100) \cup Two(1, market, line + 8, 125, -200),
     Two(1, market, line, -125, -125) \cup Two(1, market, line + 1, -100, -125)
       \cup Two(1, market, line + 8, 100, -100),
     {Line(1, Sides(market)[1], line, -125), Line(1, Sides(market)[2], 2, -125)},
     Two(1, market, line, -125, 100) \cup {Line(2, Sides(market)[1], line, 150)},
     Two(1, market, line, -125, 100) \cup Two(2, market, line + 1, -100, -125)}

ThirdSheets ==
    {{}, Two(1, "spread", -7, -125, 100), Two(1, "spread", -7, -125, -125), Two(1, "spread", 1, -125, -125)}

MCBoards ==
    LET Lines(sheet) == UNION {{x @@ [book |-> b] : x \in sheet[b]} : b \in 1..3}
    IN  {[market |-> "moneyline", lines |-> Lines(s)] : s \in [1..3 -> MoneySheets]}
        \cup {[market |-> "spread", lines |-> Lines(<<s[1][1], s[1][2], s[2]>>)] : 
                s \in [1..2 -> LineSheets("spread", -7)] \X ThirdSheets}
        \cup {[market |-> "total", lines |-> Lines(<<s[1], s[2], {}>>)] :
                 s \in [1..2 -> LineSheets("total", 10)]}

MCHistogram ==
    [market \in {"spread", "total"} |->
        (-9 :> 1) @@ (-5 :> 2) @@ (-2 :> 2) @@ (0 :> 3) @@ (3 :> 2) @@ (8 :> 1)]
=============================================================================
