------------------------- MODULE MCFeatureChronology -------------------------
(* Seven games of two seasons among four programs, one or none of them left out; *)
(* one is available exactly at a cutoff; one day has an early and a late game.  *)
EXTENDS FeatureChronology, TLC

MCGame(season, kickoff, home, away, eligible) ==
    [season |-> season, kickoff |-> kickoff, home |-> home, away |-> away, eligible |-> eligible]

MCCalendar ==
    <<MCGame(1, 12, 1, 2, TRUE), MCGame(1, 52, 2, 3, TRUE), MCGame(2, 100, 1, 3, TRUE),
      MCGame(2, 115, 2, 4, FALSE), MCGame(2, 132, 2, 1, TRUE), MCGame(2, 139, 3, 4, TRUE),
      MCGame(2, 140, 3, Missing, FALSE)>>

MCPlay(i, offense, defense, kind, v, resolved) ==
    [game |-> i, offense |-> offense, defense |-> defense, kind |-> kind,
     value |-> v, resolved |-> resolved]

MCPlays ==
    <<MCPlay(1, 1, 2, "pass", 4, TRUE), MCPlay(1, 1, 2, "rush", 2, TRUE),
      MCPlay(1, 2, 1, "rush", 1, TRUE), MCPlay(2, 2, 3, "pass", 7, TRUE),
      MCPlay(2, 3, 2, "kick", 50, TRUE), MCPlay(2, 3, 2, "rush", 5, FALSE),
      MCPlay(3, 1, 3, "pass", 9, TRUE), MCPlay(3, 3, 1, "pass", Missing, TRUE),
      MCPlay(4, 2, 4, "rush", 3, TRUE), MCPlay(4, 4, 2, "rush", 8, TRUE),
      MCPlay(5, 2, 1, "pass", 6, TRUE)>>

MCCorpora ==
    {[game |-> [i \in keep |-> MCCalendar[i]],
      play |-> SelectSeq(MCPlays, LAMBDA p : p.game \in keep)] :
        keep \in {s \in SUBSET DOMAIN MCCalendar : Cardinality(s) >= 6}}

MCHorizonSets ==
    (SUBSET {"24_hours_before_kickoff", "60_minutes_before_kickoff", "game_day_morning"}) \ {{}}
MCCounter == [off |-> "def", def |-> "off"]
=============================================================================
