------------------------- MODULE MCMarketCoverage --------------------------
(* Inputs for MarketCoverage: schools whose names begin alike, markets with *)
(* every defect the tests look for, and audits on both sides of each limit. *)
EXTENDS MarketCoverage, TLC

Schools == {<<"miami">>, <<"miami", "ohio">>, <<"ohio">>}
Mascot == <<"miami">> :> <<"miami", "hurricanes">>
       @@ <<"miami", "ohio">> :> <<"miami", "ohio", "redhawks">>
       @@ <<"ohio">> :> <<"ohio", "bobcats">>
ScheduledGames ==
    {[id |-> <<h, a>>, home |-> h, away |-> a, kick |-> k] :
        <<h, a>> \in {s \in Schools \X Schools : s[1] # s[2]}, k \in {0}}
ListedEvents ==
    {[of |-> g.id, home |-> Mascot[g.home], away |-> Mascot[g.away], kick |-> k] :
        g \in ScheduledGames, k \in {30, 31}}
EventInputs ==
    {[kind |-> "event", game |-> g, events |-> es] :
        g \in ScheduledGames, es \in BoundedSeq(ListedEvents, 2)}

\* Outcomes named as the provider names the two teams of a game, or unknown.
OutcomesOf(g) ==
    LET Named(n, of) == {[name |-> n, price |-> p, point |-> q, of |-> of] :
                            p \in {-110, 50}, q \in {3, -3, NoPoint}}
    IN  Named(Mascot[g.home], "home") \cup Named(Mascot[g.away], "away")
          \cup {[name |-> <<"draw">>, price |-> -110, point |-> 3, of |-> "none"]}
TotalOutcomes ==
    {[name |-> <<n>>, price |-> p, point |-> q, of |-> "none"] :
        n \in {"over", "under"}, p \in {-110, 0}, q \in {3, -3}}
MarketGames == {g \in ScheduledGames : g.home = <<"miami">>}
BooksOf(g, market) ==
    LET outcomes == IF market = "totals" THEN TotalOutcomes ELSE OutcomesOf(g)
    IN  {<<a, b>> : a \in outcomes, b \in outcomes}
MarketInputs ==
    UNION {{[kind |-> "market", game |-> g, market |-> m,
             books |-> <<[key |-> "dk", outcomes |-> o], [key |-> second, outcomes |-> o]>>] :
                o \in BooksOf(g, m), second \in {"dk", "fd", "other"}}
            : g \in MarketGames, m \in Markets}

\* Five primary records of a horizon and market, of two seasons, and how good
\* they are; and context records beside them.
Record(h, m, i, cohort, ok) ==
    [id |-> i, season |-> IF i = 5 THEN 2024 ELSE 2023, horizon |-> h, market |-> m,
     cohort |-> cohort, usable |-> ok, supported |-> IF ok THEN 2 ELSE 0,
     complete |-> 2, listed |-> 2, status |-> "reliable", timely |-> TRUE]
Qualities == {"all", "four", "season", "none"}
Good(quality, i) ==
    CASE quality = "all" -> TRUE [] quality = "four" -> i # 1
      [] quality = "season" -> i # 5 [] OTHER -> FALSE
AuditOf(morning, later, close, context) ==
    {Record(h, m, i, "fbs_vs_fbs",
            Good(CASE h \in MorningHorizons -> morning
                   [] h = "near_close_5_minutes" -> close [] OTHER -> later, i)) :
        h \in MorningHorizons \cup LaterHorizons, m \in Markets, i \in 1..5}
      \cup {Record(h, m, i, "context", context = "good") :
              h \in {x \in MorningHorizons \cup LaterHorizons : context # "absent"},
              m \in Markets, i \in {6, 7}}
DecisionInputs ==
    {[kind |-> "decision", records |-> AuditOf(a, b, c, context)] :
        a \in Qualities, b \in Qualities, c \in Qualities, context \in {"absent", "good", "bad"}}

\* Games of one season on two days, in two windows (11 and 12).
PlanGames ==
    {[id |-> i, kick |-> 1440 * (i \div 3) + k, day |-> i \div 3, season |-> 2023,
      phase |-> IF i = 5 THEN "bowl" ELSE "regular", window |-> w] :
        i \in 1..5, k \in {720, 1200}, w \in {11, 12}}
GameSets == {gs \in UNION {kSubset(n, PlanGames) : n \in 1..3} :
                \A g, h \in gs : g.id = h.id => g = h}
Rank == [x \in 1..12 |-> 13 - x]
PlanInputs ==
    {[kind |-> "plan", games |-> gs, rank |-> Rank, anchors |-> {CHOOSE i \in {g.id : g \in gs} : TRUE}] :
        gs \in GameSets}

MCInputs == EventInputs \cup MarketInputs \cup DecisionInputs \cup PlanInputs
=============================================================================
