-------------------------- MODULE FeatureChronology --------------------------
(* How the research pipeline builds its features: team games are aggregated     *)
(* from plays, sorted by the moment they became available, and absorbed into     *)
(* running totals while the prediction requests are answered in the order of     *)
(* their cutoffs. A program's own games are filtered by the cutoff again; the     *)
(* totals of the population and of its opponents are not, so the order of the     *)
(* requests is what keeps the future out of them.                                *)
EXTENDS Integers, FiniteSets, Sequences, SequencesExt, FiniteSetsExt

CONSTANTS
    Corpora,        \* the corpora to build from: [game: schedule, play: sequence]
    HorizonSets,    \* the sets of horizons a build may be asked for
    MorningPolicies,
    Metric,         \* the averages a team game has
    CounterOf,      \* CounterOf[m]: the opponents' average m is adjusted by
    Delay,          \* hours after kickoff until a game's data count as available
    DayHours, MorningLead, FixedMorning, DayAhead, HourAhead,
    PriorSeasons,   \* how many earlier seasons make a program's prior
    Missing         \* no value

VARIABLES
    source,         \* the corpus being built
    morning,        \* the morning policy of the build
    requests,       \* requests still to answer, in their order
    waiting,        \* team games not yet absorbed, in the order they become available
    absorbed,       \* absorbed[p]: the team games of program p, in that order
    totals,         \* totals[p][m]: sum and number of p's values of m
    population,     \* population[m]: the same over everyone
    featureRows

chronicleVars ==
    <<source, morning, requests, waiting, absorbed, totals, population, featureRows>>

-----------------------------------------------------------------------------
(* A corpus has finitely many games, numbered and at whole hours; a side is a           *)
(* numbered program or missing.                                                  *)
ASSUME CorpusAssumption ==
    \A c \in Corpora :
        /\ IsFiniteSet(DOMAIN c.game) /\ DOMAIN c.game \subseteq Int
        /\ \A i \in DOMAIN c.game :
              c.game[i].kickoff \in Int /\ {c.game[i].home, c.game[i].away} \ {Missing} \subseteq Int

ASSUME HourAssumption ==
    /\ Delay \in Int /\ DayHours \in Nat \ {0}
    /\ {MorningLead, FixedMorning, DayAhead, HourAhead} \subseteq Int

ASSUME HorizonAssumption ==
    \A hs \in HorizonSets :
        hs \subseteq {"24_hours_before_kickoff", "60_minutes_before_kickoff", "game_day_morning"}

-----------------------------------------------------------------------------
\* the members of a finite set in the order of a strict total order
InOrder(S, Before(_, _)) ==
    [n \in 1 .. Cardinality(S) |->
        CHOOSE x \in S : Cardinality({y \in S : Before(y, x)}) = n - 1]

(* Team games out of plays. *)

Played(c) == DOMAIN c.game
ProgramsOf(g) == {g.home, g.away} \ {Missing}
Programs(c) == UNION {ProgramsOf(c.game[i]) : i \in Played(c)}

NoTotal == <<0, 0>>
Plus(pair, v) == IF v = Missing THEN pair ELSE <<pair[1] + v, pair[2] + 1>>
AverageOf(pair) == IF pair[2] = 0 THEN Missing ELSE pair[1] \div pair[2]
TotalOf(seq) == FoldLeft(Plus, NoTotal, seq)

\* the scrimmage plays of one game whose sides were identified
Scrimmage(c, i) ==
    SelectSeq(c.play, LAMBDA p : p.game = i /\ p.resolved /\ p.kind \in {"pass", "rush"})

Gained(c, i, p) == SelectSeq(Scrimmage(c, i), LAMBDA play : play.offense = p)
Allowed(c, i, p) == SelectSeq(Scrimmage(c, i), LAMBDA play : play.defense = p)
Values(plays) == [n \in DOMAIN plays |-> plays[n].value]

TeamGame(c, i, p) ==
    LET g == c.game[i] IN
    [game |-> i, program |-> p, season |-> g.season, kickoff |-> g.kickoff,
     availableAt |-> g.kickoff + Delay,
     opponent |-> IF p = g.home THEN g.away ELSE g.home,
     plays |-> Len(Gained(c, i, p)),
     metric |-> [m \in Metric |->
                    AverageOf(TotalOf(Values(CASE m = "off" -> Gained(c, i, p)
                                               [] m = "def" -> Allowed(c, i, p))))]]

\* only a program that is one of two identified sides has a record
TeamGames(c) ==
    UNION {{TeamGame(c, i, p) : p \in ProgramsOf(c.game[i])} :
        i \in {j \in Played(c) : Cardinality(ProgramsOf(c.game[j])) = 2}}

AvailableBefore(a, b) ==
    \/ a.availableAt < b.availableAt
    \/ a.availableAt = b.availableAt /\ a.game < b.game
    \/ a.availableAt = b.availableAt /\ a.game = b.game /\ a.program < b.program

-----------------------------------------------------------------------------
(* Requests. *)

DayOf(t) == t \div DayHours
Eligible(c) == {i \in Played(c) : c.game[i].eligible}

FirstOfDay(c, i) ==
    Min({c.game[j].kickoff : j \in {k \in Eligible(c) :
            DayOf(c.game[k].kickoff) = DayOf(c.game[i].kickoff)}})

AsOf(c, i, horizon, policy) ==
    CASE horizon = "24_hours_before_kickoff" -> c.game[i].kickoff - DayAhead
      [] horizon = "60_minutes_before_kickoff" -> c.game[i].kickoff - HourAhead
      [] horizon = "game_day_morning" /\ policy = "first_kickoff" ->
            FirstOfDay(c, i) - MorningLead
      [] OTHER -> DayOf(c.game[i].kickoff) * DayHours + FixedMorning

HorizonRank(h) ==
    CASE h = "24_hours_before_kickoff" -> 1
      [] h = "60_minutes_before_kickoff" -> 2
      [] h = "game_day_morning" -> 3

Requests(c, horizons, policy) ==
    {[game |-> i, horizon |-> h, asOf |-> AsOf(c, i, h, policy)] :
        i \in Eligible(c), h \in horizons}

RequestBeforeByKickoff(c, a, b) ==
    \/ c.game[a.game].kickoff < c.game[b.game].kickoff
    \/ a.game = b.game /\ HorizonRank(a.horizon) < HorizonRank(b.horizon)

RequestBefore(c, a, b) ==
    \/ a.asOf < b.asOf
    \/ a.asOf = b.asOf /\ a.game < b.game
    \/ a.asOf = b.asOf /\ a.game = b.game /\ HorizonRank(a.horizon) < HorizonRank(b.horizon)

-----------------------------------------------------------------------------
(* One row. *)

Recent(seq, n) == SubSeq(seq, (IF Len(seq) > n THEN Len(seq) - n ELSE 0) + 1, Len(seq))

Observed(history, m) ==
    LET values == [n \in DOMAIN history |-> history[n].metric[m]]
    IN  SelectSeq(values, LAMBDA v : v # Missing)

\* the prior is the program's own earlier seasons, or everyone's average
PriorOf(prior, everyone, m) ==
    LET own == TotalOf(Observed(prior, m)) IN IF own[2] > 0 THEN own ELSE everyone[m]

\* a program's features for game i at a cutoff, out of three sources: its own
\* records, the totals of its opponents and the totals of everyone
TeamRow(c, i, p, cutoff, own, ofOpponent, everyone) ==
    LET season == c.game[i].season
        history == SelectSeq(own, LAMBDA r : r.availableAt <= cutoff /\ r.game # i)
        current == SelectSeq(history, LAMBDA r : r.season = season)
        prior == SelectSeq(history, LAMBDA r : r.season < season
                                            /\ r.season >= season - PriorSeasons)
        rivals(m) == LET last == Recent(current, 5)
                     IN  SelectSeq([n \in DOMAIN last |-> AverageOf(ofOpponent[last[n].opponent][m])],
                                   LAMBDA v : v # Missing)
    IN  [games |-> Len(history), inSeason |-> Len(current),
         lastKickoff |-> IF history = <<>> THEN Missing ELSE history[Len(history)].kickoff,
         form |-> [m \in Metric |->
            [last3 |-> TotalOf(Recent(Observed(history, m), 3)),
             last5 |-> TotalOf(Recent(Observed(history, m), 5)),
             season |-> TotalOf(Observed(current, m)),
             prior |-> PriorOf(prior, everyone, m),
             schedule |-> TotalOf(rivals(CounterOf[m])),
             everyone |-> everyone[CounterOf[m]]]]]

FeatureRow(c, request, own, ofOpponent, everyone) ==
    LET g == c.game[request.game] IN
    [request |-> request,
     home |-> TeamRow(c, request.game, g.home, request.asOf, own[g.home], ofOpponent, everyone),
     away |-> TeamRow(c, request.game, g.away, request.asOf, own[g.away], ofOpponent, everyone)]

-----------------------------------------------------------------------------
(* The build. *)

ChronicleInit ==
    \E c \in Corpora, horizons \in HorizonSets, policy \in MorningPolicies :
        /\ source = c
        /\ morning = policy
        /\ requests = InOrder(Requests(c, horizons, policy),
                                   LAMBDA a, b : RequestBefore(c, a, b))
        /\ waiting = InOrder(TeamGames(c), AvailableBefore)
        /\ absorbed = [p \in Programs(c) |-> <<>>]
        /\ totals = [p \in Programs(c) |-> [m \in Metric |-> NoTotal]]
        /\ population = [m \in Metric |-> NoTotal]
        /\ featureRows = {}

Due == waiting # <<>> /\ Head(waiting).availableAt <= Head(requests).asOf

Absorb ==
    /\ requests # <<>>
    /\ Due
    /\ LET r == Head(waiting) IN
        /\ absorbed' = [absorbed EXCEPT ![r.program] = Append(@, r)]
        /\ totals' = [totals EXCEPT ![r.program] = [m \in Metric |-> Plus(@[m], r.metric[m])]]
        /\ population' = [m \in Metric |-> Plus(population[m], r.metric[m])]
    /\ waiting' = Tail(waiting)
    /\ UNCHANGED <<source, morning, requests, featureRows>>

EmitRow ==
    /\ requests # <<>>
    /\ ~Due
    /\ featureRows' = featureRows
            \cup {FeatureRow(source, Head(requests), absorbed, totals, population)}
    /\ requests' = Tail(requests)
    /\ UNCHANGED <<source, morning, waiting, absorbed, totals, population>>

ChronicleNext == Absorb \/ EmitRow

ChronicleSpec == ChronicleInit /\ [][ChronicleNext]_chronicleVars

-----------------------------------------------------------------------------
(* What a build promises. *)

\* what was available at a cutoff, computed from the corpus alone
PastOf(c, cutoff) == {r \in TeamGames(c) : r.availableAt <= cutoff}
PastRecords(c, cutoff) ==
    [p \in Programs(c) |->
        InOrder({r \in PastOf(c, cutoff) : r.program = p}, AvailableBefore)]
MetricTotal(records, m) == TotalOf([n \in DOMAIN records |-> records[n].metric[m]])
PastTotals(c, cutoff) ==
    [p \in Programs(c) |-> [m \in Metric |-> MetricTotal(PastRecords(c, cutoff)[p], m)]]
PastPopulation(c, cutoff) ==
    [m \in Metric |-> MetricTotal(InOrder(PastOf(c, cutoff), AvailableBefore), m)]

\* Every row is the row somebody would compute who had, at its cutoff, exactly the games
\* available by then: no result of a later game reaches it through the running totals, and
\* none that was available is missing, whichever horizons are built together
\* (features.py build_feature_rows, the cursor over `available`).
RowSeesExactlyThePast ==
    \A row \in featureRows :
        LET cutoff == row.request.asOf IN
        row = FeatureRow(source, row.request, PastRecords(source, cutoff),
                         PastTotals(source, cutoff), PastPopulation(source, cutoff))
=============================================================================
