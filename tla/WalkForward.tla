----------------------------- MODULE WalkForward -----------------------------
(* Which results a research prediction has seen. The model tournament, the       *)
(* strong models, the preseason models, the calibration, the market comparison    *)
(* and the market-aware tournament are commands that read each other's files;     *)
(* each prediction row carries the games it was fitted on and all games whose     *)
(* results reached it: through fitting, through the choice of hyperparameters,    *)
(* through a rating, a blend weight or a pool of residuals.                        *)
(*                                                                                *)
(* One target: the margin; the total goes the same way without the ratings. The   *)
(* variants of a family that differ in their columns only are one.                 *)
EXTENDS Integers, Sequences, FiniteSets

CONSTANTS
    Schedule,       \* Schedule[g]: [season, kickoff, home, away]
    FirstSeason, FirstFold, ValidationSeason,   \* training, evaluation, validation
    FirstCalibration, FirstMarket,
    Quoted,         \* games with a market state
    AsOfBefore,     \* AsOfBefore[h]: hours before kickoff at which horizon h predicts, at least
    MorningHorizon, ReferenceHorizon,
    MarketHorizons, \* the horizons the market data has
    OutcomeDelay,   \* hours after kickoff until a result counts as available
    EndSeasons, HorizonChoices, \* what a command may be asked for
    MinPool,        \* rows a residual pool has to have
    NoFile,
    MaxExperiments     \* bound

VARIABLES
    research,       \* the file each stage left
    experiments     \* how many commands ran

researchVars == <<research, experiments>>

Stages == {"baseline", "strong", "preseason", "probability", "comparison", "aware"}
Games == DOMAIN Schedule
Horizons == DOMAIN AsOfBefore
SeasonOf(g) == Schedule[g].season
GamesOf(seasons) == {g \in Games : SeasonOf(g) \in seasons}

ASSUME WalkForwardAssumption ==
    /\ IsFiniteSet(Games)
    /\ {FirstSeason, FirstFold, FirstCalibration, ValidationSeason} \subseteq Int
    /\ \A g \in Games :
          SeasonOf(g) \in FirstSeason .. ValidationSeason /\ Schedule[g].kickoff \in Int
    /\ FirstSeason < FirstFold /\ FirstFold < FirstCalibration
    /\ {MorningHorizon, ReferenceHorizon} \subseteq Horizons
    /\ OutcomeDelay \in Nat /\ \A h \in Horizons : AsOfBefore[h] \in Nat

\* A command refuses the holdout season and a horizon without features.
ASSUME ChoiceAssumption ==
    /\ \A end \in EndSeasons : end \in Int /\ end <= ValidationSeason
    /\ \A horizons \in HorizonChoices : horizons \subseteq Horizons

\* What the sport's calendar gives and no line of the code tests: a season ends before the
\* next begins, and a team rests between two games, each by so much that the result of the
\* earlier game is available at every cutoff of the later one.
SharedTeam(p, g) ==
    {Schedule[p].home, Schedule[p].away} \cap {Schedule[g].home, Schedule[g].away} # {}

ASSUME RestAssumption ==
    \A k, g \in Games :
        \/ SeasonOf(k) < SeasonOf(g)
        \/ Schedule[k].kickoff < Schedule[g].kickoff /\ SharedTeam(k, g)
        => \A h \in Horizons :
              Schedule[k].kickoff + OutcomeDelay <= Schedule[g].kickoff - AsOfBefore[h]

-----------------------------------------------------------------------------
(* Folds and fits. *)

FoldSeasons == FirstFold .. ValidationSeason

\* a fold trains on every season before the one it evaluates
TrainInclusive(s) == GamesOf(FirstSeason .. s)
Train(s) == GamesOf(FirstSeason .. s - 1)

\* hyperparameters are chosen by the errors of the development folds
SelectionSeasonsAll(end) == FirstFold .. end
SelectionSeasons(end) == {s \in FirstFold .. end : s # ValidationSeason}
Chosen(end) == UNION {Train(s) \cup GamesOf({s}) : s \in SelectionSeasons(end)}

\* a rating is built from the earlier games of the two teams, and the ratings of their
\* opponents at the time
EarlierOf(g) ==
    {p \in Games : Schedule[p].kickoff < Schedule[g].kickoff /\ SharedTeam(p, g)}
RatedBy[g \in Games] == EarlierOf(g) \cup UNION {RatedBy[p] : p \in EarlierOf(g)}
Rated == [g \in Games |-> RatedBy[g]]

Prediction(candidate, g, horizon, fit, others) ==
    [candidate |-> candidate, game |-> g, horizon |-> horizon,
     inSample |-> g \in fit, knows |-> fit \cup others]

RowsOver(seasons, horizons, Row(_, _)) ==
    {Row(g, h) : g \in GamesOf(seasons), h \in horizons}

-----------------------------------------------------------------------------
(* What each command computes. *)

\* the averages of all training games, and those of the two teams
NaiveRows(seasons, horizons) ==
    LET Naive(g, h) == Prediction("naive", g, h, Train(SeasonOf(g)), {})
    IN  RowsOver(seasons, horizons, Naive)

BaselineRows(end, horizons) ==
    LET seasons == {s \in FoldSeasons : s <= end}
        Elo(g, h) == Prediction("elo", g, h, {}, Rated[g])
        Ridge(g, h) == Prediction("ridge", g, h, Train(SeasonOf(g)), Chosen(end))
    IN  NaiveRows(seasons, horizons) \cup RowsOver(seasons, horizons, Elo)
            \cup RowsOver(seasons, horizons, Ridge)

StrongRows(horizons) ==
    LET Tree(g, h) == Prediction("tree", g, h, Train(SeasonOf(g)), Chosen(ValidationSeason))
    IN  RowsOver(FoldSeasons, horizons, Tree)

PreseasonRows(horizons) ==
    LET Ridge(g, h) == Prediction("ridge_preseason", g, h, Train(SeasonOf(g)), {})
        Power(g, h) == Prediction("power_preseason", g, h, Train(SeasonOf(g)),
                                  Rated[g] \cup UNION {Rated[t] : t \in Train(SeasonOf(g))})
    IN  RowsOver(FoldSeasons, horizons, Ridge) \cup RowsOver(FoldSeasons, horizons, Power)

\* the residuals a row is calibrated with: earlier seasons of its own model and horizon
PoolOfAnyHorizon(rows, r) ==
    {p \in rows : p.candidate = r.candidate /\ SeasonOf(p.game) < SeasonOf(r.game)}

PoolOf(rows, r) ==
    {p \in rows : /\ p.candidate = r.candidate /\ p.horizon = r.horizon
                  /\ SeasonOf(p.game) < SeasonOf(r.game)}

Calibrated(rows, r) ==
    LET pool == PoolOf(rows, r) IN
    [candidate |-> r.candidate, game |-> r.game, horizon |-> r.horizon, inSample |-> r.inSample,
     knows |-> r.knows \cup {p.game : p \in pool} \cup UNION {p.knows : p \in pool},
     pool |-> {[game |-> p.game, horizon |-> p.horizon, inSample |-> p.inSample] : p \in pool}]

SelectedRows(rows, end) ==
    {r \in rows : r.candidate \in {"elo", "ridge"} /\ SeasonOf(r.game) <= end}

ProbabilityRows(rows, end) ==
    {Calibrated(SelectedRows(rows, end), r) :
        r \in {x \in SelectedRows(rows, end) : SeasonOf(x.game) >= FirstCalibration}}

\* the models to compare, in the seasons with market data; a row of no fold is refused
OofRows(rows) ==
    {r \in rows : r.candidate \in {"elo", "ridge"} /\ SeasonOf(r.game) >= FirstMarket}

\* every row of a market-data horizon beside its market state
ComparisonRows(rows) ==
    {[game |-> r.game, horizon |-> r.horizon, candidate |-> r.candidate] :
        r \in {x \in OofRows(rows) : x.game \in Quoted /\ x.horizon \in MarketHorizons}}

\* the games with a market state at the morning horizon, each once
QuotedGames(comparison) == {r.game : r \in {x \in comparison : x.horizon = MorningHorizon}}

FootballRows(markets, rows) ==
    {r \in rows : /\ r.candidate \in {"elo", "ridge", "power_preseason"}
                  /\ r.horizon = MorningHorizon /\ r.game \in markets}

\* new models train on the market games of earlier seasons
NewRows(markets) ==
    {Prediction("market_ridge", g, MorningHorizon,
                {t \in markets : SeasonOf(t) < SeasonOf(g)}, {}) :
        g \in {x \in markets : \E t \in markets : SeasonOf(t) < SeasonOf(x)}}

\* the weight of a blend is fitted on the pairs of earlier seasons
BlendTraining(football, r) ==
    {p \in football : p.candidate = r.candidate /\ SeasonOf(p.game) < SeasonOf(r.game)}
Blends(football) ==
    {Prediction("blend_" \o r.candidate, r.game, MorningHorizon,
                {p.game : p \in BlendTraining(football, r)},
                r.knows \cup UNION {p.knows : p \in BlendTraining(football, r)}) :
        r \in {x \in football : /\ x.candidate \in {"elo", "power_preseason"}
                                /\ BlendTraining(football, x) # {}}}

AwareRows(comparison, rows) ==
    LET markets == QuotedGames(comparison)
        football == FootballRows(markets, rows)
        points == {Prediction("market", g, MorningHorizon, {}, {}) : g \in markets}
                    \cup football \cup NewRows(markets) \cup Blends(football)
    IN  points \cup {Calibrated(points, r) : r \in {x \in points :
                        Cardinality(PoolOf(points, x)) >= MinPool}}

-----------------------------------------------------------------------------
(* The commands. Each overwrites the file of its stage. *)

ResearchInit ==
    /\ research = [s \in Stages |-> NoFile]
    /\ experiments = 0

Has(stage) == research[stage] # NoFile

Writes(stage, rows) ==
    /\ experiments < MaxExperiments
    /\ experiments' = experiments + 1
    /\ research' = [research EXCEPT ![stage] = rows]

RunTournament ==
    \E end \in EndSeasons, horizons \in HorizonChoices :
        Writes("baseline", BaselineRows(end, horizons))

\* compared game by game with the ratings of the baseline at every horizon
RunStrongModels ==
    /\ Has("baseline")
    /\ \E horizons \in HorizonChoices :
        /\ \A h \in horizons : \E r \in research["baseline"] : r.candidate = "elo" /\ r.horizon = h
        /\ Writes("strong", StrongRows(horizons))

RunPreseason ==
    /\ Has("baseline")
    /\ \E horizons \in HorizonChoices : Writes("preseason", PreseasonRows(horizons))

RunProbability ==
    /\ Has("baseline")
    /\ \E end \in EndSeasons :
        LET rows == ProbabilityRows(research["baseline"], end) IN
        /\ \A r \in rows : Cardinality(r.pool) >= MinPool
        /\ Writes("probability", rows)

CompareWithMarket ==
    /\ Has("baseline")
    /\ Writes("comparison", ComparisonRows(research["baseline"]))

RunMarketAware ==
    /\ Has("comparison") /\ Has("baseline") /\ Has("strong") /\ Has("preseason")
    /\ QuotedGames(research["comparison"]) # {}
    /\ Writes("aware", AwareRows(research["comparison"],
                                 research["baseline"] \cup research["preseason"]))

ResearchNext ==
    \/ RunTournament \/ RunStrongModels \/ RunPreseason
    \/ RunProbability \/ CompareWithMarket \/ RunMarketAware

ResearchSpec == ResearchInit /\ [][ResearchNext]_researchVars

-----------------------------------------------------------------------------
(* What the research promises. *)

PredictionStages == {"baseline", "strong", "preseason", "probability", "aware"}
RowsOf(stages) == UNION {research[s] : s \in {x \in stages : Has(x)}}
Pooled == {r \in RowsOf({"probability", "aware"}) : "pool" \in DOMAIN r}

\* A prediction for the validation season has seen no result that was not available at its
\* own cutoff, whatever was run before it and however often: not through the choice of
\* hyperparameters, the ratings, the blends or the pools of residuals. That the ratings,
\* which take every earlier kickoff, keep it rests on the days a team rests between games
\* (modeling.py run_tournament and elo_predictions, market_aware_modeling.py _blend_rows).
ValidationSeesOnlyThePast ==
    \A r \in RowsOf(PredictionStages) :
        SeasonOf(r.game) = ValidationSeason =>
            \A k \in r.knows :
                Schedule[k].kickoff + OutcomeDelay
                    <= Schedule[r.game].kickoff - AsOfBefore[r.horizon]

\* Every residual of a pool is of a game its model was not fitted on, also in the development
\* seasons (calibration.py build_probability_rows, market_aware_modeling.py _probability_rows).
PoolsOutOfSample == \A r \in Pooled : \A p \in r.pool : ~p.inSample

\* The horizons are never pooled: a distribution takes the residuals of its own horizon, one
\* for a game (calibration.py, the key of a group).
HorizonsNeverPooled ==
    \A r \in Pooled :
        /\ \A p \in r.pool : p.horizon = r.horizon
        /\ Cardinality({p.game : p \in r.pool}) = Cardinality(r.pool)

\* Every number that is compared out of sample is out of sample: predictions by what was
\* available, residuals by the fit of their model and their horizon.
OutOfSample == ValidationSeesOnlyThePast /\ PoolsOutOfSample /\ HorizonsNeverPooled
=============================================================================
