--------------------------- MODULE MarketCoverage ---------------------------
(***************************************************************************)
(* What a historical snapshot is good for: the plans that ask for it, the  *)
(* reconciliation of its events with the schedule, the books whose market  *)
(* is complete (the audit and the dataset each have their own test), the   *)
(* usable records, and the decision that allows a larger acquisition.      *)
(*                                                                         *)
(* The code is pure: `asked` is the input of one call, chosen from Inputs. *)
(* A name is the sequence of its normalised words, an instant a number of  *)
(* minutes, a percentage an exact comparison of counts.                    *)
(***************************************************************************)
EXTENDS Integers, Sequences, FiniteSets, SequencesExt, FiniteSetsExt

CONSTANTS
    Inputs,         \* calls: see the four kinds below
    Supported,      \* sportsbooks whose prices count
    NoEvent, NoPoint, NoInput

VARIABLE asked

Markets == {"h2h", "spreads", "totals"}

CoverageInit == asked = NoInput

Ask == asked = NoInput /\ asked' \in Inputs

CoverageNext == Ask

CoverageSpec == CoverageInit /\ [][CoverageNext]_asked

-----------------------------------------------------------------------------
(* What a call is given: lists, and finite sets of records and of games; a *)
(* game's id is its own, and no two ids or windows have equal hashes.      *)

ASSUME EventAssumption ==
    \A call \in Inputs : call.kind = "event" => call.events \in Seq(Range(call.events))

ASSUME DecisionAssumption ==
    \A call \in Inputs : call.kind = "decision" => IsFiniteSet(call.records)

ASSUME PlanAssumption ==
    \A call \in Inputs : call.kind = "plan" =>
        /\ IsFiniteSet(call.games)
        /\ \A g \in call.games :
              g.kick \in Int /\ call.rank[g.id] \in Int /\ call.rank[g.window] \in Int
        /\ \A g, h \in call.games :
              /\ g.id = h.id => g = h
              /\ call.rank[g.id] = call.rank[h.id] => g.id = h.id
              /\ call.rank[g.window] = call.rank[h.window] => g.window = h.window

-----------------------------------------------------------------------------
(* Names and events.                                                       *)

\* One name continues the other by whole words: "miami" and "miami hurricanes".
Compatible(provider, schedule) ==
    /\ provider # <<>> /\ schedule # <<>>
    /\ IsPrefix(schedule, provider) \/ IsPrefix(provider, schedule)

Near(event, game) == event.kick - game.kick \in -30..30

Candidates(game, events) ==
    {i \in DOMAIN events :
        /\ Near(events[i], game)
        /\ Compatible(events[i].home, game.home)
        /\ Compatible(events[i].away, game.away)}

Reconcile(game, events) ==
    LET found == Candidates(game, events) IN
    CASE Cardinality(found) = 1 ->
            [status |-> "reliable", event |-> events[CHOOSE i \in found : TRUE]]
      [] found = {} -> [status |-> "missing", event |-> NoEvent]
      [] OTHER -> [status |-> "ambiguous", event |-> NoEvent]

-----------------------------------------------------------------------------
(* A market of one book. An outcome has a name, a price and a point; a      *)
(* price that is no number is 0, a point that is none is NoPoint.          *)

Opposing(game, outcomes) ==
    /\ \E o \in Range(outcomes) : Compatible(o.name, game.home)
    /\ \E o \in Range(outcomes) : Compatible(o.name, game.away)

\* The provider names a team the same wherever it lists an event, and a market is looked
\* at when the names of its event are compatible with the schedule's.
NamesTheTeams(game, outcomes) ==
    /\ \A o \in Range(outcomes) :
          \/ o.of = "home" /\ Compatible(o.name, game.home)
          \/ o.of = "away" /\ Compatible(o.name, game.away)
          \/ o.of = "none" /\ ~Compatible(o.name, game.home) /\ ~Compatible(o.name, game.away)
    /\ \A o, q \in Range(outcomes) : o.of = q.of /\ o.of # "none" => o.name = q.name

ASSUME MarketAssumption ==
    \A call \in Inputs : call.kind = "market" =>
        /\ call.market \in Markets /\ call.books \in Seq(Range(call.books))
        /\ \A b \in Range(call.books) :
              /\ b.outcomes \in Seq(Range(b.outcomes))
              /\ \A o \in Range(b.outcomes) : o.price \in Int
              /\ call.market # "totals" => NamesTheTeams(call.game, b.outcomes)

Points(outcomes) == {outcomes[1].point, outcomes[2].point}

OppositePoints(outcomes) ==
    NoPoint \notin Points(outcomes) /\ outcomes[1].point + outcomes[2].point = 0

EqualPoints(outcomes) ==
    NoPoint \notin Points(outcomes) /\ outcomes[1].point = outcomes[2].point

\* The audit: a price is any number but zero.
AuditComplete(game, market, outcomes) ==
    /\ Len(outcomes) = 2
    /\ \A o \in Range(outcomes) : o.price # 0
    /\ CASE market = "h2h" -> Opposing(game, outcomes)
         [] market = "spreads" -> Opposing(game, outcomes) /\ OppositePoints(outcomes)
         [] market = "totals" -> /\ {o.name : o \in Range(outcomes)} = {<<"over">>, <<"under">>}
                                 /\ EqualPoints(outcomes)

\* The dataset: a price is American odds, and each outcome has a side.
Side(game, market, name) ==
    CASE market = "totals" /\ name = <<"over">> -> "over"
      [] market = "totals" /\ name = <<"under">> -> "under"
      [] market # "totals" /\ Compatible(name, game.home) -> "home"
      [] market # "totals" /\ ~Compatible(name, game.home) /\ Compatible(name, game.away) -> "away"
      [] OTHER -> "none"

Sides(market) == IF market = "totals" THEN {"over", "under"} ELSE {"home", "away"}

\* Mutant: two outcomes are taken without asking that they are two sides.
PairedLoosely(game, market, outcomes) ==
    \A o \in Range(outcomes) : Side(game, market, o.name) # "none"

Paired(game, market, outcomes) ==
    {Side(game, market, o.name) : o \in Range(outcomes)} = Sides(market)

DatasetComplete(game, market, outcomes) ==
    /\ Len(outcomes) = 2
    /\ \A o \in Range(outcomes) : o.price >= 100 \/ o.price <= -100
    /\ Paired(game, market, outcomes)
    /\ market = "spreads" => OppositePoints(outcomes)
    /\ market = "totals" => EqualPoints(outcomes)

\* The audit counts the names of books, the dataset the entries of the list.
AuditBooks(game, market, books) ==
    Cardinality({b.key : b \in {c \in Range(books) : /\ c.key \in Supported
                                                     /\ AuditComplete(game, market, c.outcomes)}})

DatasetBooks(game, market, books) ==
    Cardinality({i \in DOMAIN books : /\ books[i].key \in Supported
                                      /\ DatasetComplete(game, market, books[i].outcomes)})

MinimumBooks == 2

\* A record is usable when its event is reliable, its snapshot timely and two
\* supported books are complete.
AuditUsable(status, timely, game, market, books) ==
    status = "reliable" /\ timely /\ AuditBooks(game, market, books) >= MinimumBooks

DatasetUsable(status, timely, game, market, books) ==
    status = "reliable" /\ timely /\ DatasetBooks(game, market, books) >= MinimumBooks

-----------------------------------------------------------------------------
(* The audit's decision over its records. A record has a season, a horizon, *)
(* a market, a cohort, the mapping's status, and what was counted for it.  *)

AtLeast(part, whole, percent) == whole > 0 /\ 100 * part >= percent * whole

Tally(records, Count(_)) == MapThenSumSet(Count, records)

Count(records, P(_)) == Cardinality({r \in records : P(r)})

Of(records, horizon, market) ==
    {r \in records : r.horizon = horizon /\ r.market = market}

\* Mutant: the context games count as well.
PrimaryWithContext(records) == records

Primary(records) == {r \in records : r.cohort = "fbs_vs_fbs"}

Covered(records, percent) ==
    AtLeast(Count(records, LAMBDA r : r.usable), Cardinality(records), percent)

Approved(records, horizon, market) ==
    LET overall == Of(Primary(records), horizon, market) IN
    /\ Covered(overall, 80)
    /\ \A s \in {r.season : r \in overall} :
          Covered({r \in overall : r.season = s}, 70)
    /\ AtLeast(Count(overall, LAMBDA r : r.supported >= 2), Cardinality(overall), 75)
    /\ AtLeast(Tally(overall, LAMBDA r : r.complete), Tally(overall, LAMBDA r : r.listed), 95)
    /\ 100 * Count(overall, LAMBDA r : r.status = "ambiguous") <= 2 * Cardinality(overall)
    /\ AtLeast(Count(overall, LAMBDA r : r.timely), Cardinality(overall), 99)

MorningHorizons == {"morning_fixed_0900_et", "morning_first_kickoff_minus_3h"}
LaterHorizons == {"24_hours_before_kickoff", "60_minutes_before_kickoff", "near_close_5_minutes"}

Decision(records) ==
    LET Full(horizon) == \A m \in Markets : Approved(records, horizon, m)
    IN  CASE (\E h \in MorningHorizons : Full(h)) /\ (\A h \in LaterHorizons : Full(h)) -> "GO"
          [] \E h \in MorningHorizons \cup LaterHorizons, m \in Markets :
                Approved(records, h, m) -> "CONDITIONAL GO"
          [] OTHER -> "NO-GO"

Strength(decision) == CASE decision = "GO" -> 2 [] decision = "CONDITIONAL GO" -> 1 [] OTHER -> 0

\* The higher mean coverage wins, and the relative convention a tie.
MeanCoverage(cohort, horizon) ==
    MapThenSumSet(LAMBDA m : LET of == Of(cohort, horizon, m) IN
                      IF of = {} THEN 0
                      ELSE (100 * Count(of, LAMBDA r : r.usable)) \div Cardinality(of), Markets)

MorningPolicy(records) ==
    LET Mean(horizon) == MeanCoverage(Primary(records), horizon) IN
    IF Mean("morning_fixed_0900_et") > Mean("morning_first_kickoff_minus_3h")
    THEN "morning_fixed_0900_et" ELSE "morning_first_kickoff_minus_3h"

-----------------------------------------------------------------------------
(* The plans. A game has an id, a kickoff (`day` is its day in the East), a *)
(* season, a phase and a kickoff window; `rank` is the order of the stable  *)
(* hashes, of games and of windows.                                        *)

MorningPlan(games) ==
    {LET slate == {g \in games : g.day = d} IN
        [at |-> Min({g.kick : g \in slate}) - 180, games |-> {g.id : g \in slate}]
     : d \in {g.day : g \in games}}

First(elements, rank) == CHOOSE e \in elements : \A f \in elements : rank[e] <= rank[f]

FirstTwo(elements, rank) ==
    {e \in elements : Cardinality({f \in elements : rank[f] < rank[e]}) < 2}

\* Two games of a season and phase: the first of each of the first two windows,
\* and when there is one window only, its first two.
SampleOf(games, rank) ==
    LET windows == FirstTwo({g.window : g \in games}, rank)
        chosen == {First({g.id : g \in {h \in games : h.window = w}}, rank) : w \in windows}
        rest == {g.id : g \in games} \ chosen
    IN  IF Cardinality(chosen) < 2 /\ rest # {} THEN chosen \cup {First(rest, rank)} ELSE chosen

LaterSample(games, rank) ==
    UNION {SampleOf({g \in games : <<g.season, g.phase>> = sp}, rank)
              : sp \in {<<g.season, g.phase>> : g \in games}}

\* One request for each target instant and horizon; the close one has no moneyline.
LaterPlan(games, rank, anchors) ==
    LET sample == {g \in games : g.id \in LaterSample(games, rank) \cup anchors}
        Requests(horizon, before, markets) ==
            {[horizon |-> horizon, at |-> t, markets |-> markets,
              games |-> {g.id : g \in {h \in sample : h.kick - before = t}}]
                : t \in {g.kick - before : g \in sample}}
    IN  Requests("60_minutes_before_kickoff", 60, Markets)
          \cup Requests("near_close_5_minutes", 5, {"spreads", "totals"})

-----------------------------------------------------------------------------
(* A game whose own event is listed near its kickoff is never mapped to     *)
(* another event, although names are compared by prefix: at worst the       *)
(* mapping is ambiguous and the game is left out.                          *)
ListedGameNeverMismapped ==
    asked # NoInput /\ asked.kind = "event" =>
        \A i \in DOMAIN asked.events :
            asked.events[i].of = asked.game.id /\ i \in Candidates(asked.game, asked.events) =>
                LET answer == Reconcile(asked.game, asked.events) IN
                answer.status = "reliable" => answer.event.of = asked.game.id

(* Prices never change sides: when outcomes carry the provider's names of   *)
(* the two teams, a complete market puts each at its own side, also where   *)
(* one school's name begins with the other's.                              *)
PricesOnTheirSide ==
    asked # NoInput /\ asked.kind = "market" /\ asked.market # "totals" =>
        \A b \in Range(asked.books) :
            DatasetComplete(asked.game, asked.market, b.outcomes) =>
                \A o \in Range(b.outcomes) :
                    o.of # "none" => Side(asked.game, asked.market, o.name) = o.of

(* The audit's approval covers what is bought later: a record that the      *)
(* dataset calls usable was usable for the audit, where books are listed    *)
(* once.                                                                   *)
DatasetWithinAudit ==
    asked # NoInput /\ asked.kind = "market" /\ IsInjective([i \in DOMAIN asked.books |-> asked.books[i].key])
        => (DatasetUsable("reliable", TRUE, asked.game, asked.market, asked.books)
               => AuditUsable("reliable", TRUE, asked.game, asked.market, asked.books))

(* What the dataset takes from an answer is of the right game, on the right *)
(* side, and was counted by the audit.                                     *)
PricesWellFounded == ListedGameNeverMismapped /\ PricesOnTheirSide /\ DatasetWithinAudit

(* Games outside the frozen cohort never veto a decision, nor carry one:    *)
(* adding a context record changes nothing.                                *)
ContextNeverVetoes ==
    asked # NoInput /\ asked.kind = "decision" =>
        LET without == {r \in asked.records : r.cohort = "fbs_vs_fbs"} IN
        /\ Decision(asked.records) = Decision(without)
        /\ MorningPolicy(asked.records) = MorningPolicy(without)

(* GO means that every market of every later horizon was approved, so no    *)
(* horizon is bought that the audit has not covered.                        *)
GoCoversEveryHorizon ==
    asked # NoInput /\ asked.kind = "decision" /\ Decision(asked.records) = "GO" =>
        \A h \in LaterHorizons, m \in Markets :
            \E r \in asked.records :
                r.horizon = h /\ r.market = m /\ r.usable /\ r.cohort = "fbs_vs_fbs"

(* Each game of the schedule is asked for once in the morning, before its   *)
(* kickoff and before any other kickoff of its day.                        *)
MorningBeforeEveryKickoff ==
    asked # NoInput /\ asked.kind = "plan" =>
        \A g \in asked.games :
            /\ Cardinality({r \in MorningPlan(asked.games) : g.id \in r.games}) = 1
            /\ \A r \in MorningPlan(asked.games), h \in asked.games :
                  g.id \in r.games /\ h.day = g.day => r.at + 180 <= h.kick

(* The robustness sample has two games of a season and phase where there    *)
(* are two, of two kickoff windows where there are two, and a game is asked  *)
(* for once per horizon.                                                   *)
SampleSpreadsOverWindows ==
    asked # NoInput /\ asked.kind = "plan" =>
        LET Cell(g) == {h \in asked.games : h.season = g.season /\ h.phase = g.phase}
            Sampled(g) == {h \in Cell(g) : h.id \in LaterSample(asked.games, asked.rank)}
        IN  /\ \A g \in asked.games :
                /\ Cardinality(Sampled(g)) = Min({2, Cardinality(Cell(g))})
                /\ Cardinality({h.window : h \in Sampled(g)})
                     = Min({2, Cardinality({h.window : h \in Cell(g)})})
            /\ \A r1, r2 \in LaterPlan(asked.games, asked.rank, asked.anchors) :
                  r1.horizon = r2.horizon /\ r1.games \cap r2.games # {} => r1 = r2

(* What is bought is covered: GO and NO-GO rest on the frozen cohort and on *)
(* every horizon, and the plans ask for each game in time and once.         *)
PlansCovered ==
    /\ ContextNeverVetoes /\ GoCoversEveryHorizon
    /\ MorningBeforeEveryKickoff /\ SampleSpreadsOverWindows
=============================================================================
