---------------------------- MODULE ApprovalRisk ----------------------------
(* The risk arithmetic that stands between a proposed recommendation and an   *)
(* official paper bet: portfolio_state of domain/portfolio_engine.py and       *)
(* _open_exposures, _validate_approval_risk of recommendation_repository.py.   *)
(* No state: every operator takes the table of bets it reads, a function from  *)
(* bet ids to rows, and the order in which one portfolio's bets were settled.  *)
(* Money is counted in whole units; a fraction of equity is in per-mille, so   *)
(* the Decimal comparisons of the code are exact here too.                     *)
EXTENDS Integers, Sequences, FiniteSets, FiniteSetsExt, Sums

CONSTANTS
    StartingCapital,    \* settings.starting_capital, the initial funding
    Policy              \* RiskPolicy and ParlayPolicy, fractions in per-mille

PolicyFraction == 0..1000

ASSUME CapitalAssumption == StartingCapital \in Nat \ {0}

\* RiskPolicy and ParlayPolicy, and what their __post_init__ insists on.
PolicyType ==
    {pol \in [maxStake : Nat \ {0}, coreBet : PolicyFraction, oppBet : PolicyFraction,
              daily : PolicyFraction, game : PolicyFraction, team : PolicyFraction,
              market : PolicyFraction, correlated : PolicyFraction,
              reduced : PolicyFraction, paused : PolicyFraction, floor : PolicyFraction,
              reducedFactor : PolicyFraction, minStake : Nat \ {0},
              parlay : 0..7, dailyParlay : Nat] :
        /\ pol.maxStake >= pol.minStake
        /\ pol.reduced < pol.paused
        /\ pol.dailyParlay >= pol.parlay}

ASSUME PolicyAssumption == Policy \in PolicyType

Exceeds(amount, equity, fraction) == amount * 1000 > equity * fraction

------------------------------------------------------------------------------
(* Sums over the table of bets *)

BetsWith(bets, p, status) ==
    {b \in DOMAIN bets : bets[b].port = p /\ bets[b].status = status}

OpenBets(bets, p) == BetsWith(bets, p, "open")

StakeOf(bets, ids) == Total([b \in ids |-> bets[b].stake], ids)

Reserved(bets, p) == StakeOf(bets, OpenBets(bets, p))

\* A straight bet is one exposure; an open parlay is one exposure per leg, each
\* carrying the whole parlay stake (_open_exposures).
ExposuresOf(bets, ids) == UNION {{[bet |-> b, leg |-> l] : l \in bets[b].legs} : b \in ids}

ExposedStake(bets, exposures) == Total([x \in exposures |-> bets[x.bet].stake], exposures)

------------------------------------------------------------------------------
(* The drawdown state *)

PnlOf(bets, ids) == Total([b \in ids |-> bets[b].pnl], ids)

\* Equity after each settlement, counted from the starting bankroll.
EquityPath(bets, order) ==
    [i \in 0..Len(order) |->
        StartingCapital + Total([j \in 1..i |-> bets[order[j]].pnl], 1..i)]

\* Mutant: the peak is the latest equity.
LatestEquity(bets, order) == EquityPath(bets, order)[Len(order)]

PeakEquity(bets, order) == Max({EquityPath(bets, order)[i] : i \in 0..Len(order)})

Paused(equity, peak) ==
    \/ equity * 1000 <= StartingCapital * Policy.floor
    \/ peak > 0 /\ (peak - equity) * 1000 >= peak * Policy.paused

\* REDUCED_RISK, which halves new positions.
Reduced(equity, peak) ==
    /\ ~Paused(equity, peak)
    /\ peak > 0 => (peak - equity) * 1000 >= peak * Policy.reduced
    /\ peak <= 0 => Policy.reduced = 0

------------------------------------------------------------------------------
(* The recheck an approval makes before it creates the bet *)

PerBetFraction(row) == IF row.class = "CORE" THEN Policy.coreBet ELSE Policy.oppBet

StakeCapsHold(row, bets, equity) ==
    LET sameDay == {b \in OpenBets(bets, row.port) : bets[b].slate = row.slate}
        parlays == {b \in sameDay : bets[b].kind = "parlay"}
    IN  /\ ~Exceeds(StakeOf(bets, sameDay) + row.stake, equity, Policy.daily)
        /\ row.kind = "parlay" =>
              /\ ~Exceeds(row.stake, equity, Policy.parlay)
              /\ ~Exceeds(StakeOf(bets, parlays) + row.stake, equity, Policy.dailyParlay)
        /\ row.kind = "straight" =>
              /\ row.stake <= Policy.maxStake
              /\ ~Exceeds(row.stake, equity, PerBetFraction(row))

\* Mutant: the legs of open parlays are left out.
StraightExposures(bets, p) ==
    ExposuresOf(bets, {b \in OpenBets(bets, p) : bets[b].kind = "straight"})

OpenExposures(bets, p) == ExposuresOf(bets, OpenBets(bets, p))

\* One cap on one group of exposures: what is open in the group, plus the
\* proposed stake once for each of the proposal's own legs in the group.
GroupWithin(Member(_), fraction, row, bets, equity) ==
    LET held     == {x \in OpenExposures(bets, row.port) : Member(x.leg)}
        proposed == row.stake * Cardinality({l \in row.legs : Member(l)})
    IN  ~Exceeds(ExposedStake(bets, held) + proposed, equity, fraction)

OpposedTo(leg, other) ==
    /\ leg.event = other.event
    /\ leg.market = other.market
    /\ leg.side # other.side

LegCapsHold(row, bets, equity) ==
    \A target \in row.legs :
        /\ GroupWithin(LAMBDA l : l.event = target.event, Policy.game, row, bets, equity)
        /\ GroupWithin(LAMBDA l : l.event = target.event, Policy.correlated, row, bets, equity)
        /\ GroupWithin(LAMBDA l : l.market = target.market, Policy.market, row, bets, equity)
        /\ \A t \in target.teams :
              GroupWithin(LAMBDA l : t \in l.teams, Policy.team, row, bets, equity)

\* Mutant: only straight bets are tested for the opposite side.
NoOpposingStraight(row, bets) ==
    \A x \in OpenExposures(bets, row.port), target \in row.legs :
        bets[x.bet].kind = "straight" => ~OpposedTo(x.leg, target)

NoOpposingPosition(row, bets) ==
    \A x \in OpenExposures(bets, row.port), target \in row.legs :
        ~OpposedTo(x.leg, target)

WithinRiskLimits(row, bets, order, cash) ==
    LET equity == cash + Reserved(bets, row.port)
    IN  /\ ~Paused(equity, PeakEquity(bets, order))
        /\ StakeCapsHold(row, bets, equity)
        /\ LegCapsHold(row, bets, equity)
        /\ NoOpposingPosition(row, bets)
=============================================================================
