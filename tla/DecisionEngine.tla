--------------------------- MODULE DecisionEngine ---------------------------
(* One run of construct_portfolio and optimize_parlay on a snapshot of the      *)
(* portfolio, and the approval of what it proposed. Candidates have passed      *)
(* evaluate_candidate; the ranking, a matter of probabilities, is any order, and *)
(* the Kelly allocation is a share of equity in per-mille. Quotients are rounded *)
(* down to whole money units, as _money rounds to cents.                        *)
EXTENDS ApprovalRisk

CONSTANTS
    BetSlot,        \* ids of bets
    NoOffer,        \* no parlay of the day
    Book,           \* portfolios a run may start from: [port, bets, order, cash]
    Candidate,      \* qualified candidates: [leg, class, adjusted]
    Offer,          \* verified parlay quotes: [legs, fraction], legs a set of candidates
    Slate,          \* the slate date of the run
    TopN

VARIABLES
    port, paperBets, paperOrder, paperCash,  \* the portfolio, untouched until approvals begin
    phase,                      \* "sizing", "parlay" or "review"
    considered,                 \* the candidates that were sized so far
    stakes,                     \* recommended stake of each recommended candidate
    offer, parlayStake          \* the parlay of the day; its stake is 0 once approved

engineVars == <<port, paperBets, paperOrder, paperCash, phase, considered, stakes, offer, parlayStake>>

ASSUME TopNAssumption == TopN \in 1..10

\* What the repository loads: finitely many bets of one leg or more, and the settled
\* ones in order.
ASSUME BookAssumption ==
    \A k \in Book :
        /\ k.cash \in Nat
        /\ DOMAIN k.bets \subseteq BetSlot /\ IsFiniteSet(DOMAIN k.bets)
        /\ k.order \in Seq(DOMAIN k.bets)
        /\ \A b \in DOMAIN k.bets :
              /\ k.bets[b].stake \in Nat /\ k.bets[b].pnl \in Int
              /\ k.bets[b].legs # {} /\ IsFiniteSet(k.bets[b].legs)

\* A candidate's Kelly fraction is never negative; its event has finitely many teams.
ASSUME CandidateAssumption ==
    \A c \in Candidate : c.adjusted \in Nat /\ IsFiniteSet(c.leg.teams)

ASSUME OfferAssumption == NoOffer \notin Offer /\ \A o \in Offer : o.fraction \in Nat

EquityNow == paperCash + Reserved(paperBets, port)

PeakNow == PeakEquity(paperBets, paperOrder)

Recommended == DOMAIN stakes

EngineInit ==
    /\ \E k \in Book :
          port = k.port /\ paperBets = k.bets /\ paperOrder = k.order /\ paperCash = k.cash
    /\ phase = "sizing"
    /\ considered = {}
    /\ stakes = <<>>
    /\ offer = NoOffer
    /\ parlayStake = 0

------------------------------------------------------------------------------
(* Exposure as the engine sums it: every open exposure, a parlay once per leg,   *)
(* and the straights recommended so far.                                        *)

RecommendedStake(cs) == Total(stakes, cs)

Used(Member(_)) ==
    ExposedStake(paperBets, {x \in OpenExposures(paperBets, port) : Member(x.leg)})
        + RecommendedStake({c \in Recommended : Member(c.leg)})

UsedToday ==
    ExposedStake(paperBets, {x \in OpenExposures(paperBets, port) : paperBets[x.bet].slate = Slate})
        + RecommendedStake(Recommended)

UsedByParlays ==
    ExposedStake(paperBets, {x \in OpenExposures(paperBets, port) :
                                paperBets[x.bet].slate = Slate /\ paperBets[x.bet].kind = "parlay"})

Share(fraction) == (EquityNow * fraction) \div 1000

\* The state multiplier of _kelly_allocation and optimize_parlay.
Allocation(fraction) ==
    IF Reduced(EquityNow, PeakNow) THEN (EquityNow * fraction * Policy.reducedFactor) \div 1000000
    ELSE Share(fraction)

------------------------------------------------------------------------------
(* _size_candidate *)

\* Mutant: only bets already open are tested for the opposite side.
OpposedToOpen(c) == \E x \in OpenExposures(paperBets, port) : OpposedTo(x.leg, c.leg)

Opposed(c) ==
    \/ \E x \in OpenExposures(paperBets, port) : OpposedTo(x.leg, c.leg)
    \/ \E d \in Recommended : OpposedTo(d.leg, c.leg)

TeamRooms(leg) == {Share(Policy.team) - Used(LAMBDA l : t \in l.teams) : t \in leg.teams}

Rooms(c) ==
    {Share(PerBetFraction(c)),
     Policy.maxStake,
     paperCash - RecommendedStake(Recommended),
     Share(Policy.daily) - UsedToday,
     Share(Policy.game) - Used(LAMBDA l : l.event = c.leg.event),
     Share(Policy.market) - Used(LAMBDA l : l.market = c.leg.market),
     Share(Policy.correlated) - Used(LAMBDA l : l.event = c.leg.event)}
        \cup TeamRooms(c.leg)

StakeFor(c) == Min({Allocation(c.adjusted)} \cup Rooms(c))

Selectable(c) ==
    /\ ~Paused(EquityNow, PeakNow)
    /\ ~Opposed(c)
    /\ StakeFor(c) >= Policy.minStake

\* The loop of construct_portfolio: the next candidate in rank order.
Size(c) ==
    /\ phase = "sizing"
    /\ c \in Candidate \ considered
    /\ Cardinality(Recommended) < TopN
    /\ considered' = considered \cup {c}
    /\ stakes' = IF Selectable(c)
                 THEN [d \in Recommended \cup {c} |-> IF d = c THEN StakeFor(c) ELSE stakes[d]]
                 ELSE stakes
    /\ UNCHANGED <<port, paperBets, paperOrder, paperCash, phase, offer, parlayStake>>

EndSizing ==
    /\ phase = "sizing"
    /\ considered = Candidate \/ Cardinality(Recommended) = TopN
    /\ phase' = "parlay"
    /\ UNCHANGED <<port, paperBets, paperOrder, paperCash, considered, stakes, offer, parlayStake>>

------------------------------------------------------------------------------
(* optimize_parlay *)

ParlayStake(o) ==
    Min({Allocation(IF o.fraction < Policy.parlay THEN o.fraction ELSE Policy.parlay),
         Max({0, Share(Policy.daily) - UsedToday}),
         Max({0, Share(Policy.dailyParlay) - UsedByParlays}),
         paperCash}
        \cup {Share(Policy.game) - Used(LAMBDA l : l.event = c.leg.event) : c \in o.legs}
        \cup UNION {TeamRooms(c.leg) : c \in o.legs})

Eligible(o) ==
    /\ ~Paused(EquityNow, PeakNow)
    /\ Cardinality(o.legs) \in 2..3
    /\ o.legs \subseteq Recommended
    /\ \A c, d \in o.legs :
          c # d => c.leg.event # d.leg.event /\ c.leg.teams \cap d.leg.teams = {}
    /\ ParlayStake(o) >= Policy.minStake

\* The parlay of the day: some eligible quote, or none if there is none.
ChooseParlay ==
    /\ phase = "parlay"
    /\ phase' = "review"
    /\ \/ \E o \in Offer : Eligible(o) /\ offer' = o /\ parlayStake' = ParlayStake(o)
       \/ (\A o \in Offer : ~Eligible(o)) /\ UNCHANGED <<offer, parlayStake>>
    /\ UNCHANGED <<port, paperBets, paperOrder, paperCash, considered, stakes>>

------------------------------------------------------------------------------
(* The rows persist_decision writes and their approval *)

StraightRow(c) ==
    [port |-> port, kind |-> "straight", class |-> c.class, stake |-> stakes[c],
     slate |-> Slate, legs |-> {c.leg}]

ParlayRow ==
    [port |-> port, kind |-> "parlay", class |-> "OPPORTUNISTIC", stake |-> parlayStake,
     slate |-> Slate, legs |-> {c.leg : c \in offer.legs}]

Approvable(row) ==
    /\ paperCash >= row.stake
    /\ WithinRiskLimits(row, paperBets, paperOrder, paperCash)

Open(row, b) ==
    /\ paperBets' = [x \in DOMAIN paperBets \cup {b} |->
                  IF x = b THEN [port |-> row.port, kind |-> row.kind, stake |-> row.stake,
                                 slate |-> row.slate, legs |-> row.legs, status |-> "open", pnl |-> 0]
                  ELSE paperBets[x]]
    /\ paperCash' = paperCash - row.stake

ApproveStraight(c, b) ==
    /\ phase = "review"
    /\ c \in Recommended
    /\ Approvable(StraightRow(c))
    /\ b \in BetSlot \ DOMAIN paperBets
    /\ Open(StraightRow(c), b)
    /\ stakes' = [d \in Recommended \ {c} |-> stakes[d]]
    /\ UNCHANGED <<port, paperOrder, phase, considered, offer, parlayStake>>

ParlayProposed == phase = "review" /\ parlayStake > 0

ParlayApproved == phase = "review" /\ offer # NoOffer /\ parlayStake = 0

ApproveParlay(b) ==
    /\ ParlayProposed
    /\ Approvable(ParlayRow)
    /\ b \in BetSlot \ DOMAIN paperBets
    /\ Open(ParlayRow, b)
    /\ parlayStake' = 0
    /\ UNCHANGED <<port, paperOrder, phase, considered, stakes, offer>>

EngineNext ==
    \/ \E c \in Candidate : Size(c)
    \/ EndSizing
    \/ ChooseParlay
    \/ \E c \in Candidate, b \in BetSlot : ApproveStraight(c, b)
    \/ \E b \in BetSlot : ApproveParlay(b)

EngineSpec == EngineInit /\ [][EngineNext]_engineVars

------------------------------------------------------------------------------
(* Properties *)

EngineTypeOK ==
    /\ port \in {k.port : k \in Book}
    /\ DOMAIN paperBets \subseteq BetSlot
    /\ paperCash \in Nat
    /\ phase \in {"sizing", "parlay", "review"}
    /\ considered \subseteq Candidate
    /\ Recommended \subseteq considered
    /\ \A c \in Recommended : stakes[c] >= Policy.minStake
    /\ offer \in Offer \cup {NoOffer}
    /\ parlayStake \in Nat

\* The engine sizes its straights against each other: until the parlay is
\* approved, whichever of them are, in whichever order, each of the rest still
\* passes the recheck of approve, although the two sum exposure by different rules.
StraightsApprovable ==
    phase = "review" /\ ~ParlayApproved =>
        \A c \in Recommended : Approvable(StraightRow(c))

\* Approving the straights never uses up what the parlay was sized for: the
\* sleeve, the day, its games and its teams still have room for it.
ParlayRoomKept ==
    ParlayProposed =>
        /\ StakeCapsHold(ParlayRow, paperBets, EquityNow)
        /\ NoOpposingPosition(ParlayRow, paperBets)
        /\ \A l \in ParlayRow.legs :
              /\ GroupWithin(LAMBDA m : m.event = l.event, Policy.game, ParlayRow, paperBets, EquityNow)
              /\ \A t \in l.teams :
                    GroupWithin(LAMBDA m : t \in m.teams, Policy.team, ParlayRow, paperBets, EquityNow)

\* What one run recommends, approve still accepts when it is approved piece by piece:
\* the straights among each other, and the parlay's room besides them.
RunApprovable == EngineTypeOK /\ StraightsApprovable /\ ParlayRoomKept
=============================================================================
