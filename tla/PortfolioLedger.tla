--------------------------- MODULE PortfolioLedger ---------------------------
(* The paper portfolio as its database transactions see it: one action per     *)
(* committed transaction of SqlAlchemyPortfolioRepository and                  *)
(* SqlAlchemyRecommendationRepository. A refused or failed operation rolls its  *)
(* transaction back, so it is a step that changes nothing.                     *)
EXTENDS ApprovalRisk

CONSTANTS
    Principal, Portfolio, BetId, Rec, Key,
    Row,            \* Row[r] is the recommendation row the decision engine computed
    Order,          \* bodies of POST /bets after money() rounded the stake
    Payout,         \* payouts of POST /bet-result after money() rounded them
    NoOne, NoKey, NoRec, NoBet

VARIABLES
    owners,     \* rows of owners
    holder,     \* portfolios: owner_id of each external id, or NoOne
    bets,       \* the bets table: a function on the ids recorded so far
    settled,    \* per portfolio, bet ids in the order (settled_at, id)
    ledger,     \* the ledger_entries table, a set of rows
    cash,       \* per portfolio, what SUM(ledger.amount) returns
    recs,       \* recommendations.status
    idem        \* the idempotency_records table, a set of rows

vars == <<owners, holder, bets, settled, ledger, cash, recs, idem>>

Leg == UNION {Row[r].legs : r \in Rec} \cup UNION {o.legs : o \in Order}
OrderType == [stake : Nat, slate : Nat, legs : SUBSET Leg]
RowType == [port : Portfolio, kind : {"straight", "parlay"}, class : {"CORE", "OPPORTUNISTIC"},
            stake : Nat, slate : Nat, legs : SUBSET Leg]

\* A bet has finitely many legs.
ASSUME OrderAssumption == Order \subseteq OrderType /\ \A o \in Order : IsFiniteSet(o.legs)

ASSUME PayoutAssumption == Payout \subseteq Int

ASSUME RowAssumption == Row \in [Rec -> RowType]

ASSUME SentinelAssumption ==
    /\ NoOne \notin Principal
    /\ NoKey \notin Key
    /\ NoRec \notin Rec
    /\ NoBet \notin BetId

\* The legs optimize_parlay lets into one parlay: games of disjoint teams.
SeparateGames(legs) ==
    \A l, m \in legs : l # m => l.event # m.event /\ l.teams \cap m.teams = {}

\* A straight row is one position, and a parlay's legs are separate games.
ASSUME RowShapeAssumption ==
    \A r \in Rec :
        /\ Row[r].kind = "straight" => \E l \in Leg : Row[r].legs = {l}
        /\ SeparateGames(Row[r].legs)
        /\ IsFiniteSet(Row[r].legs)

BetRow == [port : Portfolio, kind : {"straight", "parlay"}, stake : Nat \ {0}, slate : Nat,
           legs : SUBSET Leg, rec : Rec \cup {NoRec}, status : {"open", "settled"}, pnl : Int]

LedgerRow == [port : Portfolio, type : {"initial_funding", "bet_stake", "settlement"},
              bet : BetId \cup {NoBet}, amount : Int, key : Key \cup {NoKey}]

PlaceBody == [port : Portfolio, order : Order]
SettleBody == [port : Portfolio, bet : BetId, result : {"win", "loss", "push"}, payout : Payout]

IdemRow == [owner : Principal, endpoint : {"/bets", "/bet-result"}, key : Key,
            request : PlaceBody \cup SettleBody, response : [bet : BetId, after : Int]]

TypeOK ==
    /\ owners \subseteq Principal
    /\ holder \in [Portfolio -> Principal \cup {NoOne}]
    /\ DOMAIN bets \subseteq BetId
    /\ bets \in [DOMAIN bets -> BetRow]
    /\ settled \in [Portfolio -> Seq(BetId)]
    /\ ledger \subseteq LedgerRow
    /\ cash \in [Portfolio -> Int]
    /\ recs \in [Rec -> {"absent", "proposed", "approved", "rejected"}]
    /\ idem \subseteq IdemRow

Init ==
    /\ owners = {}
    /\ holder = [p \in Portfolio |-> NoOne]
    /\ bets = <<>>
    /\ settled = [p \in Portfolio |-> <<>>]
    /\ ledger = {}
    /\ cash = [p \in Portfolio |-> 0]
    /\ recs = [r \in Rec |-> "absent"]
    /\ idem = {}

------------------------------------------------------------------------------
(* Rows the transactions write *)

FundingEntry(p) ==
    [port |-> p, type |-> "initial_funding", bet |-> NoBet, amount |-> StartingCapital, key |-> NoKey]

StakeEntry(p, b, stake, key) ==
    [port |-> p, type |-> "bet_stake", bet |-> b, amount |-> -stake, key |-> key]

SettlementEntry(p, b, amount, key) ==
    [port |-> p, type |-> "settlement", bet |-> b, amount |-> amount, key |-> key]

OpenBet(p, kind, stake, slate, legs, rec) ==
    [port |-> p, kind |-> kind, stake |-> stake, slate |-> slate, legs |-> legs,
     rec |-> rec, status |-> "open", pnl |-> 0]

\* The idempotency record of a keyed mutation; a mutation without a key leaves none.
IdemRecord(who, endpoint, key, request, response) ==
    IF key = NoKey THEN {}
    ELSE {[owner |-> who, endpoint |-> endpoint, key |-> key,
           request |-> request, response |-> response]}

\* The unique constraint on (owner, endpoint, key) that _execute_mutation inserts
\* against: a key already used is answered from its record and changes nothing.
KeyFree(who, endpoint, key) ==
    ~ \E i \in idem : i.owner = who /\ i.endpoint = endpoint /\ i.key = key

------------------------------------------------------------------------------
(* _load_or_create_portfolio *)

Accessible(who, p) == holder[p] \in {NoOne, who}

OpeningCash(p) == IF holder[p] = NoOne THEN StartingCapital ELSE cash[p]

OpeningEntry(p) == IF holder[p] = NoOne THEN {FundingEntry(p)} ELSE {}

\* Record bet b with its stake entry in portfolio p, creating p on first use.
RecordBet(who, p, b, row, key) ==
    /\ holder' = [holder EXCEPT ![p] = who]
    /\ bets' = [x \in DOMAIN bets \cup {b} |-> IF x = b THEN row ELSE bets[x]]
    /\ ledger' = ledger \cup OpeningEntry(p) \cup {StakeEntry(p, b, row.stake, key)}
    /\ cash' = [cash EXCEPT ![p] = OpeningCash(p) - row.stake]

\* Mutant: a settlement pays the profit and keeps the stake.
SettleProfitOnly(p, b, payout, key) ==
    /\ bets' = [bets EXCEPT ![b].status = "settled", ![b].pnl = payout]
    /\ settled' = [settled EXCEPT ![p] = Append(@, b)]
    /\ ledger' = ledger \cup {SettlementEntry(p, b, payout, key)}
    /\ cash' = [cash EXCEPT ![p] = @ + payout]

\* Settle bet b of portfolio p: the stake and the profit return to cash.
RecordSettlement(p, b, payout, key) ==
    /\ bets' = [bets EXCEPT ![b].status = "settled", ![b].pnl = payout]
    /\ settled' = [settled EXCEPT ![p] = Append(@, b)]
    /\ ledger' = ledger \cup {SettlementEntry(p, b, bets[b].stake + payout, key)}
    /\ cash' = [cash EXCEPT ![p] = @ + bets[b].stake + payout]

------------------------------------------------------------------------------
(* The transactions *)

\* ensure_owner: a transaction of its own, which outlives the request's failure.
EnsureOwner(who) ==
    /\ who \notin owners
    /\ owners' = owners \cup {who}
    /\ UNCHANGED <<holder, bets, settled, ledger, cash, recs, idem>>

\* The first get_portfolio, portfolio_snapshot or persist_decision of a portfolio.
OpenPortfolio(who, p) ==
    /\ holder[p] = NoOne
    /\ owners' = owners \cup {who}
    /\ holder' = [holder EXCEPT ![p] = who]
    /\ ledger' = ledger \cup OpeningEntry(p)
    /\ cash' = [cash EXCEPT ![p] = StartingCapital]
    /\ UNCHANGED <<bets, settled, recs, idem>>

\* Mutant: a stake that rounds to nothing is recorded.
PlaceAnyStake(who, p, b, order, key) ==
    /\ who \in owners
    /\ KeyFree(who, "/bets", key)
    /\ Accessible(who, p)
    /\ OpeningCash(p) >= order.stake
    /\ b \notin DOMAIN bets
    /\ RecordBet(who, p, b,
                 OpenBet(p, "straight", order.stake, order.slate, order.legs, NoRec), key)
    /\ idem' = idem \cup IdemRecord(who, "/bets", key, [port |-> p, order |-> order],
                                    [bet |-> b, after |-> cash'[p]])
    /\ UNCHANGED <<owners, settled, recs>>

\* POST /bets: a direct paper bet, bounded by cash only.
PlaceBet(who, p, b, order, key) ==
    /\ who \in owners
    /\ KeyFree(who, "/bets", key)
    /\ Accessible(who, p)
    /\ order.stake > 0
    /\ OpeningCash(p) >= order.stake
    /\ b \notin DOMAIN bets
    /\ RecordBet(who, p, b,
                 OpenBet(p, "straight", order.stake, order.slate, order.legs, NoRec), key)
    /\ idem' = idem \cup IdemRecord(who, "/bets", key, [port |-> p, order |-> order],
                                    [bet |-> b, after |-> cash'[p]])
    /\ UNCHANGED <<owners, settled, recs>>

\* Mutant: a loss may be any amount.
AnyLoss(result, payout, stake) ==
    \/ result = "win" /\ payout >= 0
    \/ result = "loss" /\ payout <= 0
    \/ result = "push" /\ payout = 0

\* BetResultIn and settle_bet: a win may round to nothing, a loss is the stake.
AcceptedPayout(result, payout, stake) ==
    \/ result = "win" /\ payout >= 0
    \/ result = "loss" /\ payout = -stake
    \/ result = "push" /\ payout = 0

\* POST /bet-result.
SettleBet(who, p, b, result, payout, key) ==
    /\ KeyFree(who, "/bet-result", key)
    /\ holder[p] = who
    /\ b \in DOMAIN bets
    /\ bets[b].port = p
    /\ bets[b].status = "open"
    /\ AcceptedPayout(result, payout, bets[b].stake)
    /\ RecordSettlement(p, b, payout, key)
    /\ idem' = idem \cup IdemRecord(who, "/bet-result", key,
                                    [port |-> p, bet |-> b, result |-> result, payout |-> payout],
                                    [bet |-> b, after |-> cash'[p]])
    /\ UNCHANGED <<owners, holder, recs>>

\* What one decision run may propose: rows of one portfolio and one slate, and at
\* most one parlay, over legs the run also recommends as straights.
OneDecision(rs) ==
    LET straights == {r \in rs : Row[r].kind = "straight"}
    IN  /\ rs # {}
        /\ \A r, q \in rs : Row[r].port = Row[q].port /\ Row[r].slate = Row[q].slate
        /\ Cardinality(rs \ straights) <= 1
        /\ \A r \in rs \ straights : Row[r].legs \subseteq UNION {Row[q].legs : q \in straights}

\* Mutant: a decision may propose a rejected row again.
ProposeAgain(who, rs) ==
    /\ OneDecision(rs)
    /\ \A r \in rs : recs[r] \in {"absent", "rejected"} /\ holder[Row[r].port] = who
    /\ recs' = [r \in Rec |-> IF r \in rs THEN "proposed" ELSE recs[r]]
    /\ UNCHANGED <<owners, holder, bets, settled, ledger, cash, idem>>

\* persist_decision.
PersistDecision(who, rs) ==
    /\ \A r \in rs : recs[r] = "absent" /\ holder[Row[r].port] = who
    /\ OneDecision(rs)
    /\ recs' = [r \in Rec |-> IF r \in rs THEN "proposed" ELSE recs[r]]
    /\ UNCHANGED <<owners, holder, bets, settled, ledger, cash, idem>>

\* POST /recommendations/{id}/approve.
Approve(who, r, b) ==
    LET row == Row[r]
        p   == row.port
    IN  /\ b \notin DOMAIN bets
        /\ recs[r] = "proposed"
        /\ holder[p] = who
        /\ row.stake > 0
        /\ cash[p] >= row.stake
        /\ WithinRiskLimits(row, bets, settled[p], cash[p])
        /\ RecordBet(who, p, b, OpenBet(p, row.kind, row.stake, row.slate, row.legs, r), NoKey)
        /\ recs' = [recs EXCEPT ![r] = "approved"]
        /\ UNCHANGED <<owners, settled, idem>>

\* Mutant: an approved recommendation can still be rejected.
RejectApproved(who, r) ==
    /\ holder[Row[r].port] = who
    /\ recs[r] \in {"proposed", "approved"}
    /\ recs' = [recs EXCEPT ![r] = "rejected"]
    /\ UNCHANGED <<owners, holder, bets, settled, ledger, cash, idem>>

\* POST /recommendations/{id}/reject.
Reject(who, r) ==
    /\ recs[r] = "proposed"
    /\ holder[Row[r].port] = who
    /\ recs' = [recs EXCEPT ![r] = "rejected"]
    /\ UNCHANGED <<owners, holder, bets, settled, ledger, cash, idem>>

Next ==
    \/ \E who \in Principal : EnsureOwner(who)
    \/ \E who \in Principal, p \in Portfolio : OpenPortfolio(who, p)
    \/ \E who \in Principal, p \in Portfolio, b \in BetId, order \in Order, key \in Key \cup {NoKey} :
          PlaceBet(who, p, b, order, key)
    \/ \E who \in Principal, p \in Portfolio, b \in BetId, result \in {"win", "loss", "push"},
          payout \in Payout, key \in Key \cup {NoKey} : SettleBet(who, p, b, result, payout, key)
    \/ \E who \in Principal, rs \in SUBSET Rec : PersistDecision(who, rs)
    \/ \E who \in Principal, r \in Rec, b \in BetId : Approve(who, r, b)
    \/ \E who \in Principal, r \in Rec : Reject(who, r)

Spec == Init /\ [][Next]_vars

------------------------------------------------------------------------------
(* Properties *)

\* No sequence of placements, approvals and settlements overdraws a portfolio:
\* the cash tests of place_bet and approve, and the loss rule of settle_bet.
Solvent == \A p \in Portfolio : cash[p] >= 0

EntriesOf(p) == {e \in ledger : e.port = p}

Realized(p) == PnlOf(bets, BetsWith(bets, p, "settled"))

\* The portfolio keeps the money contract of Account in every step.
AccountContract ==
    INSTANCE Account WITH
        Stake    <- {o.stake : o \in Order} \cup {Row[r].stake : r \in Rec},
        Profit   <- Payout,
        funded   <- {p \in Portfolio : holder[p] # NoOne},
        reserved <- [p \in Portfolio |-> Reserved(bets, p)],
        realized <- [p \in Portfolio |-> Realized(p)]

ImplementsAccount == AccountContract!Spec

\* The unique constraint on (portfolio, reference): the reference is the type and the bet.
UniqueReferences ==
    \A e, f \in ledger : e.port = f.port /\ e.type = f.type /\ e.bet = f.bet => e = f

\* What a ledger row says is true of the portfolio and the bet it names.
EntryBacked(e) ==
    /\ holder[e.port] # NoOne
    /\ e.type = "initial_funding" => e = FundingEntry(e.port)
    /\ e.type # "initial_funding" => e.bet \in DOMAIN bets /\ bets[e.bet].port = e.port
    /\ e.type = "bet_stake" => e.amount = -bets[e.bet].stake
    /\ e.type = "settlement" =>
          /\ bets[e.bet].status = "settled"
          /\ e.amount = bets[e.bet].stake + bets[e.bet].pnl

BetPosted(b) ==
    /\ \E e \in ledger : e.type = "bet_stake" /\ e.bet = b
    /\ bets[b].status = "settled" => \E e \in ledger : e.type = "settlement" /\ e.bet = b

\* Exactly the ledger rows the bets call for: every portfolio funded once, every
\* bet one stake row, every settled bet one settlement row of its stake and
\* profit, all in the bet's own portfolio (place_bet, approve, settle_bet).
LedgerMatchesBets ==
    /\ UniqueReferences
    /\ \A e \in ledger : EntryBacked(e)
    /\ \A p \in Portfolio : holder[p] # NoOne => FundingEntry(p) \in ledger
    /\ \A b \in DOMAIN bets : BetPosted(b)

EntryType(endpoint) == IF endpoint = "/bets" THEN "bet_stake" ELSE "settlement"

\* The ledger rows a keyed request of an owner wrote.
WrittenUnder(i) ==
    {e \in ledger : e.key = i.key /\ e.type = EntryType(i.endpoint) /\ holder[e.port] = i.owner}

WrittenOnce(i) ==
    \E e \in WrittenUnder(i) :
        /\ WrittenUnder(i) = {e}
        /\ e.bet = i.response.bet
        /\ e.port = i.request.port

Recorded(e) ==
    \E i \in idem : i.key = e.key /\ i.owner = holder[e.port] /\ EntryType(i.endpoint) = e.type

\* A key buys one mutation: whatever is retried under it, its record is unique,
\* exactly one ledger row carries it, and the stored answer names that row's bet;
\* and no keyed row was written without its record (_execute_mutation).
OneMutationPerKey ==
    /\ \A i, j \in idem : i.owner = j.owner /\ i.endpoint = j.endpoint /\ i.key = j.key => i = j
    /\ \A i \in idem : WrittenOnce(i)
    /\ \A e \in ledger : e.key # NoKey => Recorded(e)

\* An approved recommendation has exactly one official bet, in its own portfolio
\* and at its own stake; a proposed or rejected one has none (approve, reject).
ApprovedOnce ==
    /\ \A r \in Rec : recs[r] = "approved" => \E b \in DOMAIN bets : bets[b].rec = r
    /\ \A b \in DOMAIN bets : bets[b].rec # NoRec =>
          /\ recs[bets[b].rec] = "approved"
          /\ bets[b].port = Row[bets[b].rec].port
          /\ bets[b].stake = Row[bets[b].rec].stake
    /\ \A b, c \in DOMAIN bets : bets[b].rec = bets[c].rec /\ bets[b].rec # NoRec => b = c

\* What is asked for twice is done once: keyed mutations by their key, approvals by
\* the status of their recommendation (_execute_mutation, approve).
MutatedOnce == OneMutationPerKey /\ ApprovedOnce

Terms(row) == [row EXCEPT !.status = "open", !.pnl = 0]

HistoryKept ==
    /\ ledger \subseteq ledger'
    /\ idem \subseteq idem'
    /\ \A b \in DOMAIN bets :
          /\ b \in DOMAIN bets'
          /\ bets[b].status = "settled" => bets'[b] = bets[b]
          /\ Terms(bets'[b]) = Terms(bets[b])
    /\ \A r \in Rec : recs[r] \in {"approved", "rejected"} => recs'[r] = recs[r]
    /\ \A p \in Portfolio : holder[p] # NoOne => holder'[p] = holder[p]

\* History is append-only: ledger rows and idempotency records are never removed
\* or altered, a bet's terms never change and its settlement is final, a decided
\* recommendation stays decided and a portfolio never changes hands.
NothingUndone == [][HistoryKept]_vars

------------------------------------------------------------------------------
(* Properties of the risk limits *)

Equity(p) == cash[p] + Reserved(bets, p)

Peak(p) == PeakEquity(bets, settled[p])

\* The peak an approval recomputes from the settlement order is the true
\* high-water mark of equity: each step raises it to the new equity or keeps it.
PeakIsHighWater ==
    [][ \A p \in Portfolio : holder'[p] # NoOne => Peak(p)' = Max({Peak(p), Equity(p)'}) ]_vars

ApprovedOpen(p) == {b \in OpenBets(bets, p) : bets[b].rec # NoRec}

\* However approvals, direct bets, wins and losses interleave, the approved open
\* exposure on one slate, game, team or market never passes that cap's share of
\* the highest equity the portfolio has reached.
ApprovedExposureWithinPeak ==
    \A p \in Portfolio :
        LET approved == ApprovedOpen(p)
            exposures == ExposuresOf(bets, approved)
            peak == Peak(p)
            On(Member(_)) == ExposedStake(bets, {x \in exposures : Member(x.leg)})
        IN  /\ \A b \in approved :
                  LET day == {c \in approved : bets[c].slate = bets[b].slate}
                  IN  /\ ~Exceeds(StakeOf(bets, day), peak, Policy.daily)
                      /\ ~Exceeds(StakeOf(bets, {c \in day : bets[c].kind = "parlay"}),
                                  peak, Policy.dailyParlay)
            /\ \A x \in exposures :
                  /\ ~Exceeds(On(LAMBDA l : l.event = x.leg.event), peak, Policy.game)
                  /\ ~Exceeds(On(LAMBDA l : l.event = x.leg.event), peak, Policy.correlated)
                  /\ ~Exceeds(On(LAMBDA l : l.market = x.leg.market), peak, Policy.market)
                  /\ \A t \in x.leg.teams :
                        ~Exceeds(On(LAMBDA l : t \in l.teams), peak, Policy.team)

\* No two approved positions that are open together back opposite sides of the
\* same market of a game, legs of parlays included.
NoOpposingApproved ==
    \A p \in Portfolio :
        \A x, y \in ExposuresOf(bets, ApprovedOpen(p)) : ~OpposedTo(x.leg, y.leg)
=============================================================================
