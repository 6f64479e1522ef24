------------------------ MODULE PortfolioLedgerProofs ------------------------
(* What PortfolioLedger guarantees for every set of principals, portfolios,     *)
(* recommendations, keys and bodies. The risk limits stay opaque: no proof here *)
(* rests on them. First rows and keys, then the money: the ledger implements the *)
(* contract of Account, so nothing is made or lost, and the peak an approval      *)
(* recomputes is the high-water mark of equity.                                  *)
EXTENDS PortfolioLedger, SumProofs

------------------------------------------------------------------------------
(* Rows have their types *)

\* The bet row that place_bet and approve build is well typed.
LEMMA OpenBetType ==
  ASSUME NEW p \in Portfolio, NEW kind \in {"straight", "parlay"}, NEW stake \in Nat \ {0},
         NEW slate \in Nat, NEW legs \in SUBSET Leg, NEW rec \in Rec \cup {NoRec}
  PROVE  OpenBet(p, kind, stake, slate, legs, rec) \in BetRow
BY DEF OpenBet, BetRow

\* The initial_funding row is well typed.
LEMMA FundingTyping == \A p \in Portfolio : FundingEntry(p) \in LedgerRow
BY CapitalAssumption DEF FundingEntry, LedgerRow

\* Stake and settlement rows are well typed whatever their amount.
LEMMA EntryTyping ==
  ASSUME NEW p \in Portfolio, NEW b \in BetId, NEW amount \in Int, NEW key \in Key \cup {NoKey}
  PROVE  /\ StakeEntry(p, b, amount, key) \in LedgerRow
         /\ SettlementEntry(p, b, amount, key) \in LedgerRow
BY DEF StakeEntry, SettlementEntry, LedgerRow

\* The idempotency record of POST /bets is well typed.
LEMMA PlaceRecordType ==
  ASSUME NEW who \in Principal, NEW key \in Key \cup {NoKey}, NEW p \in Portfolio,
         NEW order \in Order, NEW b \in BetId, NEW after \in Int
  PROVE  IdemRecord(who, "/bets", key, [port |-> p, order |-> order], [bet |-> b, after |-> after])
           \subseteq IdemRow
BY DEF IdemRecord, IdemRow, PlaceBody

\* The idempotency record of POST /bet-result is well typed.
LEMMA SettleRecordType ==
  ASSUME NEW who \in Principal, NEW key \in Key \cup {NoKey}, NEW p \in Portfolio,
         NEW b \in BetId, NEW result \in {"win", "loss", "push"}, NEW payout \in Payout,
         NEW after \in Int
  PROVE  IdemRecord(who, "/bet-result", key,
                    [port |-> p, bet |-> b, result |-> result, payout |-> payout],
                    [bet |-> b, after |-> after])
           \subseteq IdemRow
BY DEF IdemRecord, IdemRow, SettleBody

\* Recording a bet keeps the tables it writes well typed.
LEMMA RecordBetType ==
  ASSUME TypeOK, NEW who \in Principal, NEW p \in Portfolio, NEW b \in BetId,
         NEW row \in BetRow, NEW key \in Key \cup {NoKey}, RecordBet(who, p, b, row, key)
  PROVE  /\ holder' \in [Portfolio -> Principal \cup {NoOne}]
         /\ DOMAIN bets' \subseteq BetId
         /\ bets' \in [DOMAIN bets' -> BetRow]
         /\ ledger' \subseteq LedgerRow
         /\ cash' \in [Portfolio -> Int]
<1>1. row.stake \in Int
  BY DEF BetRow
<1>2. OpeningCash(p) \in Int /\ OpeningEntry(p) \subseteq LedgerRow
  BY CapitalAssumption, FundingTyping DEF OpeningCash, OpeningEntry, TypeOK
<1>3. StakeEntry(p, b, row.stake, key) \in LedgerRow
  BY <1>1, EntryTyping
<1>4. QED
  BY <1>1, <1>2, <1>3 DEF RecordBet, TypeOK

\* Every transaction of the two repositories keeps the tables well typed: bets have a
\* positive stake, ledger rows an integer amount, recommendations a known status.
LEMMA TypeStep == TypeOK /\ [Next]_vars => TypeOK'
<1> SUFFICES ASSUME TypeOK, [Next]_vars PROVE TypeOK'
  OBVIOUS
<1>1. ASSUME NEW who \in Principal, EnsureOwner(who) PROVE TypeOK'
  BY <1>1 DEF EnsureOwner, TypeOK
<1>2. ASSUME NEW who \in Principal, NEW p \in Portfolio, OpenPortfolio(who, p) PROVE TypeOK'
  BY <1>2, CapitalAssumption, FundingTyping DEF OpenPortfolio, OpeningEntry, TypeOK
<1>3. ASSUME NEW who \in Principal, NEW p \in Portfolio, NEW b \in BetId, NEW order \in Order,
             NEW key \in Key \cup {NoKey}, PlaceBet(who, p, b, order, key)
      PROVE  TypeOK'
  <2> DEFINE row == OpenBet(p, "straight", order.stake, order.slate, order.legs, NoRec)
  <2>1. row \in BetRow
    BY <1>3, OrderAssumption, OpenBetType DEF PlaceBet, OrderType
  <2>2. RecordBet(who, p, b, row, key)
    BY <1>3 DEF PlaceBet
  <2> HIDE DEF row
  <2>3. /\ holder' \in [Portfolio -> Principal \cup {NoOne}]
        /\ DOMAIN bets' \subseteq BetId
        /\ bets' \in [DOMAIN bets' -> BetRow]
        /\ ledger' \subseteq LedgerRow
        /\ cash' \in [Portfolio -> Int]
    BY <2>1, <2>2, RecordBetType
  <2>4. idem' \subseteq IdemRow
    BY <1>3, <2>3, PlaceRecordType DEF PlaceBet, TypeOK
  <2>5. QED
    BY <1>3, <2>3, <2>4 DEF PlaceBet, TypeOK
<1>4. ASSUME NEW who \in Principal, NEW p \in Portfolio, NEW b \in BetId,
             NEW result \in {"win", "loss", "push"}, NEW payout \in Payout,
             NEW key \in Key \cup {NoKey}, SettleBet(who, p, b, result, payout, key)
      PROVE  TypeOK'
  <2>1. bets[b] \in BetRow /\ payout \in Int
    BY <1>4, PayoutAssumption DEF SettleBet, RecordSettlement, TypeOK
  <2>2. bets' \in [DOMAIN bets' -> BetRow] /\ DOMAIN bets' \subseteq BetId
    BY <1>4, <2>1 DEF SettleBet, RecordSettlement, TypeOK, BetRow
  <2>3. bets[b].stake + payout \in Int
    BY <2>1 DEF BetRow
  <2>4. cash' \in [Portfolio -> Int]
    BY <1>4, <2>1, <2>3 DEF SettleBet, RecordSettlement, TypeOK, BetRow
  <2>5. ledger' \subseteq LedgerRow
    BY <1>4, <2>3, EntryTyping DEF SettleBet, RecordSettlement, TypeOK
  <2>6. idem' \subseteq IdemRow
    <3> DEFINE record == IdemRecord(who, "/bet-result", key,
                           [port |-> p, bet |-> b, result |-> result, payout |-> payout],
                           [bet |-> b, after |-> cash'[p]])
    <3>1. record \subseteq IdemRow
      BY <2>4, SettleRecordType
    <3>2. idem' = idem \cup record
      BY <1>4 DEF SettleBet, RecordSettlement
    <3>3. QED
      BY <3>1, <3>2 DEF TypeOK
  <2>7. QED
    BY <1>4, <2>2, <2>4, <2>5, <2>6 DEF SettleBet, RecordSettlement, TypeOK
<1>5. ASSUME NEW who \in Principal, NEW rs \in SUBSET Rec, PersistDecision(who, rs) PROVE TypeOK'
  BY <1>5 DEF PersistDecision, TypeOK
<1>6. ASSUME NEW who \in Principal, NEW r \in Rec, NEW b \in BetId, Approve(who, r, b) PROVE TypeOK'
  <2> DEFINE p == Row[r].port
             row == OpenBet(p, Row[r].kind, Row[r].stake, Row[r].slate, Row[r].legs, r)
  <2>0. p \in Portfolio
    BY RowAssumption DEF RowType
  <2>1. row \in BetRow
    BY <1>6, RowAssumption, OpenBetType DEF Approve, RowType
  <2>2. RecordBet(who, p, b, row, NoKey)
    BY <1>6 DEF Approve
  <2> HIDE DEF row, p
  <2>3. /\ holder' \in [Portfolio -> Principal \cup {NoOne}]
        /\ DOMAIN bets' \subseteq BetId
        /\ bets' \in [DOMAIN bets' -> BetRow]
        /\ ledger' \subseteq LedgerRow
        /\ cash' \in [Portfolio -> Int]
    BY <2>0, <2>1, <2>2, RecordBetType
  <2>4. QED
    BY <1>6, <2>3 DEF Approve, TypeOK
<1>7. ASSUME NEW who \in Principal, NEW r \in Rec, Reject(who, r) PROVE TypeOK'
  BY <1>7 DEF Reject, TypeOK
<1>8. CASE UNCHANGED vars
  BY <1>8 DEF vars, TypeOK
<1>9. QED
  BY <1>1, <1>2, <1>3, <1>4, <1>5, <1>6, <1>7, <1>8 DEF Next

\* The tables are well typed in every behaviour of the portfolio, for every set of
\* owners, portfolios, bets, recommendations and keys.
THEOREM LedgerTyping == Spec => []TypeOK
<1>1. Init => TypeOK
  BY DEF Init, TypeOK
<1>2. QED
  BY <1>1, TypeStep, PTL DEF Spec

------------------------------------------------------------------------------
(* Solvency *)

\* No portfolio is ever overdrawn, whoever stakes, approves and settles in which
\* order: a stake leaves cash only if it is there, and a settlement returns the
\* stake with a loss no larger.
THEOREM LedgerSolvent == Spec => []Solvent
<1>1. Init => Solvent
  BY DEF Init, Solvent
<1>2. TypeOK /\ Solvent /\ [Next]_vars => Solvent'
  <2> SUFFICES ASSUME TypeOK, Solvent, [Next]_vars PROVE Solvent'
    OBVIOUS
  <2> USE DEF Solvent, TypeOK
  <2>1. ASSUME NEW who \in Principal, EnsureOwner(who) PROVE Solvent'
    BY <2>1 DEF EnsureOwner
  <2>2. ASSUME NEW who \in Principal, NEW p \in Portfolio, OpenPortfolio(who, p) PROVE Solvent'
    BY <2>2, CapitalAssumption DEF OpenPortfolio
  <2>3. ASSUME NEW who \in Principal, NEW p \in Portfolio, NEW b \in BetId, NEW order \in Order,
               NEW key \in Key \cup {NoKey}, PlaceBet(who, p, b, order, key)
        PROVE  Solvent'
    <3>1. cash' = [cash EXCEPT ![p] = OpeningCash(p) - order.stake]
      BY <2>3 DEF PlaceBet, RecordBet, OpenBet
    <3>2. OpeningCash(p) >= order.stake /\ order.stake \in Nat /\ OpeningCash(p) \in Int
      BY <2>3, CapitalAssumption, OrderAssumption DEF PlaceBet, OrderType, OpeningCash
    <3>3. QED
      BY <3>1, <3>2
  <2>4. ASSUME NEW who \in Principal, NEW p \in Portfolio, NEW b \in BetId,
               NEW result \in {"win", "loss", "push"}, NEW payout \in Payout,
               NEW key \in Key \cup {NoKey}, SettleBet(who, p, b, result, payout, key)
        PROVE  Solvent'
    <3>1. bets[b].stake \in Nat /\ payout \in Int
      BY <2>4, PayoutAssumption DEF SettleBet, RecordSettlement, BetRow
    <3>2. bets[b].stake + payout >= 0
      BY <2>4, <3>1 DEF SettleBet, RecordSettlement, AcceptedPayout
    <3>3. cash' = [cash EXCEPT ![p] = @ + bets[b].stake + payout]
      BY <2>4 DEF SettleBet, RecordSettlement
    <3>4. QED
      BY <3>1, <3>2, <3>3
  <2>5. ASSUME NEW who \in Principal, NEW rs \in SUBSET Rec, PersistDecision(who, rs) PROVE Solvent'
    BY <2>5 DEF PersistDecision
  <2>6. ASSUME NEW who \in Principal, NEW r \in Rec, NEW b \in BetId, Approve(who, r, b) PROVE Solvent'
    <3> DEFINE p == Row[r].port
    <3>1. p \in Portfolio /\ Row[r].stake \in Nat
      BY RowAssumption DEF RowType
    <3>2. holder[p] # NoOne
      BY <2>6, SentinelAssumption DEF Approve
    <3>3. cash' = [cash EXCEPT ![p] = cash[p] - Row[r].stake]
      BY <2>6, <3>2 DEF Approve, RecordBet, OpenBet, OpeningCash
    <3>4. cash[p] >= Row[r].stake
      BY <2>6 DEF Approve
    <3>5. QED
      BY <3>1, <3>3, <3>4
  <2>7. ASSUME NEW who \in Principal, NEW r \in Rec, Reject(who, r) PROVE Solvent'
    BY <2>7 DEF Reject
  <2>8. CASE UNCHANGED vars
    BY <2>8 DEF vars
  <2>9. QED
    BY <2>1, <2>2, <2>3, <2>4, <2>5, <2>6, <2>7, <2>8 DEF Next
<1>3. QED
  BY LedgerTyping, <1>1, <1>2, PTL DEF Spec

------------------------------------------------------------------------------
(* One official bet per approval *)

\* An approved recommendation has exactly one bet of its own portfolio and stake,
\* and no other recommendation has any: an approval needs the status "proposed",
\* which by this very invariant means that no bet carries it yet.
THEOREM LedgerApprovedOnce == Spec => []ApprovedOnce
<1>1. Init => ApprovedOnce
  BY DEF Init, ApprovedOnce
<1>2. TypeOK /\ ApprovedOnce /\ [Next]_vars => ApprovedOnce'
  <2> SUFFICES ASSUME TypeOK, ApprovedOnce, [Next]_vars PROVE ApprovedOnce'
    OBVIOUS
  <2>1. ASSUME NEW who \in Principal, EnsureOwner(who) PROVE ApprovedOnce'
    BY <2>1 DEF EnsureOwner, ApprovedOnce
  <2>2. ASSUME NEW who \in Principal, NEW p \in Portfolio, OpenPortfolio(who, p) PROVE ApprovedOnce'
    BY <2>2 DEF OpenPortfolio, ApprovedOnce
  <2>3. ASSUME NEW who \in Principal, NEW p \in Portfolio, NEW b \in BetId, NEW order \in Order,
               NEW key \in Key \cup {NoKey}, PlaceBet(who, p, b, order, key)
        PROVE  ApprovedOnce'
    <3>1. /\ bets' = [x \in DOMAIN bets \cup {b} |->
                        IF x = b THEN OpenBet(p, "straight", order.stake, order.slate, order.legs, NoRec)
                        ELSE bets[x]]
          /\ b \notin DOMAIN bets
          /\ recs' = recs
      BY <2>3 DEF PlaceBet, RecordBet
    <3>2. bets'[b].rec = NoRec /\ \A x \in DOMAIN bets : bets'[x] = bets[x]
      BY <3>1 DEF OpenBet
    <3>3. QED
      BY <3>1, <3>2, SentinelAssumption DEF ApprovedOnce
  <2>4. ASSUME NEW who \in Principal, NEW p \in Portfolio, NEW b \in BetId,
               NEW result \in {"win", "loss", "push"}, NEW payout \in Payout,
               NEW key \in Key \cup {NoKey}, SettleBet(who, p, b, result, payout, key)
        PROVE  ApprovedOnce'
    <3>1. recs' = recs /\ DOMAIN bets' = DOMAIN bets
      BY <2>4 DEF SettleBet, RecordSettlement
    <3>2. \A x \in DOMAIN bets : /\ bets'[x].rec = bets[x].rec
                                 /\ bets'[x].port = bets[x].port
                                 /\ bets'[x].stake = bets[x].stake
      BY <2>4 DEF SettleBet, RecordSettlement, TypeOK, BetRow
    <3>3. QED
      BY <3>1, <3>2 DEF ApprovedOnce
  <2>5. ASSUME NEW who \in Principal, NEW rs \in SUBSET Rec, PersistDecision(who, rs) PROVE ApprovedOnce'
    <3>1. bets' = bets
      BY <2>5 DEF PersistDecision
    <3>2. \A r \in Rec : recs'[r] = "approved" <=> recs[r] = "approved"
      BY <2>5 DEF PersistDecision
    <3>3. \A b \in DOMAIN bets : bets[b].rec # NoRec => bets[b].rec \in Rec
      BY DEF TypeOK, BetRow
    <3>4. QED
      BY <3>1, <3>2, <3>3 DEF ApprovedOnce
  <2>6. ASSUME NEW who \in Principal, NEW r \in Rec, NEW b \in BetId, Approve(who, r, b)
        PROVE  ApprovedOnce'
    <3> DEFINE row == OpenBet(Row[r].port, Row[r].kind, Row[r].stake, Row[r].slate, Row[r].legs, r)
    <3>1. /\ bets' = [x \in DOMAIN bets \cup {b} |-> IF x = b THEN row ELSE bets[x]]
          /\ b \notin DOMAIN bets
          /\ recs[r] = "proposed"
          /\ recs' = [recs EXCEPT ![r] = "approved"]
      BY <2>6 DEF Approve, RecordBet
    <3>2. row.rec = r /\ row.port = Row[r].port /\ row.stake = Row[r].stake
      BY DEF OpenBet
    <3> HIDE DEF row
    <3>3. r # NoRec
      BY SentinelAssumption
    <3>4. \A x \in DOMAIN bets : bets[x].rec # r
      BY <3>1, <3>3 DEF ApprovedOnce
    <3>5. \A x \in DOMAIN bets : bets[x].rec # NoRec => bets[x].rec \in Rec
      BY DEF TypeOK, BetRow
    <3>6. recs'[r] = "approved" /\ \A q \in Rec \ {r} : recs'[q] = recs[q]
      BY <3>1 DEF TypeOK
    <3>7. \A q \in Rec : recs'[q] = "approved" => \E x \in DOMAIN bets' : bets'[x].rec = q
      BY <3>1, <3>2, <3>6 DEF ApprovedOnce
    <3>8. \A x \in DOMAIN bets' : bets'[x].rec # NoRec =>
             /\ recs'[bets'[x].rec] = "approved"
             /\ bets'[x].port = Row[bets'[x].rec].port
             /\ bets'[x].stake = Row[bets'[x].rec].stake
      BY <3>1, <3>2, <3>4, <3>5, <3>6 DEF ApprovedOnce
    <3>9. \A x, y \in DOMAIN bets' : bets'[x].rec = bets'[y].rec /\ bets'[x].rec # NoRec => x = y
      BY <3>1, <3>2, <3>4 DEF ApprovedOnce
    <3>10. QED
      BY <3>7, <3>8, <3>9 DEF ApprovedOnce
  <2>7. ASSUME NEW who \in Principal, NEW r \in Rec, Reject(who, r) PROVE ApprovedOnce'
    <3>1. bets' = bets
      BY <2>7 DEF Reject
    <3>2. \A q \in Rec : recs'[q] = "approved" <=> recs[q] = "approved"
      BY <2>7 DEF Reject, TypeOK
    <3>3. \A b \in DOMAIN bets : bets[b].rec # NoRec => bets[b].rec \in Rec
      BY DEF TypeOK, BetRow
    <3>4. QED
      BY <3>1, <3>2, <3>3 DEF ApprovedOnce
  <2>8. CASE UNCHANGED vars
    BY <2>8 DEF vars, ApprovedOnce
  <2>9. QED
    BY <2>1, <2>2, <2>3, <2>4, <2>5, <2>6, <2>7, <2>8 DEF Next
<1>3. QED
  BY LedgerTyping, <1>1, <1>2, PTL DEF Spec

------------------------------------------------------------------------------
(* The ledger says what the bets say *)

\* Recording a new bet adds the two or three rows it calls for and no other.
LEMMA RecordBetKeepsLedger ==
  ASSUME TypeOK, LedgerMatchesBets, NEW who \in Principal, NEW p \in Portfolio, NEW b \in BetId,
         NEW row \in BetRow, NEW key \in Key \cup {NoKey}, RecordBet(who, p, b, row, key),
         Accessible(who, p), b \notin DOMAIN bets, row.port = p, row.status = "open"
  PROVE  LedgerMatchesBets'
<1> DEFINE stakeEntry == StakeEntry(p, b, row.stake, key)
<1>1. /\ stakeEntry.port = p /\ stakeEntry.type = "bet_stake" /\ stakeEntry.bet = b
      /\ stakeEntry.amount = -row.stake /\ stakeEntry.key = key
  BY DEF StakeEntry
<1>2. \A q \in Portfolio : /\ FundingEntry(q).port = q /\ FundingEntry(q).type = "initial_funding"
                           /\ FundingEntry(q).bet = NoBet
  BY DEF FundingEntry
<1>3. /\ bets' = [x \in DOMAIN bets \cup {b} |-> IF x = b THEN row ELSE bets[x]]
      /\ ledger' = ledger \cup OpeningEntry(p) \cup {stakeEntry}
      /\ holder' = [holder EXCEPT ![p] = who]
  BY DEF RecordBet
<1> HIDE DEF stakeEntry
<1>4. holder'[p] = who /\ who # NoOne /\ \A q \in Portfolio \ {p} : holder'[q] = holder[q]
  BY <1>3, SentinelAssumption DEF TypeOK
<1>5. \A x \in DOMAIN bets : bets'[x] = bets[x] /\ x \in DOMAIN bets'
  BY <1>3
<1>6. bets'[b] = row /\ DOMAIN bets' = DOMAIN bets \cup {b}
  BY <1>3
<1>7. \A e \in ledger : e.port \in Portfolio /\ EntryBacked(e)
  BY DEF LedgerMatchesBets, TypeOK, LedgerRow
<1>8. \A e \in ledger : e.type = "bet_stake" => e.bet # b
  BY <1>7 DEF EntryBacked
<1>9. holder[p] = NoOne => \A e \in ledger : e.port # p
  BY <1>7 DEF EntryBacked
<1>10. OpeningEntry(p) \subseteq {FundingEntry(p)} /\ (OpeningEntry(p) # {} => holder[p] = NoOne)
  BY DEF OpeningEntry
<1>11. UniqueReferences'
  <2> SUFFICES ASSUME NEW e \in ledger', NEW f \in ledger',
                      e.port = f.port, e.type = f.type, e.bet = f.bet
               PROVE  e = f
    BY DEF UniqueReferences
  <2>1. CASE e \in ledger /\ f \in ledger
    BY <2>1 DEF LedgerMatchesBets, UniqueReferences
  <2>2. CASE e = stakeEntry \/ f = stakeEntry
    BY <2>2, <1>1, <1>2, <1>3, <1>8, <1>10
  <2>3. CASE e \in OpeningEntry(p) \/ f \in OpeningEntry(p)
    BY <2>2, <2>3, <1>2, <1>3, <1>9, <1>10
  <2>4. QED
    BY <2>1, <2>2, <2>3, <1>3
<1>12. ASSUME NEW e \in ledger' PROVE EntryBacked(e)'
  <2>1. CASE e \in ledger
    <3>1. e.port \in Portfolio /\ EntryBacked(e)
      BY <2>1, <1>7
    <3>2. holder'[e.port] # NoOne
      BY <3>1, <1>4 DEF EntryBacked
    <3>3. e.type # "initial_funding" => bets'[e.bet] = bets[e.bet] /\ e.bet \in DOMAIN bets'
      BY <3>1, <1>5 DEF EntryBacked
    <3>4. QED
      BY <3>1, <3>2, <3>3 DEF EntryBacked, FundingEntry
  <2>2. CASE e = stakeEntry
    BY <2>2, <1>1, <1>4, <1>6 DEF EntryBacked
  <2>3. CASE e = FundingEntry(p)
    BY <2>3, <1>2, <1>4 DEF EntryBacked, FundingEntry
  <2>4. QED
    BY <2>1, <2>2, <2>3, <1>3, <1>10
<1>13. \A q \in Portfolio : holder'[q] # NoOne => FundingEntry(q) \in ledger'
  BY <1>3, <1>4 DEF LedgerMatchesBets, OpeningEntry
<1>14. \A x \in DOMAIN bets' : BetPosted(x)'
  BY <1>1, <1>3, <1>5, <1>6 DEF LedgerMatchesBets, BetPosted
<1>15. \A q \in Portfolio : FundingEntry(q)' = FundingEntry(q)
  BY DEF FundingEntry
<1>16. QED
  BY <1>11, <1>12, <1>13, <1>14, <1>15 DEF LedgerMatchesBets

\* A settlement adds one row, of the bet that was open until then.
LEMMA SettleKeepsLedger ==
  ASSUME TypeOK, LedgerMatchesBets, NEW who \in Principal, NEW p \in Portfolio, NEW b \in BetId,
         NEW result \in {"win", "loss", "push"}, NEW payout \in Payout,
         NEW key \in Key \cup {NoKey}, SettleBet(who, p, b, result, payout, key)
  PROVE  LedgerMatchesBets'
<1> DEFINE entry == SettlementEntry(p, b, bets[b].stake + payout, key)
<1>1. /\ entry.port = p /\ entry.type = "settlement" /\ entry.bet = b
      /\ entry.amount = bets[b].stake + payout
  BY DEF SettlementEntry
<1>2. /\ b \in DOMAIN bets /\ bets[b].port = p /\ bets[b].status = "open"
      /\ holder' = holder /\ ledger' = ledger \cup {entry}
      /\ holder[p] # NoOne
      /\ bets' = [bets EXCEPT ![b].status = "settled", ![b].pnl = payout]
  BY SentinelAssumption DEF SettleBet, RecordSettlement
<1> HIDE DEF entry
<1>3. bets[b] \in BetRow /\ DOMAIN bets' = DOMAIN bets
  BY <1>2 DEF TypeOK
<1>4. /\ bets'[b].status = "settled" /\ bets'[b].pnl = payout
      /\ bets'[b].stake = bets[b].stake /\ bets'[b].port = p
  BY <1>2, <1>3 DEF BetRow
<1>5. \A x \in DOMAIN bets \ {b} : bets'[x] = bets[x]
  BY <1>2
<1>6. \A e \in ledger : e.port \in Portfolio /\ EntryBacked(e)
  BY DEF LedgerMatchesBets, TypeOK, LedgerRow
<1>7. \A e \in ledger : e.type = "settlement" => e.bet # b
  BY <1>2, <1>6 DEF EntryBacked
<1>8. UniqueReferences'
  BY <1>1, <1>2, <1>7 DEF LedgerMatchesBets, UniqueReferences
<1>9. ASSUME NEW e \in ledger' PROVE EntryBacked(e)'
  <2>1. CASE e \in ledger
    BY <2>1, <1>2, <1>3, <1>4, <1>5, <1>6, <1>7 DEF EntryBacked, FundingEntry
  <2>2. CASE e = entry
    BY <2>2, <1>1, <1>2, <1>3, <1>4 DEF EntryBacked
  <2>3. QED
    BY <2>1, <2>2, <1>2
<1>10. \A q \in Portfolio : holder'[q] # NoOne => FundingEntry(q)' \in ledger'
  BY <1>2 DEF LedgerMatchesBets, FundingEntry
<1>11. \A x \in DOMAIN bets' : BetPosted(x)'
  BY <1>1, <1>2, <1>3, <1>4, <1>5 DEF LedgerMatchesBets, BetPosted
<1>12. QED
  BY <1>8, <1>9, <1>10, <1>11 DEF LedgerMatchesBets

\* A step that leaves bets, holders and ledger alone keeps the invariant.
LEMMA FrameKeepsLedger ==
  ASSUME LedgerMatchesBets, UNCHANGED <<holder, bets, ledger>>
  PROVE  LedgerMatchesBets'
BY DEF LedgerMatchesBets, UniqueReferences, EntryBacked, BetPosted, FundingEntry

\* _load_or_create_portfolio adds the one funding row of the portfolio it creates.
LEMMA OpenPortfolioKeepsLedger ==
  ASSUME TypeOK, LedgerMatchesBets, NEW who \in Principal, NEW p \in Portfolio,
         OpenPortfolio(who, p)
  PROVE  LedgerMatchesBets'
<1>1. /\ holder[p] = NoOne /\ holder' = [holder EXCEPT ![p] = who] /\ who # NoOne
      /\ ledger' = ledger \cup {FundingEntry(p)} /\ bets' = bets
  BY SentinelAssumption DEF OpenPortfolio, OpeningEntry
<1>2. holder'[p] # NoOne /\ \A q \in Portfolio \ {p} : holder'[q] = holder[q]
  BY <1>1 DEF TypeOK
<1>3. \A e \in ledger : e.port \in Portfolio /\ EntryBacked(e) /\ e.port # p
  BY <1>1 DEF LedgerMatchesBets, TypeOK, LedgerRow, EntryBacked
<1>4. FundingEntry(p).port = p /\ FundingEntry(p).type = "initial_funding"
  BY DEF FundingEntry
<1>5. UniqueReferences'
  BY <1>1, <1>3, <1>4 DEF LedgerMatchesBets, UniqueReferences
<1>6. \A e \in ledger' : EntryBacked(e)'
  BY <1>1, <1>2, <1>3, <1>4 DEF EntryBacked, FundingEntry
<1>7. \A q \in Portfolio : holder'[q] # NoOne => FundingEntry(q)' \in ledger'
  BY <1>1, <1>2 DEF LedgerMatchesBets, FundingEntry
<1>8. \A x \in DOMAIN bets' : BetPosted(x)'
  BY <1>1 DEF LedgerMatchesBets, BetPosted
<1>9. QED
  BY <1>5, <1>6, <1>7, <1>8 DEF LedgerMatchesBets

\* Ledger and bets agree in every reachable state: no row without its bet, no bet
\* or settlement without its one row, no row of another portfolio.
THEOREM LedgerAgreesWithBets == Spec => []LedgerMatchesBets
<1>1. Init => LedgerMatchesBets
  BY DEF Init, LedgerMatchesBets, UniqueReferences
<1>2. TypeOK /\ LedgerMatchesBets /\ [Next]_vars => LedgerMatchesBets'
  <2> SUFFICES ASSUME TypeOK, LedgerMatchesBets, [Next]_vars PROVE LedgerMatchesBets'
    OBVIOUS
  <2>1. ASSUME NEW who \in Principal, EnsureOwner(who) PROVE LedgerMatchesBets'
    BY <2>1, FrameKeepsLedger DEF EnsureOwner
  <2>2. ASSUME NEW who \in Principal, NEW p \in Portfolio, OpenPortfolio(who, p)
        PROVE  LedgerMatchesBets'
    BY <2>2, OpenPortfolioKeepsLedger
  <2>3. ASSUME NEW who \in Principal, NEW p \in Portfolio, NEW b \in BetId, NEW order \in Order,
               NEW key \in Key \cup {NoKey}, PlaceBet(who, p, b, order, key)
        PROVE  LedgerMatchesBets'
    <3> DEFINE row == OpenBet(p, "straight", order.stake, order.slate, order.legs, NoRec)
    <3>1. row \in BetRow
      BY <2>3, OrderAssumption, OpenBetType DEF PlaceBet, OrderType
    <3>2. row.port = p /\ row.status = "open"
      BY DEF OpenBet
    <3>3. RecordBet(who, p, b, row, key) /\ Accessible(who, p) /\ b \notin DOMAIN bets
      BY <2>3 DEF PlaceBet
    <3> HIDE DEF row
    <3>4. QED
      BY <3>1, <3>2, <3>3, RecordBetKeepsLedger
  <2>4. ASSUME NEW who \in Principal, NEW p \in Portfolio, NEW b \in BetId,
               NEW result \in {"win", "loss", "push"}, NEW payout \in Payout,
               NEW key \in Key \cup {NoKey}, SettleBet(who, p, b, result, payout, key)
        PROVE  LedgerMatchesBets'
    BY <2>4, SettleKeepsLedger
  <2>5. ASSUME NEW who \in Principal, NEW rs \in SUBSET Rec, PersistDecision(who, rs)
        PROVE  LedgerMatchesBets'
    BY <2>5, FrameKeepsLedger DEF PersistDecision
  <2>6. ASSUME NEW who \in Principal, NEW r \in Rec, NEW b \in BetId, Approve(who, r, b)
        PROVE  LedgerMatchesBets'
    <3> DEFINE p == Row[r].port
               row == OpenBet(p, Row[r].kind, Row[r].stake, Row[r].slate, Row[r].legs, r)
    <3>1. p \in Portfolio /\ row \in BetRow
      BY <2>6, RowAssumption, OpenBetType DEF Approve, RowType
    <3>2. row.port = p /\ row.status = "open"
      BY DEF OpenBet
    <3>3. RecordBet(who, p, b, row, NoKey) /\ Accessible(who, p) /\ b \notin DOMAIN bets
      BY <2>6 DEF Approve, Accessible
    <3> HIDE DEF row, p
    <3>4. QED
      BY <3>1, <3>2, <3>3, RecordBetKeepsLedger
  <2>7. ASSUME NEW who \in Principal, NEW r \in Rec, Reject(who, r) PROVE LedgerMatchesBets'
    BY <2>7, FrameKeepsLedger DEF Reject
  <2>8. CASE UNCHANGED vars
    BY <2>8, FrameKeepsLedger DEF vars
  <2>9. QED
    BY <2>1, <2>2, <2>3, <2>4, <2>5, <2>6, <2>7, <2>8 DEF Next
<1>3. QED
  BY LedgerTyping, <1>1, <1>2, PTL DEF Spec

------------------------------------------------------------------------------
(* One mutation per idempotency key *)

\* No step changes the owner of a portfolio that has ledger rows.
KeepsOwners == \A e \in ledger : holder'[e.port] = holder[e.port]

\* The key of a ledger row is a key or NoKey, which are told apart.
LEMMA RowKeysTyped ==
  ASSUME TypeOK
  PROVE  /\ \A i \in idem : /\ i.key \in Key /\ i.key # NoKey
                            /\ i.endpoint \in {"/bets", "/bet-result"}
         /\ \A e \in ledger : e.port \in Portfolio
BY SentinelAssumption DEF TypeOK, IdemRow, LedgerRow

\* Rows without a key disturb no key.
LEMMA UnkeyedStep ==
  ASSUME TypeOK, OneMutationPerKey, KeepsOwners, idem' = idem,
         NEW rows, ledger' = ledger \cup rows, \A e \in rows : e.key = NoKey
  PROVE  OneMutationPerKey'
<1>1. ASSUME NEW i \in idem PROVE WrittenOnce(i)'
  <2>1. WrittenUnder(i)' = WrittenUnder(i)
    BY RowKeysTyped DEF WrittenUnder, KeepsOwners, EntryType
  <2>2. WrittenOnce(i)
    BY DEF OneMutationPerKey
  <2>3. QED
    BY <2>1, <2>2 DEF WrittenOnce
<1>2. ASSUME NEW e \in ledger', e.key # NoKey PROVE Recorded(e)'
  <2>1. e \in ledger
    BY <1>2
  <2>2. Recorded(e)
    BY <1>2, <2>1 DEF OneMutationPerKey
  <2>3. QED
    BY <2>1, <2>2 DEF Recorded, KeepsOwners, EntryType
<1>3. QED
  BY <1>1, <1>2 DEF OneMutationPerKey

\* A keyed mutation adds its record and one row under a key that was free.
LEMMA KeyedStep ==
  ASSUME TypeOK, OneMutationPerKey, KeepsOwners,
         NEW who, NEW endpoint \in {"/bets", "/bet-result"}, NEW key \in Key,
         KeyFree(who, endpoint, key),
         NEW rows, NEW entry \in rows, \A e \in rows : e = entry \/ e.key = NoKey,
         ledger' = ledger \cup rows,
         entry.key = key, entry.type = EntryType(endpoint), holder'[entry.port] = who,
         NEW record, record.owner = who, record.endpoint = endpoint, record.key = key,
         record.response.bet = entry.bet, record.request.port = entry.port,
         idem' = idem \cup {record}
  PROVE  OneMutationPerKey'
<1>1. key # NoKey
  BY SentinelAssumption
<1>2. \A i \in idem : ~(i.owner = who /\ i.endpoint = endpoint /\ i.key = key)
  BY DEF KeyFree
<1>3. \A f, g \in {"/bets", "/bet-result"} : EntryType(f) = EntryType(g) => f = g
  BY DEF EntryType
<1>4. \A i, j \in idem' : i.owner = j.owner /\ i.endpoint = j.endpoint /\ i.key = j.key => i = j
  BY <1>2 DEF OneMutationPerKey
<1>5. ASSUME NEW i \in idem PROVE WrittenOnce(i)'
  <2>1. WrittenUnder(i)' = WrittenUnder(i)
    BY <1>2, <1>3, RowKeysTyped DEF WrittenUnder, KeepsOwners, EntryType
  <2>2. WrittenOnce(i)
    BY DEF OneMutationPerKey
  <2>3. QED
    BY <2>1, <2>2 DEF WrittenOnce
<1>6. WrittenOnce(record)'
  <2>1. ASSUME NEW e \in ledger, e.key = key, e.type = EntryType(endpoint), holder[e.port] = who
        PROVE  FALSE
    <3>1. Recorded(e)
      BY <2>1, <1>1 DEF OneMutationPerKey
    <3>2. QED
      BY <2>1, <3>1, <1>2, <1>3, RowKeysTyped DEF Recorded
  <2>2. WrittenUnder(record)' = {entry}
    BY <2>1, <1>1 DEF WrittenUnder, KeepsOwners, EntryType
  <2>3. QED
    BY <2>2 DEF WrittenOnce
<1>7. ASSUME NEW e \in ledger', e.key # NoKey PROVE Recorded(e)'
  <2>1. CASE e \in ledger
    <3>1. Recorded(e)
      BY <1>7, <2>1 DEF OneMutationPerKey
    <3>2. QED
      BY <2>1, <3>1 DEF Recorded, KeepsOwners, EntryType
  <2>2. CASE e = entry
    BY <2>2 DEF Recorded, EntryType
  <2>3. QED
    BY <1>7, <2>1, <2>2
<1>8. QED
  BY <1>4, <1>5, <1>6, <1>7 DEF OneMutationPerKey

\* Recording a bet touches the owner of a portfolio only when it creates it.
LEMMA RecordBetKeepsOwners ==
  ASSUME TypeOK, LedgerMatchesBets, NEW who \in Principal, NEW p \in Portfolio, NEW b, NEW row,
         NEW key, RecordBet(who, p, b, row, key), Accessible(who, p)
  PROVE  KeepsOwners /\ holder'[p] = who
<1>1. holder' = [holder EXCEPT ![p] = who] /\ holder[p] \in {NoOne, who}
  BY DEF RecordBet, Accessible
<1>2. \A e \in ledger : e.port \in Portfolio /\ holder[e.port] # NoOne
  BY DEF LedgerMatchesBets, EntryBacked, TypeOK, LedgerRow
<1>3. QED
  BY <1>1, <1>2 DEF KeepsOwners, TypeOK

\* A key buys one mutation, however often and with whatever body it is sent
\* again: one record, one ledger row, and the stored answer names that row's bet.
THEOREM LedgerOneMutationPerKey == Spec => []OneMutationPerKey
<1>1. Init => OneMutationPerKey
  BY DEF Init, OneMutationPerKey
<1>2. TypeOK /\ LedgerMatchesBets /\ OneMutationPerKey /\ [Next]_vars => OneMutationPerKey'
  <2> SUFFICES ASSUME TypeOK, LedgerMatchesBets, OneMutationPerKey, [Next]_vars
               PROVE  OneMutationPerKey'
    OBVIOUS
  <2>0. ASSUME UNCHANGED <<holder, ledger, idem>> PROVE OneMutationPerKey'
    <3> DEFINE rows == {}
    <3>1. KeepsOwners
      BY <2>0 DEF KeepsOwners
    <3>2. ledger' = ledger \cup rows /\ \A e \in rows : e.key = NoKey
      BY <2>0
    <3> HIDE DEF rows
    <3>3. QED
      BY <2>0, <3>1, <3>2, UnkeyedStep
  <2>1. ASSUME NEW who \in Principal, EnsureOwner(who) PROVE OneMutationPerKey'
    BY <2>0, <2>1 DEF EnsureOwner
  <2>2. ASSUME NEW who \in Principal, NEW p \in Portfolio, OpenPortfolio(who, p)
        PROVE  OneMutationPerKey'
    <3>1. KeepsOwners
      BY <2>2 DEF OpenPortfolio, KeepsOwners, LedgerMatchesBets, EntryBacked, TypeOK, LedgerRow
    <3>2. \A e \in OpeningEntry(p) : e.key = NoKey
      BY DEF OpeningEntry, FundingEntry
    <3>3. QED
      BY <2>2, <3>1, <3>2, UnkeyedStep DEF OpenPortfolio
  <2>3. ASSUME NEW who \in Principal, NEW p \in Portfolio, NEW b \in BetId, NEW order \in Order,
               NEW key \in Key \cup {NoKey}, PlaceBet(who, p, b, order, key)
        PROVE  OneMutationPerKey'
    <3> DEFINE row    == OpenBet(p, "straight", order.stake, order.slate, order.legs, NoRec)
               entry  == StakeEntry(p, b, row.stake, key)
               rows   == OpeningEntry(p) \cup {entry}
               record == [owner |-> who, endpoint |-> "/bets", key |-> key,
                          request |-> [port |-> p, order |-> order],
                          response |-> [bet |-> b, after |-> cash'[p]]]
    <3>1. RecordBet(who, p, b, row, key) /\ Accessible(who, p) /\ KeyFree(who, "/bets", key)
      BY <2>3 DEF PlaceBet
    <3>2. idem' = idem \cup (IF key = NoKey THEN {} ELSE {record})
      BY <2>3 DEF PlaceBet, IdemRecord
    <3>3. KeepsOwners /\ holder'[p] = who
      BY <3>1, RecordBetKeepsOwners
    <3>4. ledger' = ledger \cup rows
      BY <3>1 DEF RecordBet
    <3>5. entry \in rows /\ \A e \in rows : e = entry \/ e.key = NoKey
      BY DEF OpeningEntry, FundingEntry
    <3>6. /\ entry.key = key /\ entry.port = p /\ entry.bet = b
          /\ entry.type = EntryType("/bets")
      BY DEF StakeEntry, EntryType
    <3>7. /\ record.owner = who /\ record.endpoint = "/bets" /\ record.key = key
          /\ record.response.bet = b /\ record.request.port = p
      OBVIOUS
    <3> HIDE DEF row, entry, rows, record
    <3>8. CASE key = NoKey
      BY <3>2, <3>3, <3>4, <3>5, <3>6, <3>8, UnkeyedStep
    <3>9. CASE key \in Key
      <4>1. idem' = idem \cup {record}
        BY <3>2, <3>9, SentinelAssumption
      <4>2. QED
        BY <3>1, <3>3, <3>4, <3>5, <3>6, <3>7, <3>9, <4>1, KeyedStep
    <3>10. QED
      BY <3>8, <3>9
  <2>4. ASSUME NEW who \in Principal, NEW p \in Portfolio, NEW b \in BetId,
               NEW result \in {"win", "loss", "push"}, NEW payout \in Payout,
               NEW key \in Key \cup {NoKey}, SettleBet(who, p, b, result, payout, key)
        PROVE  OneMutationPerKey'
    <3> DEFINE entry  == SettlementEntry(p, b, bets[b].stake + payout, key)
               rows   == {entry}
               record == [owner |-> who, endpoint |-> "/bet-result", key |-> key,
                          request |-> [port |-> p, bet |-> b, result |-> result, payout |-> payout],
                          response |-> [bet |-> b, after |-> cash'[p]]]
    <3>1. /\ KeyFree(who, "/bet-result", key) /\ ledger' = ledger \cup rows
          /\ holder' = holder /\ holder[p] = who
          /\ idem' = idem \cup (IF key = NoKey THEN {} ELSE {record})
      BY <2>4 DEF SettleBet, RecordSettlement, IdemRecord
    <3>2. KeepsOwners
      BY <3>1 DEF KeepsOwners
    <3>3. /\ entry.key = key /\ entry.port = p /\ entry.bet = b
          /\ entry.type = EntryType("/bet-result")
      BY DEF SettlementEntry, EntryType
    <3>4. /\ record.owner = who /\ record.endpoint = "/bet-result" /\ record.key = key
          /\ record.response.bet = b /\ record.request.port = p
      OBVIOUS
    <3>5. entry \in rows /\ \A e \in rows : e = entry
      OBVIOUS
    <3> HIDE DEF entry, rows, record
    <3>6. CASE key = NoKey
      BY <3>1, <3>2, <3>3, <3>5, <3>6, UnkeyedStep
    <3>7. CASE key \in Key
      <4>1. idem' = idem \cup {record}
        BY <3>1, <3>7, SentinelAssumption
      <4>2. QED
        BY <3>1, <3>2, <3>3, <3>4, <3>5, <3>7, <4>1, KeyedStep
    <3>8. QED
      BY <3>6, <3>7
  <2>5. ASSUME NEW who \in Principal, NEW rs \in SUBSET Rec, PersistDecision(who, rs)
        PROVE  OneMutationPerKey'
    BY <2>0, <2>5 DEF PersistDecision
  <2>6. ASSUME NEW who \in Principal, NEW r \in Rec, NEW b \in BetId, Approve(who, r, b)
        PROVE  OneMutationPerKey'
    <3> DEFINE p == Row[r].port
               row == OpenBet(p, Row[r].kind, Row[r].stake, Row[r].slate, Row[r].legs, r)
               rows == OpeningEntry(p) \cup {StakeEntry(p, b, row.stake, NoKey)}
    <3>1. p \in Portfolio
      BY RowAssumption DEF RowType
    <3>2. RecordBet(who, p, b, row, NoKey) /\ Accessible(who, p) /\ idem' = idem
      BY <2>6 DEF Approve, Accessible
    <3>3. KeepsOwners
      BY <3>1, <3>2, RecordBetKeepsOwners
    <3>4. ledger' = ledger \cup rows
      BY <3>2 DEF RecordBet
    <3>5. \A e \in rows : e.key = NoKey
      BY DEF OpeningEntry, FundingEntry, StakeEntry
    <3> HIDE DEF rows
    <3>6. QED
      BY <3>2, <3>3, <3>4, <3>5, UnkeyedStep
  <2>7. ASSUME NEW who \in Principal, NEW r \in Rec, Reject(who, r) PROVE OneMutationPerKey'
    BY <2>0, <2>7 DEF Reject
  <2>8. CASE UNCHANGED vars
    BY <2>0, <2>8 DEF vars
  <2>9. QED
    BY <2>1, <2>2, <2>3, <2>4, <2>5, <2>6, <2>7, <2>8 DEF Next
<1>3. QED
  BY LedgerTyping, LedgerAgreesWithBets, <1>1, <1>2, PTL DEF Spec

\* What is asked for twice is done once, by key or by recommendation.
THEOREM LedgerMutatesOnce == Spec => []MutatedOnce
<1>1. OneMutationPerKey /\ ApprovedOnce => MutatedOnce
  BY DEF MutatedOnce
<1> QED BY LedgerOneMutationPerKey, LedgerApprovedOnce, <1>1, PTL

------------------------------------------------------------------------------
(* Nothing is undone *)

\* Recording a new bet leaves the terms and settlements of the others alone.
LEMMA NewBetKeepsHistory ==
  ASSUME TypeOK, NEW who \in Principal, NEW p \in Portfolio, NEW b, NEW row, NEW key,
         RecordBet(who, p, b, row, key), Accessible(who, p), b \notin DOMAIN bets
  PROVE  /\ ledger \subseteq ledger'
         /\ \A x \in DOMAIN bets : x \in DOMAIN bets' /\ bets'[x] = bets[x]
         /\ \A q \in Portfolio : holder[q] # NoOne => holder'[q] = holder[q]
BY DEF RecordBet, Accessible, TypeOK

\* No step removes or rewrites a ledger row, an idempotency record, the terms of
\* a bet, a settlement, a decision on a recommendation or the owner of a portfolio.
LEMMA HistoryStep == TypeOK /\ [Next]_vars => [HistoryKept]_vars
<1> SUFFICES ASSUME TypeOK, Next PROVE HistoryKept
  OBVIOUS
<1>1. ASSUME NEW who \in Principal, EnsureOwner(who) PROVE HistoryKept
  BY <1>1 DEF EnsureOwner, HistoryKept
<1>2. ASSUME NEW who \in Principal, NEW p \in Portfolio, OpenPortfolio(who, p) PROVE HistoryKept
  BY <1>2 DEF OpenPortfolio, HistoryKept, TypeOK
<1>3. ASSUME NEW who \in Principal, NEW p \in Portfolio, NEW b \in BetId, NEW order \in Order,
             NEW key \in Key \cup {NoKey}, PlaceBet(who, p, b, order, key)
      PROVE  HistoryKept
  BY <1>3, NewBetKeepsHistory DEF PlaceBet, HistoryKept
<1>4. ASSUME NEW who \in Principal, NEW p \in Portfolio, NEW b \in BetId,
             NEW result \in {"win", "loss", "push"}, NEW payout \in Payout,
             NEW key \in Key \cup {NoKey}, SettleBet(who, p, b, result, payout, key)
      PROVE  HistoryKept
  <2>1. bets[b] \in BetRow
    BY <1>4 DEF SettleBet, RecordSettlement, TypeOK
  <2>2. Terms([bets[b] EXCEPT !.status = "settled", !.pnl = payout]) = Terms(bets[b])
    BY <2>1 DEF Terms, BetRow
  <2>3. /\ DOMAIN bets' = DOMAIN bets
        /\ bets'[b] = [bets[b] EXCEPT !.status = "settled", !.pnl = payout]
        /\ bets[b].status = "open"
        /\ \A x \in DOMAIN bets \ {b} : bets'[x] = bets[x]
    BY <1>4, <2>1 DEF SettleBet, RecordSettlement, BetRow
  <2>4. \A x \in DOMAIN bets : /\ x \in DOMAIN bets'
                               /\ bets[x].status = "settled" => bets'[x] = bets[x]
                               /\ Terms(bets'[x]) = Terms(bets[x])
    BY <2>2, <2>3
  <2>5. ledger \subseteq ledger' /\ idem \subseteq idem' /\ holder' = holder /\ recs' = recs
    BY <1>4 DEF SettleBet, RecordSettlement
  <2>6. QED
    BY <2>4, <2>5 DEF HistoryKept
<1>5. ASSUME NEW who \in Principal, NEW rs \in SUBSET Rec, PersistDecision(who, rs) PROVE HistoryKept
  BY <1>5 DEF PersistDecision, HistoryKept
<1>6. ASSUME NEW who \in Principal, NEW r \in Rec, NEW b \in BetId, Approve(who, r, b)
      PROVE  HistoryKept
  <2> DEFINE p == Row[r].port
             row == OpenBet(p, Row[r].kind, Row[r].stake, Row[r].slate, Row[r].legs, r)
  <2>1. p \in Portfolio
    BY RowAssumption DEF RowType
  <2>2. /\ RecordBet(who, p, b, row, NoKey) /\ Accessible(who, p) /\ b \notin DOMAIN bets
        /\ recs[r] = "proposed" /\ recs' = [recs EXCEPT ![r] = "approved"] /\ idem' = idem
    BY <1>6 DEF Approve, Accessible
  <2> HIDE DEF row, p
  <2>3. QED
    BY <2>1, <2>2, NewBetKeepsHistory DEF HistoryKept, TypeOK
<1>7. ASSUME NEW who \in Principal, NEW r \in Rec, Reject(who, r) PROVE HistoryKept
  BY <1>7 DEF Reject, HistoryKept, TypeOK
<1>8. QED
  BY <1>1, <1>2, <1>3, <1>4, <1>5, <1>6, <1>7 DEF Next

\* History is append-only in every behaviour of the portfolio, for every set of
\* owners, portfolios, bets, recommendations and keys.
THEOREM LedgerNothingUndone == Spec => NothingUndone
BY LedgerTyping, HistoryStep, PTL DEF Spec, NothingUndone

------------------------------------------------------------------------------
(* What the transactions do to the tables that count money *)

Stakes == {o.stake : o \in Order} \cup {Row[r].stake : r \in Rec}

\* Finitely many bets of finitely many legs, of stakes that were asked for, in
\* portfolios that exist.
BetsKnown ==
    /\ IsFiniteSet(DOMAIN bets)
    /\ \A b \in DOMAIN bets :
          bets[b].stake \in Stakes /\ IsFiniteSet(bets[b].legs) /\ holder[bets[b].port] # NoOne

\* The bet of an approved recommendation passed the recheck.
Rechecked(p, row) ==
    \E r \in Rec :
        /\ row.rec = r /\ p = Row[r].port
        /\ row.kind = Row[r].kind /\ row.stake = Row[r].stake
        /\ row.slate = Row[r].slate /\ row.legs = Row[r].legs
        /\ holder[p] # NoOne
        /\ WithinRiskLimits(Row[r], bets, settled[p], cash[p])

\* What placing a bet and approving a recommendation have in common.
NewBet(p, b, row) ==
    /\ row \in BetRow
    /\ row.port = p /\ row.status = "open" /\ row.pnl = 0
    /\ row.stake \in Stakes /\ IsFiniteSet(row.legs)
    /\ row.rec # NoRec => Rechecked(p, row)
    /\ b \notin DOMAIN bets
    /\ bets' = [x \in DOMAIN bets \cup {b} |-> IF x = b THEN row ELSE bets[x]]
    /\ OpeningCash(p) >= row.stake
    /\ cash' = [cash EXCEPT ![p] = OpeningCash(p) - row.stake]
    /\ holder' \in [Portfolio -> Principal \cup {NoOne}]
    /\ holder'[p] # NoOne
    /\ \A q \in Portfolio \ {p} : holder'[q] = holder[q]
    /\ settled' = settled
    /\ \E e \in ledger' : e.port = p /\ e.type = "bet_stake" /\ e.bet = b

\* What a settlement does to the tables that count money.
Settlement(p, b, payout) ==
    /\ b \in DOMAIN bets
    /\ bets[b].port = p /\ bets[b].status = "open"
    /\ payout \in Payout /\ payout >= -bets[b].stake
    /\ bets' = [bets EXCEPT ![b].status = "settled", ![b].pnl = payout]
    /\ settled' = [settled EXCEPT ![p] = Append(@, b)]
    /\ cash' = [cash EXCEPT ![p] = @ + bets[b].stake + payout]
    /\ holder' = holder /\ holder[p] # NoOne
    /\ \E e \in ledger' : e.port = p /\ e.type = "settlement" /\ e.bet = b

\* Recording a bet writes its stake row.
LEMMA StakeRowWritten ==
  ASSUME NEW who, NEW p, NEW b, NEW row, NEW key, RecordBet(who, p, b, row, key)
  PROVE  \E e \in ledger' : e.port = p /\ e.type = "bet_stake" /\ e.bet = b
<1>1. StakeEntry(p, b, row.stake, key) \in ledger'
  BY DEF RecordBet
<1>2. QED
  BY <1>1 DEF StakeEntry

\* A direct bet is a new bet of its own portfolio.
LEMMA PlaceIsNewBet ==
  ASSUME TypeOK, NEW who \in Principal, NEW p \in Portfolio, NEW b \in BetId, NEW order \in Order,
         NEW key \in Key \cup {NoKey}, PlaceBet(who, p, b, order, key)
  PROVE  \E row \in BetRow : NewBet(p, b, row)
<1> DEFINE row == OpenBet(p, "straight", order.stake, order.slate, order.legs, NoRec)
<1>1. row \in BetRow
  BY OrderAssumption, OpenBetType DEF PlaceBet, OrderType
<1>2. /\ row.port = p /\ row.status = "open" /\ row.pnl = 0 /\ row.stake = order.stake
      /\ row.rec = NoRec /\ IsFiniteSet(row.legs)
  BY OrderAssumption DEF OpenBet
<1>3. /\ RecordBet(who, p, b, row, key) /\ b \notin DOMAIN bets /\ settled' = settled
      /\ OpeningCash(p) >= row.stake
  BY <1>2 DEF PlaceBet
<1> HIDE DEF row
<1>4. holder' \in [Portfolio -> Principal \cup {NoOne}]
  BY <1>1, <1>3, RecordBetType
<1>5. holder'[p] # NoOne /\ \A q \in Portfolio \ {p} : holder'[q] = holder[q]
  BY <1>3, SentinelAssumption DEF RecordBet, TypeOK
<1>6. \E e \in ledger' : e.port = p /\ e.type = "bet_stake" /\ e.bet = b
  BY <1>3, StakeRowWritten
<1>7. NewBet(p, b, row)
  BY <1>1, <1>2, <1>3, <1>4, <1>5, <1>6 DEF NewBet, RecordBet, Stakes
<1>8. QED
  BY <1>1, <1>7

\* So is an approval: its bet is the recommendation's, and passed the recheck.
LEMMA ApproveIsNewBet ==
  ASSUME TypeOK, NEW who \in Principal, NEW r \in Rec, NEW b \in BetId, Approve(who, r, b)
  PROVE  Row[r].port \in Portfolio /\ \E row \in BetRow : NewBet(Row[r].port, b, row)
<1> DEFINE p == Row[r].port
           row == OpenBet(p, Row[r].kind, Row[r].stake, Row[r].slate, Row[r].legs, r)
<1>1. p \in Portfolio /\ row \in BetRow
  BY RowAssumption, OpenBetType DEF Approve, RowType
<1>2. /\ row.port = p /\ row.status = "open" /\ row.pnl = 0 /\ row.stake = Row[r].stake
      /\ row.rec = r /\ row.kind = Row[r].kind /\ row.slate = Row[r].slate
      /\ row.legs = Row[r].legs
  BY DEF OpenBet
<1>3. /\ RecordBet(who, p, b, row, NoKey) /\ b \notin DOMAIN bets /\ settled' = settled
      /\ OpeningCash(p) >= row.stake
  BY <1>2, SentinelAssumption DEF Approve, OpeningCash
<1>4. Rechecked(p, row) /\ IsFiniteSet(row.legs)
  BY <1>2, SentinelAssumption, RowShapeAssumption DEF Approve, Rechecked
<1> HIDE DEF row, p
<1>5. holder' \in [Portfolio -> Principal \cup {NoOne}]
  BY <1>1, <1>3, RecordBetType
<1>6. holder'[p] # NoOne /\ \A q \in Portfolio \ {p} : holder'[q] = holder[q]
  BY <1>1, <1>3, SentinelAssumption DEF RecordBet, TypeOK
<1>7. \E e \in ledger' : e.port = p /\ e.type = "bet_stake" /\ e.bet = b
  BY <1>3, StakeRowWritten
<1>8. NewBet(p, b, row)
  BY <1>1, <1>2, <1>3, <1>4, <1>5, <1>6, <1>7 DEF NewBet, RecordBet, Stakes
<1>9. QED
  BY <1>1, <1>8 DEF p

\* A settlement settles the bet it names.
LEMMA SettleIsSettlement ==
  ASSUME TypeOK, NEW who \in Principal, NEW p \in Portfolio, NEW b \in BetId,
         NEW result \in {"win", "loss", "push"}, NEW payout \in Payout,
         NEW key \in Key \cup {NoKey}, SettleBet(who, p, b, result, payout, key)
  PROVE  Settlement(p, b, payout)
<1>1. bets[b].stake \in Nat /\ payout \in Int
  BY PayoutAssumption DEF SettleBet, TypeOK, BetRow
<1>2. payout >= -bets[b].stake
  BY <1>1 DEF SettleBet, AcceptedPayout
<1>3. SettlementEntry(p, b, bets[b].stake + payout, key) \in ledger'
  BY DEF SettleBet, RecordSettlement
<1>4. \E e \in ledger' : e.port = p /\ e.type = "settlement" /\ e.bet = b
  BY <1>3 DEF SettlementEntry
<1>5. QED
  BY <1>2, <1>4, SentinelAssumption DEF SettleBet, RecordSettlement, Settlement

\* Every step of the ledger is one of four as far as money goes.
LEMMA MoneySteps ==
  ASSUME TypeOK, [Next]_vars
  PROVE  \/ UNCHANGED <<holder, bets, settled, cash>>
         \/ \E who \in Principal, p \in Portfolio : OpenPortfolio(who, p)
         \/ \E p \in Portfolio, b \in BetId, row \in BetRow : NewBet(p, b, row)
         \/ \E p \in Portfolio, b \in BetId, payout \in Payout : Settlement(p, b, payout)
BY PlaceIsNewBet, ApproveIsNewBet, SettleIsSettlement
   DEF Next, vars, EnsureOwner, PersistDecision, Reject

------------------------------------------------------------------------------
(* Sums over the bets table *)

\* Stakes are positive integers and profits are integers.
LEMMA AmountsTyped ==
  ASSUME TypeOK, NEW b \in DOMAIN bets
  PROVE  bets[b].stake \in Nat /\ bets[b].stake > 0 /\ bets[b].pnl \in Int
BY DEF TypeOK, BetRow

\* Natural stakes have a natural sum.
LEMMA StakeOfNat ==
  ASSUME NEW table, NEW ids, IsFiniteSet(ids), \A b \in ids : table[b].stake \in Nat
  PROVE  StakeOf(table, ids) \in Nat
<1> DEFINE w == [b \in ids |-> table[b].stake]
<1>1. \A b \in ids : w[b] \in Nat
  OBVIOUS
<1> HIDE DEF w
<1>2. Total(w, ids) \in Nat
  BY <1>1, TotalNat
<1>3. QED
  BY <1>2 DEF StakeOf, w

\* Integer profits have an integer sum.
LEMMA PnlOfInt ==
  ASSUME NEW table, NEW ids, IsFiniteSet(ids), \A b \in ids : table[b].pnl \in Int
  PROVE  PnlOf(table, ids) \in Int
<1> DEFINE w == [b \in ids |-> table[b].pnl]
<1>1. \A b \in ids : w[b] \in Int
  OBVIOUS
<1> HIDE DEF w
<1>2. Total(w, ids) \in Int
  BY <1>1, TotalInt
<1>3. QED
  BY <1>2 DEF PnlOf, w

\* A sum of stakes depends on the stakes only.
LEMMA StakeOfAgree ==
  ASSUME NEW table, NEW other, NEW ids, \A b \in ids : table[b].stake = other[b].stake
  PROVE  StakeOf(table, ids) = StakeOf(other, ids)
<1>1. [b \in ids |-> table[b].stake] = [b \in ids |-> other[b].stake]
  OBVIOUS
<1>2. QED
  BY <1>1 DEF StakeOf

\* A sum of profits depends on the profits only.
LEMMA PnlOfAgree ==
  ASSUME NEW table, NEW other, NEW ids, \A b \in ids : table[b].pnl = other[b].pnl
  PROVE  PnlOf(table, ids) = PnlOf(other, ids)
<1>1. [b \in ids |-> table[b].pnl] = [b \in ids |-> other[b].pnl]
  OBVIOUS
<1>2. QED
  BY <1>1 DEF PnlOf

\* One more bet adds its stake.
LEMMA StakeOfInsert ==
  ASSUME NEW table, NEW ids, IsFiniteSet(ids), NEW b, b \notin ids,
         \A c \in ids \cup {b} : table[c].stake \in Int
  PROVE  StakeOf(table, ids \cup {b}) = table[b].stake + StakeOf(table, ids)
<1> DEFINE all == ids \cup {b}
           w == [c \in all |-> table[c].stake]
           v == [c \in ids |-> table[c].stake]
<1>1. (\A c \in all : w[c] \in Int) /\ w[b] = table[b].stake
  OBVIOUS
<1>2. \A c \in ids : w[c] = v[c]
  OBVIOUS
<1> HIDE DEF w, v
<1>3. Total(w, all) = w[b] + Total(w, ids)
  BY <1>1, TotalInsert
<1>4. Total(w, ids) = Total(v, ids)
  BY <1>2, TotalAgree
<1>5. QED
  BY <1>1, <1>3, <1>4 DEF StakeOf, w, v

\* One more bet adds its profit.
LEMMA PnlOfInsert ==
  ASSUME NEW table, NEW ids, IsFiniteSet(ids), NEW b, b \notin ids,
         \A c \in ids \cup {b} : table[c].pnl \in Int
  PROVE  PnlOf(table, ids \cup {b}) = table[b].pnl + PnlOf(table, ids)
<1> DEFINE all == ids \cup {b}
           w == [c \in all |-> table[c].pnl]
           v == [c \in ids |-> table[c].pnl]
<1>1. (\A c \in all : w[c] \in Int) /\ w[b] = table[b].pnl
  OBVIOUS
<1>2. \A c \in ids : w[c] = v[c]
  OBVIOUS
<1> HIDE DEF w, v
<1>3. Total(w, all) = w[b] + Total(w, ids)
  BY <1>1, TotalInsert
<1>4. Total(w, ids) = Total(v, ids)
  BY <1>2, TotalAgree
<1>5. QED
  BY <1>1, <1>3, <1>4 DEF PnlOf, w, v

------------------------------------------------------------------------------
(* What a step does to the sums of a portfolio *)

\* Reserved stakes are a natural number and realized profit an integer.
LEMMA SumsTyped ==
  ASSUME TypeOK, BetsKnown, NEW p
  PROVE  Reserved(bets, p) \in Nat /\ Realized(p) \in Int
<1>1. IsFiniteSet(BetsWith(bets, p, "open")) /\ IsFiniteSet(BetsWith(bets, p, "settled"))
  BY FS_Subset DEF BetsWith, BetsKnown
<1>2. QED
  BY <1>1, AmountsTyped, StakeOfNat, PnlOfInt DEF Reserved, Realized, OpenBets, BetsWith

\* A new bet is reserved in its own portfolio and realizes nothing.
LEMMA NewBetSums ==
  ASSUME TypeOK, BetsKnown, NEW p \in Portfolio, NEW b \in BetId, NEW row \in BetRow,
         NewBet(p, b, row)
  PROVE  /\ Reserved(bets, p)' = Reserved(bets, p) + row.stake
         /\ \A q \in Portfolio \ {p} : Reserved(bets, q)' = Reserved(bets, q)
         /\ \A q \in Portfolio : Realized(q)' = Realized(q)
<1>1. /\ DOMAIN bets' = DOMAIN bets \cup {b} /\ bets'[b] = row /\ b \notin DOMAIN bets
      /\ \A x \in DOMAIN bets : bets'[x] = bets[x]
      /\ row.port = p /\ row.status = "open" /\ row.stake \in Nat
  BY DEF NewBet, BetRow
<1>2. ASSUME NEW q \in Portfolio
      PROVE  /\ BetsWith(bets', q, "open") = IF q = p THEN BetsWith(bets, q, "open") \cup {b}
                                            ELSE BetsWith(bets, q, "open")
             /\ BetsWith(bets', q, "settled") = BetsWith(bets, q, "settled")
             /\ BetsWith(bets, q, "open") \subseteq DOMAIN bets
             /\ BetsWith(bets, q, "settled") \subseteq DOMAIN bets
             /\ IsFiniteSet(BetsWith(bets, q, "open"))
  BY <1>1, FS_Subset DEF BetsWith, BetsKnown
<1>3. ASSUME NEW q \in Portfolio
      PROVE  /\ StakeOf(bets', BetsWith(bets, q, "open")) = StakeOf(bets, BetsWith(bets, q, "open"))
             /\ PnlOf(bets', BetsWith(bets, q, "settled")) = PnlOf(bets, BetsWith(bets, q, "settled"))
  BY <1>1, <1>2, StakeOfAgree, PnlOfAgree
<1>4. StakeOf(bets', BetsWith(bets, p, "open") \cup {b})
        = row.stake + StakeOf(bets', BetsWith(bets, p, "open"))
  <2>1. b \notin BetsWith(bets, p, "open") /\ IsFiniteSet(BetsWith(bets, p, "open"))
    BY <1>1, <1>2
  <2>2. \A c \in BetsWith(bets, p, "open") \cup {b} : bets'[c].stake \in Int
    BY <1>1, <1>2, AmountsTyped
  <2>3. QED
    BY <1>1, <2>1, <2>2, StakeOfInsert
<1>5. StakeOf(bets, BetsWith(bets, p, "open")) \in Nat
  BY SumsTyped DEF Reserved, OpenBets
<1>6. StakeOf(bets', BetsWith(bets', p, "open")) = StakeOf(bets, BetsWith(bets, p, "open")) + row.stake
  <2> DEFINE before == StakeOf(bets, BetsWith(bets, p, "open"))
  <2>1. StakeOf(bets', BetsWith(bets', p, "open")) = row.stake + before
    BY <1>2, <1>3, <1>4
  <2>2. before \in Nat /\ row.stake \in Nat
    BY <1>1, <1>5
  <2> HIDE DEF before
  <2>3. StakeOf(bets', BetsWith(bets', p, "open")) = before + row.stake
    BY <2>1, <2>2
  <2>4. QED
    BY <2>3 DEF before
<1>7. ASSUME NEW q \in Portfolio
      PROVE  /\ q # p => StakeOf(bets', BetsWith(bets', q, "open")) = StakeOf(bets, BetsWith(bets, q, "open"))
             /\ PnlOf(bets', BetsWith(bets', q, "settled")) = PnlOf(bets, BetsWith(bets, q, "settled"))
  BY <1>2, <1>3
<1>8. QED
  BY <1>6, <1>7 DEF Reserved, Realized, OpenBets

\* A settlement releases the stake and realizes the profit, in its own portfolio.
LEMMA SettlementSums ==
  ASSUME TypeOK, BetsKnown, NEW p \in Portfolio, NEW b \in BetId, NEW payout \in Payout,
         Settlement(p, b, payout)
  PROVE  /\ Reserved(bets, p)' = Reserved(bets, p) - bets[b].stake
         /\ bets[b].stake <= Reserved(bets, p)
         /\ Realized(p)' = Realized(p) + payout
         /\ \A q \in Portfolio \ {p} : /\ Reserved(bets, q)' = Reserved(bets, q)
                                       /\ Realized(q)' = Realized(q)
<1>1. /\ b \in DOMAIN bets /\ bets[b] \in BetRow /\ DOMAIN bets' = DOMAIN bets
      /\ bets[b].port = p /\ bets[b].status = "open"
      /\ bets' = [bets EXCEPT ![b].status = "settled", ![b].pnl = payout]
  BY DEF Settlement, TypeOK
<1>2. /\ bets'[b].port = p /\ bets'[b].status = "settled" /\ bets'[b].pnl = payout
      /\ bets'[b].stake = bets[b].stake
      /\ \A x \in DOMAIN bets \ {b} : bets'[x] = bets[x]
  BY <1>1 DEF BetRow
<1> DEFINE open(q) == BetsWith(bets, q, "open")
           done(q) == BetsWith(bets, q, "settled")
<1>3. ASSUME NEW q \in Portfolio
      PROVE  /\ BetsWith(bets', q, "open") = open(q) \ {b}
             /\ BetsWith(bets', q, "settled") = IF q = p THEN done(q) \cup {b} ELSE done(q)
             /\ b \notin done(q) /\ (b \in open(q) <=> q = p)
             /\ open(q) \subseteq DOMAIN bets /\ done(q) \subseteq DOMAIN bets
  BY <1>1, <1>2 DEF BetsWith
<1>4. ASSUME NEW q \in Portfolio
      PROVE  IsFiniteSet(open(q)) /\ IsFiniteSet(open(q) \ {b}) /\ IsFiniteSet(done(q))
  BY <1>3, FS_Subset DEF BetsKnown
<1> HIDE DEF open, done
<1>5. ASSUME NEW q \in Portfolio
      PROVE  /\ StakeOf(bets', open(q) \ {b}) = StakeOf(bets, open(q) \ {b})
             /\ PnlOf(bets', done(q)) = PnlOf(bets, done(q))
  <2>1. \A c \in open(q) \ {b} : bets'[c].stake = bets[c].stake
    BY <1>2, <1>3
  <2>2. \A c \in done(q) : bets'[c].pnl = bets[c].pnl
    BY <1>2, <1>3
  <2>3. QED
    BY <2>1, <2>2, StakeOfAgree, PnlOfAgree
<1>6. StakeOf(bets, open(p)) = bets[b].stake + StakeOf(bets, open(p) \ {b})
  <2> DEFINE rest == open(p) \ {b}
  <2>1. IsFiniteSet(rest) /\ b \notin rest /\ open(p) = rest \cup {b}
    BY <1>3, <1>4
  <2>2. \A c \in rest \cup {b} : bets[c].stake \in Int
    <3>1. rest \cup {b} \subseteq DOMAIN bets
      BY <1>1, <1>3
    <3>2. QED
      BY <3>1, AmountsTyped
  <2> HIDE DEF rest
  <2>3. StakeOf(bets, rest \cup {b}) = bets[b].stake + StakeOf(bets, rest)
    BY <2>1, <2>2, StakeOfInsert
  <2>4. QED
    BY <2>1, <2>3 DEF rest
<1>7. PnlOf(bets', done(p) \cup {b}) = payout + PnlOf(bets', done(p))
  <2>1. payout \in Int /\ \A c \in done(p) : bets'[c].pnl \in Int
    BY <1>2, <1>3, AmountsTyped, PayoutAssumption
  <2>2. QED
    BY <1>2, <1>3, <1>4, <2>1, PnlOfInsert
<1>8. StakeOf(bets, open(p) \ {b}) \in Nat /\ bets[b].stake \in Nat
  <2>1. \A c \in open(p) \ {b} : bets[c].stake \in Nat
    BY <1>3, AmountsTyped
  <2>2. StakeOf(bets, open(p) \ {b}) \in Nat
    BY <1>4, <2>1, StakeOfNat
  <2>3. QED
    BY <1>1, <2>2, AmountsTyped
<1>9. payout \in Int /\ PnlOf(bets, done(p)) \in Int
  BY PayoutAssumption, SumsTyped DEF Realized, done
<1> DEFINE rest == StakeOf(bets, open(p) \ {b})
           won == PnlOf(bets, done(p))
<1>10. /\ StakeOf(bets', BetsWith(bets', p, "open")) = StakeOf(bets, open(p)) - bets[b].stake
       /\ bets[b].stake <= StakeOf(bets, open(p))
       /\ PnlOf(bets', BetsWith(bets', p, "settled")) = PnlOf(bets, done(p)) + payout
  <2>1. StakeOf(bets', BetsWith(bets', p, "open")) = rest /\ StakeOf(bets, open(p)) = bets[b].stake + rest
    BY <1>3, <1>5, <1>6
  <2>2. PnlOf(bets', BetsWith(bets', p, "settled")) = payout + won
    BY <1>3, <1>5, <1>7
  <2>3. rest \in Nat /\ won \in Int /\ payout \in Int /\ bets[b].stake \in Nat
    BY <1>8, <1>9
  <2> HIDE DEF rest, won
  <2>4. QED
    BY <2>1, <2>2, <2>3 DEF won
<1>11. \A q \in Portfolio \ {p} :
          /\ StakeOf(bets', BetsWith(bets', q, "open")) = StakeOf(bets, open(q))
          /\ PnlOf(bets', BetsWith(bets', q, "settled")) = PnlOf(bets, done(q))
  <2> SUFFICES ASSUME NEW q \in Portfolio \ {p}
               PROVE  /\ StakeOf(bets', BetsWith(bets', q, "open")) = StakeOf(bets, open(q))
                      /\ PnlOf(bets', BetsWith(bets', q, "settled")) = PnlOf(bets, done(q))
    OBVIOUS
  <2>1. open(q) \ {b} = open(q)
    BY <1>3
  <2>2. QED
    BY <1>3, <1>5, <2>1
<1>12. QED
  BY <1>10, <1>11 DEF Reserved, Realized, OpenBets, open, done

------------------------------------------------------------------------------
(* The money contract of Account *)

\* There is no bet in the beginning.
LEMMA BetsKnownInit == Init => BetsKnown
<1>1. Init => DOMAIN bets = {}
  BY DEF Init
<1>2. IsFiniteSet({})
  BY FS_EmptySet
<1>3. QED
  BY <1>1, <1>2 DEF BetsKnown

\* Every step records bets of known stakes, one at a time.
LEMMA BetsKnownStep == TypeOK /\ BetsKnown /\ [Next]_vars => BetsKnown'
<1> SUFFICES ASSUME TypeOK, BetsKnown, [Next]_vars PROVE BetsKnown'
  OBVIOUS
<1>1. CASE UNCHANGED <<holder, bets, settled, cash>>
  BY <1>1 DEF BetsKnown, Stakes
<1>2. ASSUME NEW who \in Principal, NEW p \in Portfolio, OpenPortfolio(who, p) PROVE BetsKnown'
  BY <1>2, SentinelAssumption DEF OpenPortfolio, BetsKnown, TypeOK, Stakes, BetRow
<1>3. ASSUME NEW p \in Portfolio, NEW b \in BetId, NEW row \in BetRow, NewBet(p, b, row)
      PROVE  BetsKnown'
  <2>1. DOMAIN bets' = DOMAIN bets \cup {b} /\ bets'[b] = row /\ \A x \in DOMAIN bets : bets'[x] = bets[x]
    BY <1>3 DEF NewBet
  <2>2. IsFiniteSet(DOMAIN bets')
    BY <2>1, FS_AddElement DEF BetsKnown
  <2>3. QED
    BY <1>3, <2>1, <2>2 DEF BetsKnown, NewBet, TypeOK, BetRow
<1>4. ASSUME NEW p \in Portfolio, NEW b \in BetId, NEW payout \in Payout, Settlement(p, b, payout)
      PROVE  BetsKnown'
  <2>1. bets[b] \in BetRow /\ DOMAIN bets' = DOMAIN bets
    BY <1>4 DEF Settlement, TypeOK
  <2>2. \A x \in DOMAIN bets : bets'[x].stake = bets[x].stake /\ bets'[x].port = bets[x].port
    BY <1>4, <2>1 DEF Settlement, BetRow
  <2>3. QED
    BY <1>4, <2>1, <2>2 DEF BetsKnown, Settlement
<1>5. QED
  BY <1>1, <1>2, <1>3, <1>4, MoneySteps

\* Finitely many bets in every state.
LEMMA BetsStayKnown == Spec => []BetsKnown
BY BetsKnownInit, BetsKnownStep, LedgerTyping, PTL DEF Spec

\* The empty tables are an account nobody has funded.
LEMMA ContractInit == Init => AccountContract!Init
<1> SUFFICES ASSUME Init PROVE AccountContract!Init
  OBVIOUS
<1>1. DOMAIN bets = {}
  BY DEF Init
<1>2. \A p, status : BetsWith(bets, p, status) = {}
  BY <1>1 DEF BetsWith
<1>3. \A table : StakeOf(table, {}) = 0 /\ PnlOf(table, {}) = 0
  BY TotalEmpty DEF StakeOf, PnlOf
<1>4. \A p \in Portfolio : Reserved(bets, p) = 0 /\ Realized(p) = 0
  BY <1>2, <1>3 DEF Reserved, Realized, OpenBets
<1>5. QED
  BY <1>4 DEF Init, AccountContract!Init

\* Every step of the ledger is a step of the account, or moves no money.
LEMMA ContractStep ==
  ASSUME TypeOK, BetsKnown, [Next]_vars
  PROVE  [AccountContract!Next]_(AccountContract!vars)
<1>1. CASE UNCHANGED <<holder, bets, settled, cash>>
  <2>1. \A p : Reserved(bets, p)' = Reserved(bets, p) /\ Realized(p)' = Realized(p)
    BY <1>1 DEF Reserved, Realized, OpenBets, BetsWith, StakeOf, PnlOf
  <2>2. QED
    BY <1>1, <2>1 DEF AccountContract!vars
<1>2. ASSUME NEW who \in Principal, NEW p \in Portfolio, OpenPortfolio(who, p)
      PROVE  AccountContract!Fund(p)
  <2>1. /\ holder[p] = NoOne /\ holder' = [holder EXCEPT ![p] = who] /\ who # NoOne
        /\ bets' = bets /\ cash' = [cash EXCEPT ![p] = StartingCapital]
    BY <1>2, SentinelAssumption DEF OpenPortfolio
  <2>2. \A q : Reserved(bets, q)' = Reserved(bets, q) /\ Realized(q)' = Realized(q)
    BY <2>1 DEF Reserved, Realized, OpenBets, BetsWith, StakeOf, PnlOf
  <2>3. QED
    BY <2>1, <2>2 DEF AccountContract!Fund, TypeOK
<1>3. ASSUME NEW p \in Portfolio, NEW b \in BetId, NEW row \in BetRow, NewBet(p, b, row)
      PROVE  AccountContract!Reserve(p, row.stake) /\ row.stake \in Stakes
  <2>1. /\ Reserved(bets, p)' = Reserved(bets, p) + row.stake
        /\ \A q \in Portfolio \ {p} : Reserved(bets, q)' = Reserved(bets, q)
        /\ \A q \in Portfolio : Realized(q)' = Realized(q)
    BY <1>3, NewBetSums
  <2>2. /\ row.stake \in Stakes /\ row.stake \in Nat \ {0}
        /\ OpeningCash(p) \in Int /\ OpeningCash(p) >= row.stake
        /\ cash' = [cash EXCEPT ![p] = OpeningCash(p) - row.stake]
        /\ holder'[p] # NoOne /\ \A q \in Portfolio \ {p} : holder'[q] = holder[q]
    BY <1>3, CapitalAssumption DEF NewBet, BetRow, OpeningCash, TypeOK
  <2>3. AccountContract!Available(p) = OpeningCash(p)
    BY DEF AccountContract!Available, OpeningCash
  <2>4. {q \in Portfolio : holder'[q] # NoOne} = {q \in Portfolio : holder[q] # NoOne} \cup {p}
    BY <2>2
  <2>5. [q \in Portfolio |-> Reserved(bets, q)']
           = [[q \in Portfolio |-> Reserved(bets, q)] EXCEPT ![p] = @ + row.stake]
    BY <2>1
  <2>6. [q \in Portfolio |-> Realized(q)'] = [q \in Portfolio |-> Realized(q)]
    BY <2>1
  <2>7. row.stake > 0 /\ row.stake <= OpeningCash(p)
    BY <2>2
  <2>8. QED
    BY <2>2, <2>3, <2>4, <2>5, <2>6, <2>7 DEF AccountContract!Reserve
<1>4. ASSUME NEW p \in Portfolio, NEW b \in BetId, NEW payout \in Payout, Settlement(p, b, payout)
      PROVE  AccountContract!Release(p, bets[b].stake, payout) /\ bets[b].stake \in Stakes
  <2>1. /\ Reserved(bets, p)' = Reserved(bets, p) - bets[b].stake
        /\ bets[b].stake <= Reserved(bets, p)
        /\ Realized(p)' = Realized(p) + payout
        /\ \A q \in Portfolio \ {p} : /\ Reserved(bets, q)' = Reserved(bets, q)
                                      /\ Realized(q)' = Realized(q)
    BY <1>4, SettlementSums
  <2>2. /\ bets[b].stake \in Stakes /\ bets[b].stake > 0
        /\ payout >= -bets[b].stake
        /\ cash' = [cash EXCEPT ![p] = @ + bets[b].stake + payout]
        /\ holder' = holder /\ holder[p] # NoOne
    BY <1>4, AmountsTyped DEF Settlement, BetsKnown
  <2>3. [q \in Portfolio |-> Reserved(bets, q)']
           = [[q \in Portfolio |-> Reserved(bets, q)] EXCEPT ![p] = @ - bets[b].stake]
    BY <2>1
  <2>4. [q \in Portfolio |-> Realized(q)'] = [[q \in Portfolio |-> Realized(q)] EXCEPT ![p] = @ + payout]
    BY <2>1
  <2>5. [q \in Portfolio |-> Reserved(bets, q)][p] = Reserved(bets, p)
    OBVIOUS
  <2>6. QED
    BY <2>1, <2>2, <2>3, <2>4, <2>5 DEF AccountContract!Release
<1>5. QED
  BY <1>1, <1>2, <1>3, <1>4, MoneySteps DEF AccountContract!Next, Stakes

\* Step by step, the ledger keeps the money contract of Account: capital arrives
\* once, a stake leaves cash only when it is there and is reserved, and a settlement
\* releases exactly the stake it reserved (place_bet, approve, settle_bet).
THEOREM LedgerKeepsAccount == Spec => ImplementsAccount
<1>1. Init => AccountContract!Init
  BY ContractInit
<1>2. TypeOK /\ BetsKnown /\ [Next]_vars => [AccountContract!Next]_(AccountContract!vars)
  BY ContractStep
<1>3. QED
  BY <1>1, <1>2, LedgerTyping, BetsStayKnown, PTL DEF Spec, ImplementsAccount, AccountContract!Spec

\* The proved module of Account, with its parameters as the ledger gives them.
Contract ==
    INSTANCE AccountProofs WITH
        Stake    <- {o.stake : o \in Order} \cup {Row[r].stake : r \in Rec},
        Profit   <- Payout,
        funded   <- {p \in Portfolio : holder[p] # NoOne},
        reserved <- [p \in Portfolio |-> Reserved(bets, p)],
        realized <- [p \in Portfolio |-> Realized(p)]

\* Money is conserved in every portfolio: cash and reserved stakes are the starting
\* capital and what settlements brought, for every order of placements, approvals
\* and settlements (place_bet, approve, settle_bet).
THEOREM LedgerConserves == Spec => []AccountContract!Conserved
<1>1. StartingCapital \in Nat /\ Stakes \subseteq Nat /\ Payout \subseteq Int
  BY CapitalAssumption, PayoutAssumption, OrderAssumption, RowAssumption DEF Stakes, OrderType, RowType
<1>2. Contract!Spec => []Contract!Conserved
  BY <1>1, Contract!AccountConserved DEF Stakes
<1>3. Contract!Conserved <=> AccountContract!Conserved
  BY DEF Contract!Conserved, AccountContract!Conserved
<1>4. Contract!Init <=> AccountContract!Init
  BY DEF Contract!Init, AccountContract!Init
<1>5. [AccountContract!Next]_(AccountContract!vars) <=> [Contract!Next]_(Contract!vars)
  BY DEF Contract!vars, Contract!Next, Contract!Fund, Contract!Reserve, Contract!Release,
         Contract!Available, AccountContract!vars, AccountContract!Next, AccountContract!Fund,
         AccountContract!Reserve, AccountContract!Release, AccountContract!Available
<1>6. QED
  BY <1>2, <1>3, <1>4, <1>5, LedgerKeepsAccount, PTL
  DEF ImplementsAccount, AccountContract!Spec, Contract!Spec

------------------------------------------------------------------------------
(* The path of equity *)

\* Every id in the settlement order of a portfolio is a settled bet, and the path
\* ends at the starting capital and everything realized.
OrderSound ==
    \A p \in Portfolio :
        /\ \A i \in 1..Len(settled[p]) :
              settled[p][i] \in DOMAIN bets /\ bets[settled[p][i]].status = "settled"
        /\ EquityPath(bets, settled[p])[Len(settled[p])] = StartingCapital + Realized(p)

\* The path is made of integers.
LEMMA PathTyped ==
  ASSUME NEW table, NEW order \in Seq(BetId),
         \A i \in 1..Len(order) : table[order[i]].pnl \in Int
  PROVE  \A i \in 0..Len(order) : EquityPath(table, order)[i] \in Int
<1> SUFFICES ASSUME NEW i \in 0..Len(order) PROVE EquityPath(table, order)[i] \in Int
  OBVIOUS
<1> DEFINE w == [j \in 1..i |-> table[order[j]].pnl]
<1>1. i \in Nat /\ i <= Len(order) /\ Len(order) \in Nat
  OBVIOUS
<1>2. IsFiniteSet(1..i) /\ \A j \in 1..i : w[j] \in Int
  BY <1>1, FS_Interval
<1> HIDE DEF w
<1>3. Total(w, 1..i) \in Int
  BY <1>2, TotalInt
<1>4. EquityPath(table, order)[i] = StartingCapital + Total(w, 1..i)
  BY DEF EquityPath, w
<1>5. QED
  BY <1>3, <1>4, CapitalAssumption

\* The path of an order depends on the profits of the bets in it only.
LEMMA PathAgree ==
  ASSUME NEW table, NEW other, NEW order \in Seq(BetId),
         \A i \in 1..Len(order) : table[order[i]].pnl = other[order[i]].pnl
  PROVE  EquityPath(table, order) = EquityPath(other, order)
<1>1. ASSUME NEW i \in 0..Len(order)
      PROVE  [j \in 1..i |-> table[order[j]].pnl] = [j \in 1..i |-> other[order[j]].pnl]
  <2>1. \A j \in 1..i : j \in 1..Len(order)
    OBVIOUS
  <2>2. QED
    BY <2>1
<1>2. QED
  BY <1>1 DEF EquityPath

\* One more settlement adds its profit at the end of the path.
LEMMA PathAppend ==
  ASSUME NEW table, NEW order \in Seq(BetId), NEW b \in BetId,
         \A i \in 1..Len(order) : table[order[i]].pnl \in Int, table[b].pnl \in Int
  PROVE  LET longer == EquityPath(table, Append(order, b))
             path == EquityPath(table, order)
         IN  /\ \A i \in 0..Len(order) : longer[i] = path[i]
             /\ longer[Len(order) + 1] = path[Len(order)] + table[b].pnl
<1> DEFINE n == Len(order)
           next == Append(order, b)
           w == [j \in 1..n |-> table[order[j]].pnl]
           v == [j \in 1..(n + 1) |-> table[next[j]].pnl]
<1>1. n \in Nat /\ Len(next) = n + 1 /\ next[n + 1] = b /\ \A j \in 1..n : next[j] = order[j]
  OBVIOUS
<1>2. ASSUME NEW i \in 0..n
      PROVE  EquityPath(table, next)[i] = EquityPath(table, order)[i]
  <2>1. i \in 0..Len(next) /\ i \in 0..Len(order) /\ \A j \in 1..i : j \in 1..n
    BY <1>1
  <2>2. [j \in 1..i |-> table[next[j]].pnl] = [j \in 1..i |-> table[order[j]].pnl]
    BY <1>1, <2>1
  <2>3. QED
    BY <2>1, <2>2 DEF EquityPath
<1>3. 1..(n + 1) = (1..n) \cup {n + 1} /\ n + 1 \notin 1..n
  BY <1>1
<1>4. IsFiniteSet(1..n)
  BY <1>1, FS_Interval
<1>5. v[n + 1] = table[b].pnl /\ (\A j \in 1..(n + 1) : v[j] \in Int) /\ \A j \in 1..n : v[j] = w[j]
  BY <1>1
<1>6. EquityPath(table, next)[n + 1] = StartingCapital + Total(v, 1..(n + 1))
  BY <1>1 DEF EquityPath
<1>7. EquityPath(table, order)[n] = StartingCapital + Total(w, 1..n)
  BY <1>1 DEF EquityPath
<1> HIDE DEF v, w, next, n
<1>8. Total(v, (1..n) \cup {n + 1}) = v[n + 1] + Total(v, 1..n)
  <2>1. \A j \in (1..n) \cup {n + 1} : v[j] \in Int
    BY <1>3, <1>5
  <2>2. QED
    BY <1>3, <1>4, <2>1, TotalInsert
<1>9. Total(v, 1..n) = Total(w, 1..n)
  BY <1>4, <1>5, TotalAgree
<1>10. Total(w, 1..n) \in Int
  <2>1. \A j \in 1..n : w[j] \in Int
    BY <1>1, <1>5
  <2>2. QED
    BY <1>4, <2>1, TotalInt
<1> DEFINE sum == Total(w, 1..n)
<1>11. EquityPath(table, next)[n + 1] = StartingCapital + (table[b].pnl + sum)
  BY <1>3, <1>5, <1>6, <1>8, <1>9
<1>12. EquityPath(table, next)[n + 1] = EquityPath(table, order)[n] + table[b].pnl
  <2>1. sum \in Int /\ EquityPath(table, order)[n] = StartingCapital + sum
    BY <1>7, <1>10
  <2> HIDE DEF sum
  <2>2. QED
    BY <1>11, <2>1, CapitalAssumption
<1>13. QED
  BY <1>2, <1>12 DEF n, next

\* What OrderSound says of one portfolio, with the types the sums need.
LEMMA OrderTyped ==
  ASSUME TypeOK, OrderSound, NEW p \in Portfolio
  PROVE  /\ settled[p] \in Seq(BetId) /\ Len(settled[p]) \in Nat
         /\ \A i \in 1..Len(settled[p]) : bets[settled[p][i]].pnl \in Int
         /\ \A i \in 0..Len(settled[p]) : EquityPath(bets, settled[p])[i] \in Int
<1>1. settled[p] \in Seq(BetId) /\ Len(settled[p]) \in Nat
  BY DEF TypeOK
<1>2. \A i \in 1..Len(settled[p]) : bets[settled[p][i]].pnl \in Int
  BY AmountsTyped DEF OrderSound
<1>3. QED
  BY <1>1, <1>2, PathTyped

\* Bets that are not settled have no part in the path.
LEMMA PathKept ==
  ASSUME TypeOK, OrderSound, NEW p \in Portfolio, settled'[p] = settled[p],
         \A b \in DOMAIN bets : bets[b].status = "settled" => b \in DOMAIN bets' /\ bets'[b] = bets[b]
  PROVE  EquityPath(bets, settled[p])' = EquityPath(bets, settled[p])
<1>1. \A i \in 1..Len(settled[p]) : bets'[settled[p][i]].pnl = bets[settled[p][i]].pnl
  BY DEF OrderSound
<1>2. EquityPath(bets', settled[p]) = EquityPath(bets, settled[p])
  BY <1>1, PathAgree DEF TypeOK
<1>3. QED
  BY <1>2

\* Nothing is settled in the beginning.
LEMMA OrderSoundInit == Init => OrderSound
<1> SUFFICES ASSUME Init, NEW p \in Portfolio
             PROVE  /\ settled[p] = <<>>
                    /\ EquityPath(bets, <<>>)[0] = StartingCapital + Realized(p)
  BY DEF OrderSound, Init
<1>1. settled[p] = <<>> /\ DOMAIN bets = {}
  BY DEF Init
<1>2. Realized(p) = Total([b \in {} |-> bets[b].pnl], {})
  <2>1. BetsWith(bets, p, "settled") = {}
    BY <1>1 DEF BetsWith
  <2>2. QED
    BY <2>1 DEF Realized, PnlOf
<1>3. EquityPath(bets, <<>>)[0] = StartingCapital + Total([j \in 1..0 |-> bets[<<>>[j]].pnl], 1..0)
  BY DEF EquityPath
<1>4. 1..0 = {}
  OBVIOUS
<1>5. QED
  BY <1>1, <1>2, <1>3, <1>4, TotalEmpty

\* What a settlement does to the path of its portfolio.
LEMMA SettlementPath ==
  ASSUME TypeOK, OrderSound, NEW p \in Portfolio, NEW b \in BetId, NEW payout \in Payout,
         Settlement(p, b, payout)
  PROVE  LET path == EquityPath(bets, settled[p])
             n == Len(settled[p])
         IN  /\ settled'[p] = Append(settled[p], b)
             /\ \A i \in 0..n : EquityPath(bets, settled[p])'[i] = path[i]
             /\ EquityPath(bets, settled[p])'[n + 1] = path[n] + payout
<1>1. /\ b \in DOMAIN bets /\ bets[b] \in BetRow /\ bets[b].status = "open"
      /\ bets' = [bets EXCEPT ![b].status = "settled", ![b].pnl = payout]
      /\ settled' = [settled EXCEPT ![p] = Append(@, b)]
  BY DEF Settlement, TypeOK
<1>2. bets'[b].pnl = payout /\ \A x \in DOMAIN bets \ {b} : bets'[x] = bets[x]
  BY <1>1 DEF BetRow
<1>3. settled'[p] = Append(settled[p], b)
  BY <1>1 DEF TypeOK
<1>4. \A i \in 1..Len(settled[p]) : bets'[settled[p][i]].pnl = bets[settled[p][i]].pnl
  BY <1>1, <1>2 DEF OrderSound
<1>5. EquityPath(bets', settled[p]) = EquityPath(bets, settled[p])
  BY <1>4, OrderTyped, PathAgree
<1>6. /\ settled[p] \in Seq(BetId) /\ payout \in Int
      /\ \A i \in 1..Len(settled[p]) : bets'[settled[p][i]].pnl \in Int
  BY <1>4, OrderTyped, PayoutAssumption
<1>7. /\ \A i \in 0..Len(settled[p]) :
            EquityPath(bets', Append(settled[p], b))[i] = EquityPath(bets', settled[p])[i]
      /\ EquityPath(bets', Append(settled[p], b))[Len(settled[p]) + 1]
            = EquityPath(bets', settled[p])[Len(settled[p])] + bets'[b].pnl
  BY <1>2, <1>6, PathAppend
<1>8. QED
  BY <1>2, <1>3, <1>5, <1>7

\* Every settlement appends the bet it settles, and its profit to the path.
LEMMA OrderSoundStep == TypeOK /\ BetsKnown /\ OrderSound /\ [Next]_vars => OrderSound'
<1> SUFFICES ASSUME TypeOK, BetsKnown, OrderSound, [Next]_vars PROVE OrderSound'
  OBVIOUS
<1>1. ASSUME bets' = bets, settled' = settled PROVE OrderSound'
  <2>1. \A p \in Portfolio : Realized(p)' = Realized(p)
    BY <1>1 DEF Realized
  <2>2. \A p \in Portfolio : EquityPath(bets, settled[p])' = EquityPath(bets, settled[p])
    BY <1>1
  <2>3. QED
    BY <1>1, <2>1, <2>2 DEF OrderSound
<1>2. ASSUME NEW who \in Principal, NEW p \in Portfolio, OpenPortfolio(who, p) PROVE OrderSound'
  BY <1>1, <1>2 DEF OpenPortfolio
<1>3. ASSUME NEW p \in Portfolio, NEW b \in BetId, NEW row \in BetRow, NewBet(p, b, row)
      PROVE  OrderSound'
  <2>1. /\ settled' = settled
        /\ \A x \in DOMAIN bets : x \in DOMAIN bets' /\ bets'[x] = bets[x]
    BY <1>3 DEF NewBet
  <2>2. \A q \in Portfolio : Realized(q)' = Realized(q)
    BY <1>3, NewBetSums
  <2>3. \A q \in Portfolio : EquityPath(bets, settled[q])' = EquityPath(bets, settled[q])
    BY <2>1, PathKept
  <2>4. QED
    BY <2>1, <2>2, <2>3 DEF OrderSound
<1>4. ASSUME NEW p \in Portfolio, NEW b \in BetId, NEW payout \in Payout, Settlement(p, b, payout)
      PROVE  OrderSound'
  <2>1. /\ b \in DOMAIN bets /\ bets[b] \in BetRow /\ DOMAIN bets' = DOMAIN bets
        /\ bets[b].status = "open"
        /\ bets' = [bets EXCEPT ![b].status = "settled", ![b].pnl = payout]
        /\ settled' = [settled EXCEPT ![p] = Append(@, b)]
    BY <1>4 DEF Settlement, TypeOK
  <2>2. bets'[b].status = "settled" /\ \A x \in DOMAIN bets \ {b} : bets'[x] = bets[x]
    BY <2>1 DEF BetRow
  <2>3. /\ Realized(p)' = Realized(p) + payout
        /\ \A q \in Portfolio \ {p} : Realized(q)' = Realized(q)
    BY <1>4, SettlementSums
  <2>4. ASSUME NEW q \in Portfolio \ {p}
        PROVE  EquityPath(bets, settled[q])' = EquityPath(bets, settled[q]) /\ settled'[q] = settled[q]
    <3>1. settled'[q] = settled[q]
      BY <2>1 DEF TypeOK
    <3>2. \A x \in DOMAIN bets : bets[x].status = "settled" => x \in DOMAIN bets' /\ bets'[x] = bets[x]
      BY <2>1, <2>2
    <3>3. QED
      BY <3>1, <3>2, PathKept
  <2>5. ASSUME NEW q \in Portfolio, NEW i \in 1..Len(settled'[q])
        PROVE  settled'[q][i] \in DOMAIN bets' /\ bets'[settled'[q][i]].status = "settled"
    <3>1. CASE q # p
      BY <3>1, <2>1, <2>2, <2>4 DEF OrderSound
    <3>2. CASE q = p
      <4>1. settled'[p] = Append(settled[p], b) /\ settled[p] \in Seq(BetId) /\ Len(settled[p]) \in Nat
        BY <2>1, OrderTyped DEF TypeOK
      <4>2. CASE i = Len(settled[p]) + 1
        BY <3>2, <4>1, <4>2, <2>1, <2>2
      <4>3. CASE i \in 1..Len(settled[p])
        <5>1. settled'[p][i] = settled[p][i]
          BY <4>1, <4>3
        <5>2. settled[p][i] \in DOMAIN bets /\ bets[settled[p][i]].status = "settled"
          BY <4>3 DEF OrderSound
        <5>3. QED
          BY <3>2, <5>1, <5>2, <2>1, <2>2
      <4>4. QED
        BY <3>2, <4>1, <4>2, <4>3
    <3>3. QED
      BY <3>1, <3>2
  <2>6. EquityPath(bets, settled[p])'[Len(settled'[p])] = StartingCapital + Realized(p)'
    <3>1. /\ Len(settled'[p]) = Len(settled[p]) + 1
          /\ EquityPath(bets, settled[p])'[Len(settled[p]) + 1]
                = EquityPath(bets, settled[p])[Len(settled[p])] + payout
      BY <1>4, SettlementPath, OrderTyped
    <3>2. EquityPath(bets, settled[p])[Len(settled[p])] = StartingCapital + Realized(p)
      BY DEF OrderSound
    <3>3. Realized(p) \in Int /\ payout \in Int
      BY SumsTyped, PayoutAssumption
    <3> DEFINE won == Realized(p)
               path == EquityPath(bets, settled[p])'[Len(settled'[p])]
               last == EquityPath(bets, settled[p])[Len(settled[p])]
    <3>4. path = last + payout /\ last = StartingCapital + won /\ Realized(p)' = won + payout
      BY <3>1, <3>2, <2>3
    <3>5. won \in Int
      BY <3>3
    <3> HIDE DEF won, path, last
    <3>6. path = StartingCapital + Realized(p)'
      BY <3>3, <3>4, <3>5, CapitalAssumption
    <3>7. QED
      BY <3>6 DEF path
  <2>7. QED
    BY <2>3, <2>4, <2>5, <2>6 DEF OrderSound
<1>5. QED
  BY <1>1, <1>2, <1>3, <1>4, MoneySteps

\* The settlement order is sound in every state.
LEMMA OrderStaysSound == Spec => []OrderSound
BY OrderSoundInit, OrderSoundStep, LedgerTyping, BetsStayKnown, PTL DEF Spec

------------------------------------------------------------------------------
(* The high-water mark *)

\* The peak is a point of the path that no other exceeds.
LEMMA PeakOfPath ==
  ASSUME NEW table, NEW order \in Seq(BetId),
         \A i \in 0..Len(order) : EquityPath(table, order)[i] \in Int
  PROVE  /\ PeakEquity(table, order) \in Int
         /\ \E i \in 0..Len(order) : PeakEquity(table, order) = EquityPath(table, order)[i]
         /\ \A i \in 0..Len(order) : PeakEquity(table, order) >= EquityPath(table, order)[i]
<1> DEFINE n == Len(order)
           path == EquityPath(table, order)
           points == {path[i] : i \in 0..n}
<1>1. n \in Nat /\ points \subseteq Int /\ path[0] \in points
  OBVIOUS
<1>2. IsFiniteSet(points)
  <2> DEFINE f == [i \in 0..n |-> path[i]]
  <2>1. f \in Surjection(0..n, points)
    BY DEF Surjection
  <2>2. IsFiniteSet(0..n)
    BY <1>1, FS_Interval
  <2> HIDE DEF f, points
  <2>3. QED
    BY <2>1, <2>2, FS_Surjection
<1>3. Max(points) \in points /\ \A y \in points : Max(points) >= y
  <2> HIDE DEF points
  <2>1. QED
    BY <1>1, <1>2, MaxIs
<1>4. PeakEquity(table, order) = Max(points)
  BY DEF PeakEquity
<1>5. QED
  BY <1>1, <1>3, <1>4

\* The peak of a portfolio is at least its capital and its realized equity.
LEMMA PeakBounds ==
  ASSUME TypeOK, OrderSound, NEW p \in Portfolio
  PROVE  /\ Peak(p) \in Int
         /\ Peak(p) >= StartingCapital
         /\ Peak(p) >= StartingCapital + Realized(p)
<1> DEFINE path == EquityPath(bets, settled[p])
<1>1. /\ Peak(p) \in Int
      /\ \A i \in 0..Len(settled[p]) : Peak(p) >= path[i]
  BY OrderTyped, PeakOfPath DEF Peak
<1>2. path[0] = StartingCapital
  <2>1. path[0] = StartingCapital + Total([j \in 1..0 |-> bets[settled[p][j]].pnl], 1..0)
    BY OrderTyped DEF EquityPath
  <2>2. 1..0 = {}
    OBVIOUS
  <2>3. Total([j \in 1..0 |-> bets[settled[p][j]].pnl], 1..0) = 0
    BY <2>2, TotalEmpty
  <2>4. QED
    BY <2>1, <2>3, CapitalAssumption
<1>3. Len(settled[p]) \in 0..Len(settled[p]) /\ 0 \in 0..Len(settled[p])
  BY OrderTyped
<1>4. QED
  BY <1>1, <1>2, <1>3 DEF OrderSound

\* A step that settles nothing of a portfolio leaves its peak.
LEMMA PeakKept ==
  ASSUME TypeOK, OrderSound, NEW p \in Portfolio, settled'[p] = settled[p],
         \A b \in DOMAIN bets : bets[b].status = "settled" => b \in DOMAIN bets' /\ bets'[b] = bets[b]
  PROVE  Peak(p)' = Peak(p)
<1>1. EquityPath(bets, settled[p])' = EquityPath(bets, settled[p])
  BY PathKept
<1>2. QED
  BY <1>1 DEF Peak, PeakEquity

\* A settlement raises the peak to the realized equity it reaches, or keeps it.
LEMMA PeakAfterSettlement ==
  ASSUME TypeOK, BetsKnown, OrderSound, TypeOK', OrderSound',
         NEW p \in Portfolio, NEW b \in BetId, NEW payout \in Payout,
         Settlement(p, b, payout)
  PROVE  Peak(p)' = Max({Peak(p), StartingCapital + Realized(p)'})
<1> DEFINE n == Len(settled[p])
           path == EquityPath(bets, settled[p])
           new == StartingCapital + Realized(p)'
<1>1. /\ Len(settled'[p]) = n + 1 /\ n \in Nat
      /\ \A i \in 0..n : EquityPath(bets, settled[p])'[i] = path[i]
  BY SettlementPath, OrderTyped
<1>2. EquityPath(bets, settled[p])'[n + 1] = new
  BY <1>1 DEF OrderSound
<1>3. /\ Peak(p)' \in Int
      /\ \E i \in 0..(n + 1) : Peak(p)' = EquityPath(bets, settled[p])'[i]
      /\ \A i \in 0..(n + 1) : Peak(p)' >= EquityPath(bets, settled[p])'[i]
  <2>1. /\ settled'[p] \in Seq(BetId)
        /\ \A i \in 0..Len(settled'[p]) : EquityPath(bets', settled'[p])[i] \in Int
    <3>1. settled'[p] \in Seq(BetId)
      BY DEF TypeOK
    <3>2. \A i \in 1..Len(settled'[p]) : bets'[settled'[p][i]].pnl \in Int
      BY DEF OrderSound, TypeOK, BetRow
    <3>3. QED
      BY <3>1, <3>2, PathTyped
  <2>2. QED
    BY <1>1, <2>1, PeakOfPath DEF Peak
<1>4. /\ Peak(p) \in Int
      /\ \E i \in 0..n : Peak(p) = path[i]
      /\ \A i \in 0..n : Peak(p) >= path[i]
  BY OrderTyped, PeakOfPath DEF Peak
<1>5. new \in Int
  BY <1>1, <1>2, <1>3, SumsTyped, SettlementSums, PayoutAssumption, CapitalAssumption
<1>6. Peak(p)' >= Peak(p) /\ Peak(p)' >= new
  BY <1>1, <1>2, <1>3, <1>4
<1>7. Peak(p)' \in {Peak(p), new}
  <2>1. PICK i \in 0..(n + 1) : Peak(p)' = EquityPath(bets, settled[p])'[i]
    BY <1>3
  <2>2. CASE i = n + 1
    BY <1>2, <2>1, <2>2
  <2>3. CASE i \in 0..n
    BY <1>1, <1>3, <1>4, <1>6, <2>1, <2>3
  <2>4. QED
    BY <1>1, <2>2, <2>3
<1> HIDE DEF new
<1>8. Max({Peak(p), new}) = Peak(p)'
  BY <1>3, <1>4, <1>5, <1>6, <1>7, MaxUnique
<1>9. QED
  BY <1>8 DEF new

\* The peak follows equity in one step.
LEMMA PeakStep ==
  ASSUME TypeOK, BetsKnown, OrderSound, TypeOK', OrderSound', AccountContract!Conserved',
         [Next]_vars
  PROVE  \A p \in Portfolio : holder'[p] # NoOne => Peak(p)' = Max({Peak(p), Equity(p)'})
<1> SUFFICES ASSUME NEW p \in Portfolio, holder'[p] # NoOne
             PROVE  Peak(p)' = Max({Peak(p), Equity(p)'})
  OBVIOUS
<1>1. Equity(p)' = StartingCapital + Realized(p)'
  BY DEF AccountContract!Conserved, Equity
<1>2. ASSUME Realized(p)' = Realized(p), Peak(p)' = Peak(p)
      PROVE  Peak(p)' = Max({Peak(p), Equity(p)'})
  <2>1. Peak(p) \in Int /\ Equity(p)' \in Int /\ Peak(p) >= Equity(p)'
    BY <1>1, <1>2, PeakBounds, SumsTyped, CapitalAssumption
  <2>2. Max({Peak(p), Equity(p)'}) = Peak(p)
    BY <2>1, MaxUnique
  <2>3. QED
    BY <1>2, <2>2
<1>3. ASSUME bets' = bets, settled' = settled PROVE Peak(p)' = Peak(p) /\ Realized(p)' = Realized(p)
  BY <1>3 DEF Peak, Realized
<1>4. ASSUME NEW q \in Portfolio, NEW b \in BetId, NEW row \in BetRow, NewBet(q, b, row)
      PROVE  Peak(p)' = Peak(p) /\ Realized(p)' = Realized(p)
  <2>1. settled' = settled /\ \A x \in DOMAIN bets : x \in DOMAIN bets' /\ bets'[x] = bets[x]
    BY <1>4 DEF NewBet
  <2>2. QED
    BY <1>4, <2>1, NewBetSums, PeakKept
<1>5. ASSUME NEW q \in Portfolio, NEW b \in BetId, NEW payout \in Payout, Settlement(q, b, payout)
      PROVE  Peak(p)' = Max({Peak(p), Equity(p)'})
  <2>1. CASE q = p
    BY <1>1, <1>5, <2>1, PeakAfterSettlement
  <2>2. CASE q # p
    <3>1. /\ settled'[p] = settled[p]
          /\ \A x \in DOMAIN bets : bets[x].status = "settled" => x \in DOMAIN bets' /\ bets'[x] = bets[x]
      BY <1>5, <2>2 DEF Settlement, TypeOK
    <3>2. Peak(p)' = Peak(p) /\ Realized(p)' = Realized(p)
      BY <1>5, <2>2, <3>1, SettlementSums, PeakKept
    <3>3. QED
      BY <1>2, <3>2
  <2>3. QED
    BY <2>1, <2>2
<1>6. QED
  BY <1>2, <1>3, <1>4, <1>5, MoneySteps DEF OpenPortfolio

\* The peak an approval is measured against, recomputed from the settlement order, is
\* the true high-water mark of equity: in every step it is the larger of what it was
\* and the equity the step leads to (portfolio_state).
THEOREM PeakFollowsEquity == Spec => PeakIsHighWater
<1> DEFINE Rises == \A p \in Portfolio :
                      holder'[p] # NoOne => Peak(p)' = Max({Peak(p), Equity(p)'})
<1>1. TypeOK /\ BetsKnown /\ OrderSound /\ TypeOK' /\ OrderSound' /\ AccountContract!Conserved' /\ [Next]_vars
        => [Rises]_vars
  BY PeakStep
<1>2. QED
  BY <1>1, LedgerTyping, BetsStayKnown, OrderStaysSound, LedgerConserves, PTL DEF Spec, PeakIsHighWater
==============================================================================
