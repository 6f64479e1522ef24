-------------------------- MODULE MutationTxnProofs --------------------------
(* Concurrent sessions are serializable: whatever the key, owner and row locks    *)
(* let interleave, every commit is one transaction of PortfolioLedger with all    *)
(* its guards, and the answers agree with the tables.                             *)
EXTENDS MutationTxn, RiskProofs

------------------------------------------------------------------------------
(* The invariant of the sessions *)

\* The statements between the insert of the idempotency record and the commit.
Keeping == {"share", "lock", "load", "create", "fund", "check", "write"}

\* How far a session of each operation may have come, and what is then so.
Serving(s, q) ==
    /\ q.op \in {"place", "settle", "view"} =>
          pc[s] \in {"owner", "insert", "share", "lock", "load", "create", "fund", "check", "write", "lookup"}
    /\ q.op = "snapshot" => pc[s] \in {"load", "create", "fund", "check", "write"}
    /\ q.op = "approve" => pc[s] \in {"lock", "row", "check", "write"}
    /\ q.op = "reject" => pc[s] \in {"row", "check", "write"}
    /\ pc[s] \in {"insert", "share", "lookup"} => q.key # NoKey
    /\ q.op \in {"place", "settle", "view"} /\ pc[s] # "owner" => q.who \in owners
    /\ s \in created =>
          pc[s] \in {"fund", "check", "write"} /\ holder[q.port] = NoOne /\ q.op \notin {"approve", "reject"}
    /\ pc[s] = "fund" => s \in created
    /\ pc[s] \in {"check", "write"} /\ s \notin created => holder[q.port] = q.who
    /\ pc[s] \in Keeping /\ q.key # NoKey => KeyFree(q.who, Endpoint(q), q.key)
    /\ pc[s] = "write" => Acceptable(q)

HasOwner(s) ==
    \/ req[s].op \in {"place", "settle", "view"} /\ pc[s] \in {"load", "create", "fund", "check", "write"}
    \/ req[s].op = "approve" /\ pc[s] \in {"row", "check", "write"}

HasRow(s) == req[s].op \in {"approve", "reject"} /\ pc[s] \in {"check", "write"}

HasKey(s) == Keyed(s) /\ pc[s] \in Keeping

\* What two sessions may not have at once.
Apart(s, t) ==
    /\ s \in created /\ t \in created => req[s].port # req[t].port
    /\ HasOwner(s) /\ HasOwner(t) => req[s].who # req[t].who
    /\ HasRow(s) /\ HasRow(t) => req[s].rec # req[t].rec
    /\ HasKey(s) /\ HasKey(t) =>
          req[s].who # req[t].who \/ Endpoint(req[s]) # Endpoint(req[t]) \/ req[s].key # req[t].key

Label == {"idle", "owner", "insert", "share", "lock", "row", "load", "create", "fund", "check",
          "write", "lookup"}

SessionsTyped ==
    /\ pc \in [Session -> Label]
    /\ req \in [Session -> Request \cup {NoRequest}]
    /\ created \subseteq Session
    /\ \A s \in Session : pc[s] = "idle" <=> req[s] = NoRequest
    /\ \A s \in created : pc[s] \in {"fund", "check", "write"}

\* What every answer says is on record.
AnswerBacked(a) ==
    a.code = "ok" =>
        /\ a.request.key # NoKey =>
              \E i \in idem : /\ i.owner = a.request.who /\ i.endpoint = Endpoint(a.request)
                              /\ i.key = a.request.key /\ i.request = a.request.body
                              /\ i.response = a.response
        /\ a.request.op = "approve" =>
              /\ recs[a.request.rec] = "approved"
              /\ a.response.bet \in DOMAIN bets /\ bets[a.response.bet].rec = a.request.rec
        /\ a.request.op = "reject" => recs[a.request.rec] = "rejected" /\ a.response.bet = NoBet

TxnSound ==
    /\ SessionsTyped
    /\ \A s \in Session, q \in Request : req[s] = q => Serving(s, q)
    /\ \A s, t \in Session : s # t => Apart(s, t)

TablesSound == TypeOK /\ BetsKnown /\ OrderSound

------------------------------------------------------------------------------
(* Requests *)

\* What a request is made of.
LEMMA RequestForms ==
  ASSUME NEW q \in Request
  PROVE  /\ q.op \in {"place", "settle", "view", "snapshot", "approve", "reject"}
         /\ q.who \in Principal /\ q.port \in Portfolio /\ q.key \in Key \cup {NoKey}
         /\ q.op \notin {"place", "settle"} => q.key = NoKey
         /\ q.op = "place" => q.body.order \in Order /\ q.body = [port |-> q.port, order |-> q.body.order]
         /\ q.op = "settle" =>
               /\ q.body.bet \in BetId /\ q.body.result \in {"win", "loss", "push"}
               /\ q.body.payout \in Payout
               /\ q.body = [port |-> q.port, bet |-> q.body.bet, result |-> q.body.result,
                            payout |-> q.body.payout]
         /\ q.op \in {"approve", "reject"} => q.rec \in Rec /\ q.port = Row[q.rec].port
<1>1. \/ \E who \in Principal, p \in Portfolio, order \in Order, key \in Key \cup {NoKey} :
            q = Place(who, p, order, key)
      \/ \E who \in Principal, p \in Portfolio, b \in BetId, result \in {"win", "loss", "push"},
            payout \in Payout, key \in Key \cup {NoKey} : q = Settle(who, p, b, result, payout, key)
      \/ \E who \in Principal, p \in Portfolio : q = View(who, p)
      \/ \E who \in Principal, p \in Portfolio : q = Snapshot(who, p)
      \/ \E who \in Principal, r \in Rec : q = ApproveRec(who, r)
      \/ \E who \in Principal, r \in Rec : q = RejectRec(who, r)
  BY RequestAssumption
<1>2. CASE \E who \in Principal, p \in Portfolio, order \in Order, key \in Key \cup {NoKey} :
              q = Place(who, p, order, key)
  BY <1>2 DEF Place
<1>3. CASE \E who \in Principal, p \in Portfolio, b \in BetId, result \in {"win", "loss", "push"},
              payout \in Payout, key \in Key \cup {NoKey} : q = Settle(who, p, b, result, payout, key)
  BY <1>3 DEF Settle
<1>4. CASE \/ \E who \in Principal, p \in Portfolio : q = View(who, p)
           \/ \E who \in Principal, p \in Portfolio : q = Snapshot(who, p)
  BY <1>4 DEF View, Snapshot
<1>5. CASE \/ \E who \in Principal, r \in Rec : q = ApproveRec(who, r)
           \/ \E who \in Principal, r \in Rec : q = RejectRec(who, r)
  <2>1. \A r \in Rec : Row[r].port \in Portfolio
    BY RowAssumption DEF RowType
  <2>2. QED
    BY <1>5, <2>1 DEF ApproveRec, RejectRec
<1>6. QED
  BY <1>1, <1>2, <1>3, <1>4, <1>5

\* An idle session serves no request.
LEMMA NoRequestIsNone == NoRequest \notin Request /\ NoRequest.key = NoKey /\ NoRequest.op = "none"
BY RequestForms DEF NoRequest

------------------------------------------------------------------------------
(* What the tests of a session read *)

\* Nothing an operation on portfolio p tests has changed.
MoneyKept(p) ==
    /\ holder'[p] = holder[p] /\ cash'[p] = cash[p] /\ settled'[p] = settled[p]
    /\ \A b \in DOMAIN bets' : bets'[b].port = p => b \in DOMAIN bets
    /\ \A b \in DOMAIN bets :
          bets[b].port = p \/ bets[b].status = "settled" => b \in DOMAIN bets' /\ bets'[b] = bets[b]
    /\ \A b \in DOMAIN bets : b \in DOMAIN bets' /\ bets'[b].port = bets[b].port

\* The recheck reads the open bets of one portfolio and its peak.
LEMMA RecheckAgrees ==
  ASSUME NEW row, NEW a, NEW c, NEW order, NEW other, NEW money,
         OpenBets(a, row.port) = OpenBets(c, row.port),
         \A b \in OpenBets(a, row.port) : a[b] = c[b],
         PeakEquity(a, order) = PeakEquity(c, other),
         WithinRiskLimits(row, a, order, money)
  PROVE  WithinRiskLimits(row, c, other, money)
<1> DEFINE open == OpenBets(c, row.port)
           held == OpenExposures(c, row.port)
           equity == money + Reserved(c, row.port)
<1>1. \A ids \in SUBSET open : StakeOf(a, ids) = StakeOf(c, ids)
  BY StakeOfAgree
<1>2. OpenExposures(a, row.port) = held
  BY DEF OpenExposures, ExposuresOf
<1>3. \A x \in held : x.bet \in open /\ a[x.bet] = c[x.bet]
  BY LegOfExposure DEF OpenExposures
<1>4. \A xs \in SUBSET held : ExposedStake(a, xs) = ExposedStake(c, xs)
  BY <1>3, ExposedAgree
<1>5. Reserved(a, row.port) = Reserved(c, row.port)
  BY <1>1 DEF Reserved
<1>6. /\ ~Paused(equity, PeakEquity(a, order))
      /\ StakeCapsHold(row, a, equity) /\ LegCapsHold(row, a, equity) /\ NoOpposingPosition(row, a)
  BY <1>5 DEF WithinRiskLimits
<1>7. StakeCapsHold(row, c, equity)
  <2> DEFINE day(table) == {b \in OpenBets(table, row.port) : table[b].slate = row.slate}
             parlays(table) == {b \in day(table) : table[b].kind = "parlay"}
  <2>1. day(a) = day(c) /\ parlays(a) = parlays(c) /\ day(c) \subseteq open /\ parlays(c) \subseteq open
    OBVIOUS
  <2>2. StakeOf(a, day(a)) = StakeOf(c, day(c)) /\ StakeOf(a, parlays(a)) = StakeOf(c, parlays(c))
    <3> HIDE DEF day, parlays, open
    <3>1. QED
      BY <1>1, <2>1
  <2> HIDE DEF equity
  <2>3. QED
    BY <1>6, <2>2 DEF StakeCapsHold
<1>8. LegCapsHold(row, c, equity)
  <2> DEFINE group(legs) == {x \in held : x.leg \in legs}
  <2> SUFFICES ASSUME NEW target \in row.legs
               PROVE  /\ GroupWithin(LAMBDA l : l.event = target.event, Policy.game, row, c, equity)
                      /\ GroupWithin(LAMBDA l : l.event = target.event, Policy.correlated, row, c, equity)
                      /\ GroupWithin(LAMBDA l : l.market = target.market, Policy.market, row, c, equity)
                      /\ \A t \in target.teams :
                            GroupWithin(LAMBDA l : t \in l.teams, Policy.team, row, c, equity)
    BY DEF LegCapsHold
  <2>1. ExposedStake(a, {x \in held : x.leg.event = target.event})
          = ExposedStake(c, {x \in held : x.leg.event = target.event})
    BY <1>4
  <2>2. ExposedStake(a, {x \in held : x.leg.market = target.market})
          = ExposedStake(c, {x \in held : x.leg.market = target.market})
    BY <1>4
  <2>3. \A t : ExposedStake(a, {x \in held : t \in x.leg.teams})
                = ExposedStake(c, {x \in held : t \in x.leg.teams})
    BY <1>4
  <2>4. /\ GroupWithin(LAMBDA l : l.event = target.event, Policy.game, row, a, equity)
        /\ GroupWithin(LAMBDA l : l.event = target.event, Policy.correlated, row, a, equity)
        /\ GroupWithin(LAMBDA l : l.market = target.market, Policy.market, row, a, equity)
        /\ \A t \in target.teams :
              GroupWithin(LAMBDA l : t \in l.teams, Policy.team, row, a, equity)
    BY <1>6 DEF LegCapsHold
  <2> HIDE DEF equity, held
  <2>5. QED
    BY <1>2, <2>1, <2>2, <2>3, <2>4 DEF GroupWithin, held
<1>9. NoOpposingPosition(row, c)
  BY <1>2, <1>6 DEF NoOpposingPosition
<1>10. QED
  BY <1>6, <1>7, <1>8, <1>9 DEF WithinRiskLimits

\* The recheck of an approval reads its own portfolio only.
LEMMA RecheckReads ==
  ASSUME TypeOK, OrderSound, NEW r \in Rec, MoneyKept(Row[r].port),
         WithinRiskLimits(Row[r], bets, settled[Row[r].port], cash[Row[r].port])
  PROVE  WithinRiskLimits(Row[r], bets, settled[Row[r].port], cash[Row[r].port])'
<1> DEFINE p == Row[r].port
<1>1. p \in Portfolio
  BY RowAssumption DEF RowType
<1>2. OpenBets(bets', p) = OpenBets(bets, p) /\ \A b \in OpenBets(bets, p) : bets'[b] = bets[b]
  BY DEF MoneyKept, OpenBets, BetsWith
<1>3. /\ settled'[p] = settled[p] /\ cash'[p] = cash[p]
      /\ \A b \in DOMAIN bets : bets[b].status = "settled" => b \in DOMAIN bets' /\ bets'[b] = bets[b]
  BY DEF MoneyKept
<1>4. EquityPath(bets', settled[p]) = EquityPath(bets, settled[p])
  <2>1. \A i \in 1..Len(settled[p]) : bets'[settled[p][i]].pnl = bets[settled[p][i]].pnl
    BY <1>1, <1>3 DEF OrderSound
  <2>2. settled[p] \in Seq(BetId)
    BY <1>1 DEF TypeOK
  <2>3. QED
    BY <2>1, <2>2, PathAgree
<1>5. PeakEquity(bets', settled'[p]) = PeakEquity(bets, settled[p])
  BY <1>3, <1>4 DEF PeakEquity
<1>6. QED
  BY <1>2, <1>3, <1>5, RecheckAgrees

\* What a session has tested stays so while its portfolio and its row are let alone.
LEMMA AcceptableKept ==
  ASSUME TypeOK, OrderSound, NEW q \in Request, Acceptable(q),
         q.op \in {"place", "settle", "approve"} => MoneyKept(q.port),
         q.op \in {"approve", "reject"} /\ recs[q.rec] = "proposed" => recs'[q.rec] = "proposed"
  PROVE  Acceptable(q)'
<1>1. CASE q.op = "place"
  BY <1>1 DEF Acceptable, MoneyKept, OpeningCash
<1>2. CASE q.op = "settle"
  BY <1>2 DEF Acceptable, MoneyKept
<1>3. CASE q.op = "approve"
  <2>1. q.rec \in Rec /\ q.port = Row[q.rec].port
    BY <1>3, RequestForms
  <2>2. /\ recs[q.rec] = "proposed" /\ Row[q.rec].stake > 0 /\ cash[q.port] >= Row[q.rec].stake
        /\ WithinRiskLimits(Row[q.rec], bets, settled[q.port], cash[q.port])
        /\ MoneyKept(q.port)
    BY <1>3 DEF Acceptable
  <2>3. WithinRiskLimits(Row[q.rec], bets', settled'[q.port], cash'[q.port])
    BY <2>1, <2>2, RecheckReads
  <2>4. cash'[q.port] = cash[q.port] /\ recs'[q.rec] = "proposed"
    BY <1>3, <2>2 DEF MoneyKept
  <2>5. QED
    BY <1>3, <2>2, <2>3, <2>4 DEF Acceptable
<1>4. CASE q.op \in {"view", "snapshot", "reject"}
  BY <1>4 DEF Acceptable
<1>5. QED
  BY <1>1, <1>2, <1>3, <1>4, RequestForms

------------------------------------------------------------------------------
(* A step of one session leaves the others alone *)

Moves(s) ==
    /\ SessionsTyped /\ SessionsTyped'
    /\ \A t \in Session \ {s} : pc'[t] = pc[t] /\ req'[t] = req[t] /\ (t \in created' <=> t \in created)

\* Two sessions are apart in either order.
LEMMA ApartSymmetric ==
  ASSUME NEW s \in Session, NEW t \in Session, Apart(s, t)
  PROVE  Apart(t, s)
BY DEF Apart

\* Only the pairs of the session that moved are to be looked at.
LEMMA ApartStep ==
  ASSUME TxnSound, NEW s \in Session, Moves(s), \A t \in Session \ {s} : Apart(s, t)'
  PROVE  \A t, u \in Session : t # u => Apart(t, u)'
<1> SUFFICES ASSUME NEW t \in Session, NEW u \in Session, t # u PROVE Apart(t, u)'
  OBVIOUS
<1>1. CASE t = s
  BY <1>1
<1>2. CASE u = s
  <2>1. Apart(u, t)'
    BY <1>2
  <2>2. QED
    BY <2>1 DEF Apart
<1>3. CASE t # s /\ u # s
  BY <1>3 DEF Moves, TxnSound, Apart, HasOwner, HasRow, HasKey, Keyed, Endpoint
<1>4. QED
  BY <1>1, <1>2, <1>3

\* A session that takes no more than it had stays apart from the others.
LEMMA ApartKept ==
  ASSUME TxnSound, NEW s \in Session, Moves(s), req'[s] = req[s],
         s \in created' => s \in created,
         HasOwner(s)' => HasOwner(s), HasRow(s)' => HasRow(s), HasKey(s)' => HasKey(s),
         NEW t \in Session, t # s
  PROVE  Apart(s, t)'
<1>1. Apart(s, t)
  BY DEF TxnSound
<1>2. (HasOwner(t)' <=> HasOwner(t)) /\ (HasRow(t)' <=> HasRow(t)) /\ (HasKey(t)' <=> HasKey(t))
  BY DEF Moves, HasOwner, HasRow, HasKey, Keyed
<1>3. QED
  BY <1>1, <1>2 DEF Apart, Moves, Endpoint

\* A session that has let go of everything is apart from the others.
LEMMA ApartReleased ==
  ASSUME NEW s \in Session, pc'[s] \in {"idle", "lookup"}, s \notin created',
         NEW t \in Session, t # s
  PROVE  Apart(s, t)'
BY DEF Apart, HasOwner, HasRow, HasKey, Keeping

\* The tests of a session read tables only.
LEMMA TestsKept ==
  ASSUME UNCHANGED tables, NEW q
  PROVE  /\ Acceptable(q)' <=> Acceptable(q)
         /\ KeyFree(q.who, Endpoint(q), q.key)' <=> KeyFree(q.who, Endpoint(q), q.key)
         /\ owners' = owners /\ holder' = holder
BY DEF tables, Acceptable, OpeningCash, KeyFree

\* While the tables are the same, what holds of the other sessions is the same.
LEMMA OthersServe ==
  ASSUME TxnSound, NEW s \in Session, Moves(s), UNCHANGED tables,
         NEW t \in Session, t # s, NEW q \in Request, req'[t] = q
  PROVE  Serving(t, q)'
<1>1. Serving(t, q)
  BY DEF TxnSound, Moves
<1>2. pc'[t] = pc[t] /\ (t \in created' <=> t \in created)
  BY DEF Moves
<1>3. QED
  BY <1>1, <1>2, TestsKept DEF Serving

\* A step that writes nothing keeps the invariant if it does for the session itself.
LEMMA SilentStep ==
  ASSUME TxnSound, NEW s \in Session, Moves(s), UNCHANGED tables,
         \A q \in Request : req'[s] = q => Serving(s, q)',
         \A t \in Session \ {s} : Apart(s, t)'
  PROVE  TxnSound'
BY OthersServe, ApartStep DEF TxnSound, Moves

------------------------------------------------------------------------------
(* The statements that write nothing *)

\* A busy session serves one of the requests.
LEMMA BusyServes ==
  ASSUME TxnSound, NEW s \in Session, pc[s] # "idle"
  PROVE  req[s] \in Request /\ Serving(s, req[s])
BY DEF TxnSound, SessionsTyped

\* The end of a transaction moves one session, which then holds nothing.
LEMMA Released ==
  ASSUME TxnSound, NEW s \in Session, Goto(s, "idle"), created' = created \ {s},
         req' = [req EXCEPT ![s] = NoRequest]
  PROVE  /\ Moves(s)
         /\ \A q \in Request : req'[s] = q => Serving(s, q)'
         /\ \A t \in Session \ {s} : Apart(s, t)'
<1>1. pc'[s] = "idle" /\ req'[s] = NoRequest /\ s \notin created'
  BY DEF TxnSound, SessionsTyped, Goto
<1>2. SessionsTyped'
  BY DEF TxnSound, SessionsTyped, Goto, Label
<1>3. \A t \in Session \ {s} : pc'[t] = pc[t] /\ req'[t] = req[t] /\ (t \in created' <=> t \in created)
  BY DEF TxnSound, SessionsTyped, Goto
<1>4. Moves(s)
  BY <1>2, <1>3 DEF TxnSound, Moves
<1>5. \A t \in Session \ {s} : Apart(s, t)'
  BY <1>1, ApartReleased
<1>6. QED
  BY <1>1, <1>4, <1>5, NoRequestIsNone

\* A transaction that ends without writes keeps the invariant.
LEMMA EndsQuietly ==
  ASSUME TxnSound, NEW s \in Session, Goto(s, "idle"), created' = created \ {s},
         req' = [req EXCEPT ![s] = NoRequest], UNCHANGED tables
  PROVE  TxnSound'
BY Released, SilentStep

\* An answer without writes keeps the invariant.
LEMMA AnswerKeeps ==
  ASSUME TxnSound, NEW s \in Session, NEW code, NEW b, NEW balance, Answer(s, code, b, balance),
         UNCHANGED tables
  PROVE  TxnSound'
<1>1. Goto(s, "idle") /\ created' = created \ {s} /\ req' = [req EXCEPT ![s] = NoRequest]
  BY DEF Answer
<1>2. QED
  BY <1>1, EndsQuietly

\* A failure ends the transaction and writes nothing.
LEMMA FailKeeps ==
  ASSUME TxnSound, NEW s \in Session, NEW code, Fail(s, code)
  PROVE  TxnSound'
<1>1. Answer(s, code, NoBet, 0) /\ UNCHANGED tables
  BY DEF Fail
<1>2. QED
  BY <1>1, AnswerKeeps

\* Going on within a transaction moves one session.
LEMMA Advances ==
  ASSUME TxnSound, NEW s \in Session, NEW label \in Label, Goto(s, label), req' = req,
         pc[s] # "idle", label # "idle",
         created' \in {created, created \cup {s}, created \ {s}},
         s \in created' => label \in {"fund", "check", "write"}
  PROVE  Moves(s) /\ pc'[s] = label /\ req'[s] = req[s]
<1>1. /\ pc'[s] = label /\ req'[s] = req[s]
      /\ \A t \in Session \ {s} : pc'[t] = pc[t] /\ req'[t] = req[t] /\ (t \in created' <=> t \in created)
  BY DEF TxnSound, SessionsTyped, Goto
<1>2. pc' \in [Session -> Label] /\ created' \subseteq Session
  BY DEF TxnSound, SessionsTyped, Goto
<1>3. \A t \in Session : pc'[t] = "idle" <=> req'[t] = NoRequest
  BY <1>1 DEF TxnSound, SessionsTyped
<1>4. \A t \in created' : pc'[t] \in {"fund", "check", "write"}
  BY <1>1, <1>2 DEF TxnSound, SessionsTyped
<1>5. SessionsTyped'
  BY <1>2, <1>3, <1>4 DEF TxnSound, SessionsTyped
<1>6. QED
  BY <1>1, <1>5 DEF TxnSound, Moves

\* IntegrityError lets go of the transaction and may go on to look for the record.
LEMMA IntegrityErrorKeeps ==
  ASSUME TxnSound, NEW s \in Session, pc[s] \in {"insert", "create"}, IntegrityError(s)
  PROVE  TxnSound'
<1>1. CASE Keyed(s) /\ Goto(s, "lookup") /\ created' = created \ {s}
           /\ UNCHANGED <<tables, req, calls, answers>>
  <2>1. Moves(s) /\ pc'[s] = "lookup" /\ req'[s] = req[s] /\ UNCHANGED tables /\ s \notin created'
    BY <1>1, Advances DEF Label
  <2>2. Serving(s, req[s]) /\ req[s] \in Request
    BY BusyServes
  <2>3. req[s].key # NoKey /\ req[s].op \in {"place", "settle", "view"}
    BY <1>1, <2>2, RequestForms DEF Keyed
  <2>4. \A q \in Request : req'[s] = q => Serving(s, q)'
    BY <2>1, <2>2, <2>3, TestsKept DEF Serving, Keeping
  <2>5. \A t \in Session \ {s} : Apart(s, t)'
    BY <2>1, ApartReleased
  <2>6. QED
    BY <2>1, <2>4, <2>5, SilentStep
<1>2. CASE ~Keyed(s) /\ Fail(s, "error")
  BY <1>2, FailKeeps
<1>3. QED
  BY <1>1, <1>2 DEF IntegrityError

\* A statement that takes no new lock and no key leaves the sessions apart.
LEMMA PlainStep ==
  ASSUME TxnSound, NEW s \in Session, NEW label \in Label, Goto(s, label), pc[s] # "idle",
         label # "idle", UNCHANGED <<tables, req, created>>,
         s \in created => label \in {"fund", "check", "write"},
         HasOwner(s)' => HasOwner(s), HasRow(s)' => HasRow(s), HasKey(s)' => HasKey(s),
         Serving(s, req[s])'
  PROVE  TxnSound'
<1>1. Moves(s) /\ pc'[s] = label /\ req'[s] = req[s]
  BY Advances
<1>2. \A t \in Session \ {s} : Apart(s, t)'
  BY <1>1, ApartKept
<1>3. \A q \in Request : req'[s] = q => Serving(s, q)'
  BY <1>1
<1>4. QED
  BY <1>1, <1>2, <1>3, SilentStep

\* The insert of the key row waits for every other session that holds it.
LEMMA InsertKeyKeeps ==
  ASSUME TxnSound, NEW s \in Session, InsertKey(s)
  PROVE  TxnSound'
<1> DEFINE q == req[s]
<1>1. q \in Request /\ Serving(s, q) /\ pc[s] = "insert" /\ s \notin created
  BY BusyServes DEF InsertKey, TxnSound, SessionsTyped
<1>2. CASE KeyFree(q.who, Endpoint(q), q.key) /\ Step(s, "share")
  <2>1. /\ Moves(s) /\ pc'[s] = "share" /\ req'[s] = q /\ UNCHANGED tables
        /\ s \notin created' /\ q.key # NoKey
    BY <1>1, <1>2, Advances DEF Step, Label, Serving
  <2>2. \A c \in Request : req'[s] = c => Serving(s, c)'
    BY <1>1, <1>2, <2>1, TestsKept DEF Serving, Keeping
  <2>3. ASSUME NEW t \in Session \ {s} PROVE Apart(s, t)'
    <3>1. ~HoldsKey(t, q)
      BY <1>1 DEF InsertKey, Blockers
    <3>2. HasKey(t)' => req'[t].who # q.who \/ Endpoint(req'[t]) # Endpoint(q) \/ req'[t].key # q.key
      BY <2>1, <3>1 DEF Moves, HasKey, HoldsKey, Keyed, Keeping
    <3>3. Endpoint(req[t])' = Endpoint(req'[t]) /\ Endpoint(req[s])' = Endpoint(q)
      BY <2>1 DEF Endpoint
    <3>4. QED
      BY <2>1, <3>2, <3>3 DEF Apart, HasOwner, HasRow
  <2>4. QED
    BY <2>1, <2>2, <2>3, SilentStep
<1>3. CASE ~KeyFree(q.who, Endpoint(q), q.key) /\ IntegrityError(s)
  BY <1>1, <1>3, IntegrityErrorKeeps
<1>4. QED
  BY <1>2, <1>3 DEF InsertKey

\* The owner's share is taken; the key stays held.
LEMMA ShareOwnerKeeps ==
  ASSUME TxnSound, NEW s \in Session, ShareOwner(s)
  PROVE  TxnSound'
<1>1. req[s] \in Request /\ Serving(s, req[s]) /\ pc[s] = "share" /\ s \notin created
  BY BusyServes DEF ShareOwner, TxnSound, SessionsTyped
<1>2. pc'[s] = "lock" /\ req' = req /\ UNCHANGED tables /\ created' = created /\ Goto(s, "lock")
  BY <1>1 DEF ShareOwner, Step, Goto, TxnSound, SessionsTyped
<1>3. Serving(s, req[s])'
  BY <1>1, <1>2, TestsKept DEF Serving, Keeping
<1>4. /\ HasOwner(s)' => HasOwner(s)
      /\ HasRow(s)' => HasRow(s)
      /\ HasKey(s)' => HasKey(s)
  BY <1>1, <1>2 DEF HasOwner, HasRow, HasKey, Keeping, Keyed
<1>5. QED
  BY <1>1, <1>2, <1>3, <1>4, PlainStep DEF Label

\* The lock of the owner row waits for every other session that has locked it.
LEMMA LockOwnerKeeps ==
  ASSUME TxnSound, NEW s \in Session, LockOwner(s)
  PROVE  TxnSound'
<1> DEFINE q == req[s]
           next == IF q.op = "approve" THEN "row" ELSE "load"
<1>1. q \in Request /\ Serving(s, q) /\ pc[s] = "lock" /\ s \notin created
  BY BusyServes DEF LockOwner, TxnSound, SessionsTyped
<1>2. /\ Moves(s) /\ pc'[s] = next /\ req'[s] = q /\ UNCHANGED tables /\ s \notin created'
  BY <1>1, Advances DEF LockOwner, Step, Label
<1>3. q.op \in {"place", "settle", "view", "approve"} /\ (q.op = "approve" => q.key = NoKey)
  BY <1>1, RequestForms DEF Serving
<1>4. \A c \in Request : req'[s] = c => Serving(s, c)'
  BY <1>1, <1>2, <1>3, TestsKept DEF Serving, Keeping
<1>5. ASSUME NEW t \in Session \ {s} PROVE Apart(s, t)'
  <2>1. ~LocksOwner(t, q.who) /\ Apart(s, t)
    BY <1>1 DEF LockOwner, Blockers, TxnSound
  <2>2. HasOwner(t)' => req'[t].who # q.who
    BY <1>2, <2>1 DEF Moves, HasOwner, LocksOwner
  <2>3. HasKey(s)' => HasKey(s)
    BY <1>1, <1>2 DEF HasKey, Keeping, Keyed
  <2>4. HasKey(t)' => HasKey(t)
    BY <1>2 DEF HasKey, Keyed, Moves
  <2>5. QED
    BY <1>2, <2>1, <2>2, <2>3, <2>4 DEF Apart, HasRow, Moves, Endpoint
<1>6. QED
  BY <1>2, <1>4, <1>5, SilentStep

\* The lock of the recommendation row waits for every other session that has locked it.
LEMMA LockRowKeeps ==
  ASSUME TxnSound, NEW s \in Session, LockRow(s)
  PROVE  TxnSound'
<1> DEFINE q == req[s]
<1>1. q \in Request /\ Serving(s, q) /\ pc[s] = "row" /\ s \notin created
  BY BusyServes DEF LockRow, TxnSound, SessionsTyped
<1>2. CASE Fail(s, "refused")
  BY <1>2, FailKeeps
<1>3. CASE holder[q.port] = q.who /\ Step(s, "check")
  <2>1. /\ Moves(s) /\ pc'[s] = "check" /\ req'[s] = q /\ UNCHANGED tables /\ s \notin created'
    BY <1>1, <1>3, Advances DEF Step, Label
  <2>2. q.op \in {"approve", "reject"} /\ q.key = NoKey
    BY <1>1, RequestForms DEF Serving
  <2>3. \A c \in Request : req'[s] = c => Serving(s, c)'
    BY <1>1, <1>3, <2>1, <2>2, TestsKept DEF Serving, Keeping
  <2>4. ASSUME NEW t \in Session \ {s} PROVE Apart(s, t)'
    <3>1. ~LocksRow(t, q.rec) /\ Apart(s, t)
      BY <1>1 DEF LockRow, Blockers, TxnSound
    <3>2. HasRow(t)' => req'[t].rec # q.rec
      BY <2>1, <3>1 DEF Moves, HasRow, LocksRow
    <3>3. HasOwner(s)' => HasOwner(s)
      BY <1>1, <2>1, <2>2 DEF HasOwner
    <3>4. (HasOwner(t)' => HasOwner(t)) /\ ~HasKey(s)'
      BY <2>1, <2>2 DEF HasKey, HasOwner, Keyed, Moves
    <3>5. QED
      BY <2>1, <3>1, <3>2, <3>3, <3>4 DEF Apart, Moves
  <2>5. QED
    BY <2>1, <2>3, <2>4, SilentStep
<1>4. QED
  BY <1>2, <1>3 DEF LockRow

\* The select of the portfolio decides between checking and creating it.
LEMMA LoadKeeps ==
  ASSUME TxnSound, NEW s \in Session, Load(s)
  PROVE  TxnSound'
<1> DEFINE q == req[s]
<1>1. q \in Request /\ Serving(s, q) /\ pc[s] = "load" /\ s \notin created
  BY BusyServes DEF Load, TxnSound, SessionsTyped
<1>2. CASE Fail(s, "refused")
  BY <1>2, FailKeeps
<1>3. ASSUME NEW label \in {"check", "create"}, Step(s, label),
             label = "check" => holder[q.port] = q.who
      PROVE  TxnSound'
  <2>1. pc'[s] = label /\ req' = req /\ UNCHANGED tables /\ created' = created /\ Goto(s, label)
    BY <1>1, <1>3 DEF Step, Goto, TxnSound, SessionsTyped
  <2>2. q.op \in {"place", "settle", "view", "snapshot"}
    BY <1>1, RequestForms DEF Serving
  <2>3. Serving(s, req[s])'
    BY <1>1, <1>3, <2>1, <2>2, TestsKept DEF Serving, Keeping
  <2>4. /\ HasOwner(s)' => HasOwner(s)
        /\ HasRow(s)' => HasRow(s)
        /\ HasKey(s)' => HasKey(s)
    BY <1>1, <1>3, <2>1, <2>2 DEF HasOwner, HasRow, HasKey, Keeping, Keyed
  <2>5. QED
    BY <1>1, <1>3, <2>1, <2>3, <2>4, PlainStep DEF Label
<1>4. QED
  BY <1>2, <1>3 DEF Load

\* The insert of the portfolio waits for every other session that inserted it.
LEMMA CreateKeeps ==
  ASSUME TxnSound, NEW s \in Session, Create(s)
  PROVE  TxnSound'
<1> DEFINE q == req[s]
<1>1. q \in Request /\ Serving(s, q) /\ pc[s] = "create" /\ s \notin created
  BY BusyServes DEF Create, TxnSound, SessionsTyped
<1>2. CASE IntegrityError(s)
  BY <1>1, <1>2, IntegrityErrorKeeps
<1>3. CASE /\ holder[q.port] = NoOne /\ created' = created \cup {s} /\ Goto(s, "fund")
           /\ UNCHANGED <<tables, req, calls, answers>>
  <2>1. Moves(s) /\ pc'[s] = "fund" /\ req'[s] = q /\ UNCHANGED tables /\ s \in created'
    BY <1>1, <1>3, Advances DEF Label
  <2>2. q.op \in {"place", "settle", "view", "snapshot"}
    BY <1>1, RequestForms DEF Serving
  <2>3. \A c \in Request : req'[s] = c => Serving(s, c)'
    BY <1>1, <1>3, <2>1, <2>2, TestsKept DEF Serving, Keeping
  <2>4. ASSUME NEW t \in Session \ {s} PROVE Apart(s, t)'
    <3>1. (t \in created => req[t].port # q.port) /\ Apart(s, t)
      BY <1>1 DEF Create, Blockers, TxnSound
    <3>2. (HasOwner(s)' => HasOwner(s)) /\ (HasOwner(t)' => HasOwner(t)) /\ ~HasRow(s)'
      BY <1>1, <2>1, <2>2 DEF HasOwner, HasRow, Moves
    <3>3. (HasKey(s)' => HasKey(s)) /\ (HasKey(t)' => HasKey(t))
      BY <1>1, <2>1 DEF HasKey, Keeping, Keyed, Moves
    <3>4. QED
      BY <2>1, <3>1, <3>2, <3>3 DEF Apart, Moves, Endpoint
  <2>5. QED
    BY <2>1, <2>3, <2>4, SilentStep
<1>4. QED
  BY <1>2, <1>3 DEF Create

\* The foreign key of the new portfolio is the last thing a creation waits for.
LEMMA FundKeeps ==
  ASSUME TxnSound, NEW s \in Session, Fund(s)
  PROVE  TxnSound'
<1>1. req[s] \in Request /\ Serving(s, req[s]) /\ pc[s] = "fund" /\ s \in created
  BY BusyServes DEF Fund, Serving
<1>2. pc'[s] = "check" /\ req' = req /\ UNCHANGED tables /\ created' = created /\ Goto(s, "check")
  BY <1>1 DEF Fund, Step, Goto, TxnSound, SessionsTyped
<1>3. req[s].op \notin {"approve", "reject"}
  BY <1>1 DEF Serving
<1>4. Serving(s, req[s])'
  BY <1>1, <1>2, <1>3, TestsKept DEF Serving, Keeping
<1>5. /\ HasOwner(s)' => HasOwner(s)
      /\ HasRow(s)' => HasRow(s)
      /\ HasKey(s)' => HasKey(s)
  BY <1>1, <1>2, <1>3 DEF HasOwner, HasRow, HasKey, Keeping, Keyed
<1>6. QED
  BY <1>1, <1>2, <1>4, <1>5, PlainStep DEF Label

\* The tests of an operation hold when it goes on to write.
LEMMA CheckKeeps ==
  ASSUME TxnSound, NEW s \in Session, Check(s)
  PROVE  TxnSound'
<1>1. req[s] \in Request /\ Serving(s, req[s]) /\ pc[s] = "check"
  BY BusyServes DEF Check
<1>2. CASE \E b, balance : Answer(s, "ok", b, balance) /\ UNCHANGED tables
  BY <1>2, AnswerKeeps
<1>3. CASE Acceptable(req[s]) /\ Step(s, "write")
  <2>1. pc'[s] = "write" /\ req' = req /\ UNCHANGED tables /\ created' = created /\ Goto(s, "write")
    BY <1>1, <1>3 DEF Step, Goto, TxnSound, SessionsTyped
  <2>2. Acceptable(req[s])'
    BY <1>3, <2>1, TestsKept DEF Acceptable, tables, OpeningCash
  <2>3. Serving(s, req[s])'
    BY <1>1, <2>1, <2>2, TestsKept DEF Serving, Keeping
  <2>4. /\ HasOwner(s)' => HasOwner(s)
        /\ HasRow(s)' => HasRow(s)
        /\ HasKey(s)' => HasKey(s)
    BY <1>1, <2>1 DEF HasOwner, HasRow, HasKey, Keeping, Keyed
  <2>5. QED
    BY <1>1, <2>1, <2>3, <2>4, PlainStep DEF Label
<1>4. CASE Fail(s, "refused")
  BY <1>4, FailKeeps
<1>5. QED
  BY <1>2, <1>3, <1>4 DEF Check

\* The look for the record ends the call.
LEMMA LookupKeeps ==
  ASSUME TxnSound, NEW s \in Session, Lookup(s)
  PROVE  TxnSound'
<1>1. \/ \E code : Fail(s, code)
      \/ \E b, balance : Answer(s, "ok", b, balance) /\ UNCHANGED tables
  BY DEF Lookup
<1>2. QED
  BY <1>1, FailKeeps, AnswerKeeps

\* A lost connection releases what its session held.
LEMMA CrashKeeps ==
  ASSUME TxnSound, NEW s \in Session, Crash(s)
  PROVE  TxnSound'
BY EndsQuietly DEF Crash

\* A new call holds nothing yet.
LEMMA SendKeeps ==
  ASSUME TxnSound, NEW s \in Session, NEW q \in Request, Send(s, q)
  PROVE  TxnSound'
<1> DEFINE first == FirstStatement(q)
<1>1. pc[s] = "idle" /\ s \notin created
  BY DEF Send, TxnSound, SessionsTyped
<1>2. /\ q.op \in {"place", "settle", "view"} => first = "owner"
      /\ q.op = "snapshot" => first = "load"
      /\ q.op = "approve" => first = "lock"
      /\ q.op = "reject" => first = "row"
      /\ q.op \in {"place", "settle", "view", "snapshot", "approve", "reject"}
      /\ q.op \notin {"place", "settle"} => q.key = NoKey
  BY RequestForms DEF FirstStatement
<1>3. first \in Label \ {"idle"} /\ q # NoRequest
  BY <1>2, NoRequestIsNone DEF Label
<1> HIDE DEF first
<1>4. /\ pc' = [pc EXCEPT ![s] = first] /\ req' = [req EXCEPT ![s] = q] /\ created' = created
      /\ UNCHANGED tables
  BY DEF Send, Goto, first
<1>5. SessionsTyped'
  BY <1>1, <1>3, <1>4 DEF TxnSound, SessionsTyped
<1>6. Moves(s) /\ pc'[s] = first /\ req'[s] = q /\ s \notin created'
  BY <1>1, <1>4, <1>5 DEF TxnSound, SessionsTyped, Moves
<1>7. \A c \in Request : req'[s] = c => Serving(s, c)'
  BY <1>2, <1>6 DEF Serving, Keeping
<1>8. \A t \in Session \ {s} : Apart(s, t)'
  BY <1>2, <1>6 DEF Apart, HasOwner, HasRow, HasKey, Keyed, Keeping
<1>9. QED
  BY <1>4, <1>6, <1>7, <1>8, SilentStep

------------------------------------------------------------------------------
(* The statements that write *)

\* What a commit of session s does to what other sessions have tested.
Writes(s) ==
    /\ owners \subseteq owners'
    /\ \A p \in Portfolio \ {req[s].port} : MoneyKept(p)
    /\ s \notin created => holder' = holder
    /\ req[s].op \in {"view", "snapshot", "reject"} /\ s \notin created => MoneyKept(req[s].port)
    /\ \A r \in Rec : recs[r] = "proposed" /\ recs'[r] # "proposed" =>
          req[s].op \in {"approve", "reject"} /\ r = req[s].rec
    /\ \A i \in idem' \ idem :
          /\ req[s].key # NoKey
          /\ i.owner = req[s].who /\ i.endpoint = Endpoint(req[s]) /\ i.key = req[s].key

\* A session that may write has its portfolio, its owner, and its key free.
LEMMA ReadyToWrite ==
  ASSUME TypeOK, TxnSound, NEW s \in Session, pc[s] = "write"
  PROVE  /\ req[s] \in Request /\ Acceptable(req[s])
         /\ holder[req[s].port] = IF s \in created THEN NoOne ELSE req[s].who
         /\ s \in created => req[s].op \notin {"approve", "reject"}
         /\ req[s].op \in {"place", "settle", "view"} => req[s].who \in owners
         /\ KeyFree(req[s].who, Endpoint(req[s]), req[s].key)
<1>1. req[s] \in Request /\ Serving(s, req[s])
  BY BusyServes
<1>2. req[s].key = NoKey => KeyFree(req[s].who, Endpoint(req[s]), req[s].key)
  BY SentinelAssumption DEF KeyFree, TypeOK, IdemRow
<1>3. QED
  BY <1>1, <1>2 DEF Serving, Keeping

\* Nothing else of a session at its last statement can be disturbed by a commit.
LEMMA OthersServeWrites ==
  ASSUME TypeOK, OrderSound, TxnSound, NEW s \in Session, Moves(s), pc[s] = "write", Writes(s),
         NEW t \in Session, t # s, NEW q \in Request, req'[t] = q
  PROVE  Serving(t, q)'
<1> DEFINE c == req[s]
<1>1. /\ Serving(t, q) /\ req[t] = q /\ Apart(s, t)
      /\ pc'[t] = pc[t] /\ (t \in created' <=> t \in created)
  BY DEF TxnSound, Moves
<1>2. /\ c \in Request /\ holder[c.port] = (IF s \in created THEN NoOne ELSE c.who)
      /\ s \in created => c.op \notin {"approve", "reject"}
  BY ReadyToWrite
<1>3. q.port \in Portfolio /\ q.who \in Principal /\ c.who \in Principal /\ q.who # NoOne /\ c.who # NoOne
  BY <1>2, RequestForms, SentinelAssumption
<1>4. q.port # c.port => holder'[q.port] = holder[q.port] /\ MoneyKept(q.port)
  BY <1>3 DEF Writes, MoneyKept
<1>5. t \in created => holder'[q.port] = NoOne
  <2>1. CASE q.port # c.port
    BY <1>1, <1>4, <2>1 DEF Serving
  <2>2. CASE q.port = c.port
    BY <1>1, <1>2, <1>3, <2>2 DEF Serving, Apart, Writes
  <2>3. QED
    BY <2>1, <2>2
<1>6. pc[t] \in {"check", "write"} /\ t \notin created => holder'[q.port] = q.who
  <2>1. CASE q.port # c.port
    BY <1>1, <1>4, <2>1 DEF Serving
  <2>2. CASE q.port = c.port
    BY <1>1, <1>2, <1>3, <2>2 DEF Serving, Writes
  <2>3. QED
    BY <2>1, <2>2
<1>7. pc[t] \in Keeping /\ q.key # NoKey => KeyFree(q.who, Endpoint(q), q.key)'
  <2> SUFFICES ASSUME pc[t] \in Keeping, q.key # NoKey,
                      NEW i \in idem', i.owner = q.who, i.endpoint = Endpoint(q), i.key = q.key
               PROVE  FALSE
    BY DEF KeyFree, Endpoint
  <2>1. i \notin idem
    BY <1>1 DEF Serving, KeyFree
  <2>2. c.key # NoKey /\ i.owner = c.who /\ i.endpoint = Endpoint(c) /\ i.key = c.key
    BY <2>1 DEF Writes
  <2>3. HasKey(s) /\ HasKey(t)
    BY <1>1, <2>2 DEF HasKey, Keyed, Keeping
  <2>4. QED
    BY <1>1, <2>2, <2>3 DEF Apart
<1>8. pc[t] = "write" => Acceptable(q)'
  <2> SUFFICES ASSUME pc[t] = "write" PROVE Acceptable(q)'
    OBVIOUS
  <2>1. Acceptable(q)
    BY <1>1 DEF Serving
  <2>2. q.op \in {"place", "settle", "approve"} => MoneyKept(q.port)
    <3> SUFFICES ASSUME q.op \in {"place", "settle", "approve"}, q.port = c.port PROVE MoneyKept(c.port)
      BY <1>4
    <3>1. HasOwner(t)
      BY <1>1 DEF HasOwner
    <3>2. s \notin created /\ t \notin created /\ c.who = q.who
      BY <1>1, <1>2, <1>3 DEF Serving, Apart
    <3>3. ~HasOwner(s)
      BY <1>1, <3>1, <3>2 DEF Apart
    <3>4. c.op \in {"view", "snapshot", "reject"}
      BY <1>2, <3>3, RequestForms DEF HasOwner
    <3>5. QED
      BY <3>2, <3>4 DEF Writes
  <2>3. q.op \in {"approve", "reject"} /\ recs[q.rec] = "proposed" => recs'[q.rec] = "proposed"
    <3> SUFFICES ASSUME q.op \in {"approve", "reject"}, recs[q.rec] = "proposed",
                        recs'[q.rec] # "proposed"
                 PROVE  FALSE
      OBVIOUS
    <3>1. c.op \in {"approve", "reject"} /\ q.rec = c.rec
      BY RequestForms DEF Writes
    <3>2. HasRow(s) /\ HasRow(t)
      BY <1>1, <3>1 DEF HasRow
    <3>3. QED
      BY <1>1, <3>1, <3>2 DEF Apart
  <2>4. QED
    BY <2>1, <2>2, <2>3, AcceptableKept
<1>9. q.who \in owners => q.who \in owners'
  BY DEF Writes
<1>10. QED
  BY <1>1, <1>5, <1>6, <1>7, <1>8, <1>9 DEF Serving

\* A commit keeps the invariant of the sessions.
LEMMA CommitKeeps ==
  ASSUME TypeOK, OrderSound, TxnSound, NEW s \in Session, pc[s] = "write", Writes(s),
         Goto(s, "idle"), created' = created \ {s}, req' = [req EXCEPT ![s] = NoRequest]
  PROVE  TxnSound'
<1>1. Moves(s) /\ \A t \in Session \ {s} : Apart(s, t)'
  BY Released
<1>2. \A q \in Request : req'[s] = q => Serving(s, q)'
  BY Released
<1>3. \A t, u \in Session : t # u => Apart(t, u)'
  BY <1>1, ApartStep
<1>4. \A t \in Session \ {s}, q \in Request : req'[t] = q => Serving(t, q)'
  BY <1>1, OthersServeWrites
<1>5. QED
  BY <1>1, <1>2, <1>3, <1>4 DEF TxnSound, Moves

\* A new bet is nothing to the other portfolios.
LEMMA NewBetElsewhere ==
  ASSUME TypeOK, NEW p \in Portfolio, NEW b, NEW row, NewBet(p, b, row), NEW other \in Portfolio \ {p}
  PROVE  MoneyKept(other)
BY DEF NewBet, MoneyKept, TypeOK

\* Nor is a settlement.
LEMMA SettlementElsewhere ==
  ASSUME TypeOK, NEW p \in Portfolio, NEW b \in BetId, NEW payout, Settlement(p, b, payout),
         NEW other \in Portfolio \ {p}
  PROVE  MoneyKept(other)
<1>1. /\ b \in DOMAIN bets /\ bets[b].port = p /\ bets[b].status = "open"
      /\ DOMAIN bets' = DOMAIN bets /\ bets'[b].port = p
      /\ \A c \in DOMAIN bets \ {b} : bets'[c] = bets[c]
  BY DEF Settlement, TypeOK, BetRow
<1>2. holder' = holder /\ cash'[other] = cash[other] /\ settled'[other] = settled[other]
  BY DEF Settlement, TypeOK
<1>3. QED
  BY <1>1, <1>2 DEF MoneyKept

\* The idempotency record of a commit is under the key of its request.
LEMMA RecordUnderKey ==
  ASSUME NEW who, NEW endpoint, NEW key, NEW body, NEW response,
         NEW i \in IdemRecord(who, endpoint, key, body, response)
  PROVE  key # NoKey /\ i.owner = who /\ i.endpoint = endpoint /\ i.key = key
         /\ i.request = body /\ i.response = response
BY DEF IdemRecord

\* Placing and committing is one POST /bets of the ledger.
LEMMA PlaceCommits ==
  ASSUME TablesSound, TxnSound, NEW s \in Session, NEW b \in BetId, WritePlace(s, b)
  PROVE  Next /\ TxnSound'
<1> DEFINE q == req[s]
<1>1. /\ pc[s] = "write" /\ q.op = "place" /\ q \in Request /\ TypeOK /\ OrderSound
      /\ Acceptable(q) /\ q.who \in owners /\ KeyFree(q.who, "/bets", q.key)
      /\ holder[q.port] = (IF s \in created THEN NoOne ELSE q.who)
  BY ReadyToWrite DEF WritePlace, TablesSound, Endpoint
<1>2. /\ q.who \in Principal /\ q.port \in Portfolio /\ q.key \in Key \cup {NoKey}
      /\ q.body.order \in Order /\ q.body = [port |-> q.port, order |-> q.body.order]
  BY <1>1, RequestForms
<1>3. PlaceBet(q.who, q.port, b, q.body.order, q.key)
  BY <1>1, <1>2 DEF WritePlace, PlaceBet, Acceptable, Accessible
<1>4. \E row \in BetRow : NewBet(q.port, b, row)
  BY <1>1, <1>2, <1>3, PlaceIsNewBet
<1>5. \A p \in Portfolio \ {q.port} : MoneyKept(p)
  BY <1>1, <1>2, <1>4, NewBetElsewhere
<1>6. s \notin created => holder' = holder
  BY <1>1, <1>2 DEF WritePlace, RecordBet, TypeOK
<1>7. \A i \in idem' \ idem :
        q.key # NoKey /\ i.owner = q.who /\ i.endpoint = Endpoint(q) /\ i.key = q.key
  BY <1>1, RecordUnderKey DEF WritePlace, Endpoint
<1>8. Writes(s)
  BY <1>1, <1>5, <1>6, <1>7 DEF Writes, WritePlace
<1>9. Goto(s, "idle") /\ created' = created \ {s} /\ req' = [req EXCEPT ![s] = NoRequest]
  BY DEF WritePlace, Commit, Answer
<1>10. QED
  BY <1>1, <1>2, <1>3, <1>8, <1>9, CommitKeeps DEF Next

\* Settling and committing is one POST /bet-result of the ledger.
LEMMA SettleCommits ==
  ASSUME TablesSound, TxnSound, NEW s \in Session, WriteSettle(s)
  PROVE  Next /\ TxnSound'
<1> DEFINE q == req[s]
           b == q.body.bet
<1>1. /\ pc[s] = "write" /\ q.op = "settle" /\ q \in Request /\ TypeOK /\ OrderSound /\ BetsKnown
      /\ Acceptable(q) /\ KeyFree(q.who, "/bet-result", q.key)
      /\ holder[q.port] = (IF s \in created THEN NoOne ELSE q.who)
  BY ReadyToWrite DEF WriteSettle, TablesSound, Endpoint
<1>2. /\ q.who \in Principal /\ q.port \in Portfolio /\ q.key \in Key \cup {NoKey}
      /\ b \in BetId /\ q.body.result \in {"win", "loss", "push"} /\ q.body.payout \in Payout
      /\ q.body = [port |-> q.port, bet |-> b, result |-> q.body.result, payout |-> q.body.payout]
  BY <1>1, RequestForms
<1>3. /\ b \in DOMAIN bets /\ bets[b].port = q.port /\ bets[b].status = "open"
      /\ AcceptedPayout(q.body.result, q.body.payout, bets[b].stake)
  BY <1>1 DEF Acceptable
<1>4. holder[q.port] = q.who
  BY <1>1, <1>3 DEF BetsKnown
<1>5. SettleBet(q.who, q.port, b, q.body.result, q.body.payout, q.key)
  BY <1>1, <1>2, <1>3, <1>4 DEF WriteSettle, SettleBet
<1>6. Settlement(q.port, b, q.body.payout)
  BY <1>1, <1>2, <1>5, SettleIsSettlement
<1>7. \A p \in Portfolio \ {q.port} : MoneyKept(p)
  BY <1>1, <1>2, <1>6, SettlementElsewhere
<1>8. \A i \in idem' \ idem :
        q.key # NoKey /\ i.owner = q.who /\ i.endpoint = Endpoint(q) /\ i.key = q.key
  BY <1>1, RecordUnderKey DEF WriteSettle, Endpoint
<1>9. Writes(s)
  BY <1>1, <1>7, <1>8 DEF Writes, WriteSettle
<1>10. Goto(s, "idle") /\ created' = created \ {s} /\ req' = [req EXCEPT ![s] = NoRequest]
  BY DEF WriteSettle, Commit, Answer
<1>11. QED
  BY <1>1, <1>2, <1>5, <1>9, <1>10, CommitKeeps DEF Next

\* Approving and committing is one approval of the ledger.
LEMMA ApproveCommits ==
  ASSUME TablesSound, TxnSound, NEW s \in Session, NEW b \in BetId, WriteApprove(s, b)
  PROVE  Next /\ TxnSound'
<1> DEFINE q == req[s]
           r == q.rec
<1>1. /\ pc[s] = "write" /\ q.op = "approve" /\ q \in Request /\ TypeOK /\ OrderSound
      /\ Acceptable(q) /\ holder[q.port] = q.who
  BY ReadyToWrite DEF WriteApprove, TablesSound
<1>2. q.who \in Principal /\ r \in Rec /\ q.port = Row[r].port /\ q.port \in Portfolio
  BY <1>1, RequestForms
<1>3. Approve(q.who, r, b)
  BY <1>1, <1>2 DEF WriteApprove, Approve, Acceptable
<1>4. \E row \in BetRow : NewBet(q.port, b, row)
  BY <1>1, <1>2, <1>3, ApproveIsNewBet
<1>5. \A p \in Portfolio \ {q.port} : MoneyKept(p)
  BY <1>1, <1>2, <1>4, NewBetElsewhere
<1>6. s \notin created => holder' = holder
  BY <1>1, <1>2 DEF WriteApprove, RecordBet, TypeOK
<1>7. \A other \in Rec : recs[other] = "proposed" /\ recs'[other] # "proposed" => other = r
  BY <1>1, <1>2 DEF WriteApprove, TypeOK
<1>8. Writes(s)
  BY <1>1, <1>5, <1>6, <1>7 DEF Writes, WriteApprove
<1>9. Goto(s, "idle") /\ created' = created \ {s} /\ req' = [req EXCEPT ![s] = NoRequest]
  BY DEF WriteApprove, Commit, Answer
<1>10. QED
  BY <1>1, <1>2, <1>3, <1>8, <1>9, CommitKeeps DEF Next

\* Rejecting and committing is one rejection of the ledger.
LEMMA RejectCommits ==
  ASSUME TablesSound, TxnSound, NEW s \in Session, WriteReject(s)
  PROVE  Next /\ TxnSound'
<1> DEFINE q == req[s]
           r == q.rec
<1>1. /\ pc[s] = "write" /\ q.op = "reject" /\ q \in Request /\ TypeOK /\ OrderSound
      /\ Acceptable(q) /\ holder[q.port] = q.who
  BY ReadyToWrite DEF WriteReject, TablesSound
<1>2. q.who \in Principal /\ r \in Rec /\ q.port = Row[r].port
  BY <1>1, RequestForms
<1>3. Reject(q.who, r)
  BY <1>1, <1>2 DEF WriteReject, Reject, Acceptable
<1>4. \A p \in Portfolio : MoneyKept(p)
  BY DEF WriteReject, MoneyKept
<1>5. \A other \in Rec : recs[other] = "proposed" /\ recs'[other] # "proposed" => other = r
  BY <1>1, <1>2 DEF WriteReject, TypeOK
<1>6. Writes(s)
  BY <1>1, <1>2, <1>4, <1>5, RequestForms DEF Writes, WriteReject
<1>7. Goto(s, "idle") /\ created' = created \ {s} /\ req' = [req EXCEPT ![s] = NoRequest]
  BY DEF WriteReject, Answer
<1>8. QED
  BY <1>1, <1>2, <1>3, <1>6, <1>7, CommitKeeps DEF Next

\* A view commits the portfolio it created, or nothing.
LEMMA ViewCommits ==
  ASSUME TablesSound, TxnSound, NEW s \in Session, WriteView(s)
  PROVE  [Next]_vars /\ TxnSound'
<1> DEFINE q == req[s]
           p == q.port
<1>1. /\ pc[s] = "write" /\ q.op \in {"view", "snapshot"} /\ q \in Request /\ TypeOK /\ OrderSound
      /\ holder[p] = (IF s \in created THEN NoOne ELSE q.who)
  BY ReadyToWrite DEF WriteView, TablesSound
<1>2. q.who \in Principal /\ p \in Portfolio
  BY <1>1, RequestForms
<1>3. Goto(s, "idle") /\ created' = created \ {s} /\ req' = [req EXCEPT ![s] = NoRequest]
  BY DEF WriteView, Commit, Answer
<1>4. CASE s \in created
  <2>1. OpenPortfolio(q.who, p)
    BY <1>1, <1>4 DEF WriteView, OpenPortfolio, OpeningEntry
  <2>2. \A other \in Portfolio \ {p} : MoneyKept(other)
    BY <1>1, <2>1 DEF OpenPortfolio, MoneyKept, TypeOK
  <2>3. Writes(s)
    BY <1>1, <1>4, <2>1, <2>2 DEF Writes, OpenPortfolio
  <2>4. QED
    BY <1>1, <1>2, <1>3, <2>1, <2>3, CommitKeeps DEF Next
<1>5. CASE s \notin created
  <2>1. UNCHANGED tables
    BY <1>5 DEF WriteView, tables
  <2>2. TxnSound'
    BY <1>3, <2>1, EndsQuietly
  <2>3. QED
    BY <2>1, <2>2 DEF tables, vars
<1>6. QED
  BY <1>4, <1>5

\* ensure_owner commits the owner row, or nothing.
LEMMA OwnerKeeps ==
  ASSUME TablesSound, TxnSound, NEW s \in Session, Owner(s)
  PROVE  [Next]_vars /\ TxnSound'
<1> DEFINE q == req[s]
           next == IF Keyed(s) THEN "insert" ELSE "lock"
<1>1. q \in Request /\ Serving(s, q) /\ pc[s] = "owner" /\ s \notin created
  BY BusyServes DEF Owner, TxnSound, SessionsTyped
<1>2. /\ owners' = owners \cup {q.who} /\ q.who \in Principal
      /\ UNCHANGED <<holder, bets, settled, ledger, cash, recs, idem>>
  BY <1>1, RequestForms DEF Owner
<1>3. [Next]_vars
  BY <1>2 DEF Next, EnsureOwner, vars
<1>4. /\ Moves(s) /\ pc'[s] = next /\ req'[s] = q /\ req' = req /\ s \notin created'
  BY <1>1, Advances DEF Owner, Label
<1>5. \A c \in Request : /\ Acceptable(c)' <=> Acceptable(c)
                         /\ KeyFree(c.who, Endpoint(c), c.key)' <=> KeyFree(c.who, Endpoint(c), c.key)
  BY <1>2 DEF Acceptable, OpeningCash, KeyFree
<1>6. ASSUME NEW c \in Request, req'[s] = c PROVE Serving(s, c)'
  <2>1. c.key # NoKey \/ next = "lock"
    BY <1>4, <1>6 DEF Keyed
  <2>2. c.op \in {"place", "settle", "view"}
    BY <1>1, <1>4, <1>6, RequestForms DEF Serving
  <2>3. c.key # NoKey /\ next = "lock" => FALSE
    BY <1>4, <1>6 DEF Keyed
  <2>4. c.who \in owners'
    BY <1>2, <1>4, <1>6
  <2>5. QED
    BY <1>1, <1>4, <2>1, <2>2, <2>3, <2>4 DEF Serving, Keeping
<1>7. ASSUME NEW t \in Session \ {s}, NEW c \in Request, req'[t] = c PROVE Serving(t, c)'
  <2>1. Serving(t, c) /\ pc'[t] = pc[t] /\ (t \in created' <=> t \in created)
    BY <1>4, <1>7 DEF TxnSound, Moves
  <2>2. QED
    BY <1>2, <1>5, <2>1 DEF Serving
<1>8. \A t \in Session \ {s} : Apart(s, t)'
  <2>1. /\ HasOwner(s)' => HasOwner(s)
        /\ HasRow(s)' => HasRow(s)
        /\ HasKey(s)' => HasKey(s)
    BY <1>1, <1>4, RequestForms DEF HasOwner, HasRow, HasKey, Keeping, Keyed, Serving
  <2>2. QED
    BY <1>1, <1>4, <2>1, ApartKept
<1>9. QED
  BY <1>3, <1>4, <1>6, <1>7, <1>8, ApartStep DEF TxnSound, Moves

\* A decision only proposes what was absent: no session has tested anything it changes.
LEMMA DecideKeeps ==
  ASSUME TablesSound, TxnSound, NEW who \in Principal, NEW rs \in SUBSET Rec, Decide(who, rs)
  PROVE  Next /\ TxnSound'
<1>1. /\ PersistDecision(who, rs) /\ UNCHANGED <<pc, req, created>>
      /\ UNCHANGED <<owners, holder, bets, settled, ledger, cash, idem>>
      /\ \A r \in Rec : recs[r] = "proposed" => recs'[r] = "proposed"
      /\ TypeOK /\ OrderSound
  BY DEF Decide, PersistDecision, txnVars, TablesSound
<1>2. \A p \in Portfolio : MoneyKept(p)
  BY <1>1 DEF MoneyKept
<1>3. \A q \in Request : Acceptable(q) => Acceptable(q)'
  BY <1>1, <1>2, AcceptableKept, RequestForms
<1>4. \A q \in Request :
         KeyFree(q.who, Endpoint(q), q.key)' <=> KeyFree(q.who, Endpoint(q), q.key)
  BY <1>1 DEF KeyFree
<1>5. ASSUME NEW s \in Session, NEW q \in Request, req'[s] = q PROVE Serving(s, q)'
  <2>1. Serving(s, q)
    BY <1>1, <1>5 DEF TxnSound
  <2>2. QED
    BY <1>1, <1>3, <1>4, <2>1 DEF Serving
<1>6. \A s, t \in Session : s # t => Apart(s, t)'
  BY <1>1 DEF TxnSound, Apart, HasOwner, HasRow, HasKey, Keyed, Endpoint
<1>7. SessionsTyped'
  BY <1>1 DEF TxnSound, SessionsTyped
<1>8. QED
  BY <1>1, <1>5, <1>6, <1>7 DEF TxnSound, Next

------------------------------------------------------------------------------
(* The sessions implement the ledger *)

\* What the theorems below keep.
SessionsSound == TablesSound /\ TxnSound

\* Statements that write nothing are no step of the ledger.
LEMMA TablesKept == UNCHANGED tables => UNCHANGED vars
BY DEF tables, vars

\* Nothing runs and nothing is stored at first.
LEMMA SessionsSoundInit == TxnInit => SessionsSound
<1> SUFFICES ASSUME TxnInit PROVE SessionsSound
  OBVIOUS
<1>1. TypeOK /\ BetsKnown /\ OrderSound
  <2>1. Init => TypeOK
    BY DEF Init, TypeOK
  <2>2. QED
    BY <2>1, BetsKnownInit, OrderSoundInit DEF TxnInit
<1>2. SessionsTyped
  BY DEF TxnInit, SessionsTyped, Label
<1>3. \A s \in Session, q \in Request : req[s] = q => Serving(s, q)
  BY NoRequestIsNone DEF TxnInit
<1>4. \A s, t \in Session : s # t => Apart(s, t)
  BY DEF TxnInit, Apart, HasOwner, HasRow, HasKey, Keeping
<1>5. QED
  BY <1>1, <1>2, <1>3, <1>4 DEF SessionsSound, TablesSound, TxnSound

\* Every statement of a session is a step of the ledger or none, and keeps the invariant.
LEMMA WorkKeeps ==
  ASSUME TablesSound, TxnSound, NEW s \in Session, Work(s)
  PROVE  [Next]_vars /\ TxnSound'
<1>1. CASE Owner(s)
  BY <1>1, OwnerKeeps
<1>2. CASE InsertKey(s)
  BY <1>2, InsertKeyKeeps, TablesKept DEF InsertKey, Step, IntegrityError, Fail
<1>3. CASE ShareOwner(s)
  BY <1>3, ShareOwnerKeeps, TablesKept DEF ShareOwner, Step
<1>4. CASE LockOwner(s)
  BY <1>4, LockOwnerKeeps, TablesKept DEF LockOwner, Step
<1>5. CASE LockRow(s)
  BY <1>5, LockRowKeeps, TablesKept DEF LockRow, Step, Fail
<1>6. CASE Load(s)
  BY <1>6, LoadKeeps, TablesKept DEF Load, Step, Fail
<1>7. CASE Create(s)
  BY <1>7, CreateKeeps, TablesKept DEF Create, IntegrityError, Fail
<1>8. CASE Fund(s)
  BY <1>8, FundKeeps, TablesKept DEF Fund, Step
<1>9. CASE Check(s)
  BY <1>9, CheckKeeps, TablesKept DEF Check, Step, Fail
<1>10. CASE \E b \in BetId : WritePlace(s, b)
  BY <1>10, PlaceCommits
<1>11. CASE \E b \in BetId : WriteApprove(s, b)
  BY <1>11, ApproveCommits
<1>12. CASE WriteSettle(s) \/ WriteReject(s) \/ WriteView(s)
  BY <1>12, SettleCommits, RejectCommits, ViewCommits
<1>13. CASE Lookup(s)
  BY <1>13, LookupKeeps, TablesKept DEF Lookup
<1>14. CASE DeadlockAbort(s)
  BY <1>14, FailKeeps, TablesKept DEF DeadlockAbort, Fail
<1>15. QED
  BY <1>1, <1>2, <1>3, <1>4, <1>5, <1>6, <1>7, <1>8, <1>9, <1>10, <1>11, <1>12, <1>13, <1>14 DEF Work

\* So is every step of the system.
LEMMA SessionsStep == SessionsSound /\ [TxnNext]_allVars => [Next]_vars /\ SessionsSound'
<1> SUFFICES ASSUME TablesSound, TxnSound, [TxnNext]_allVars PROVE [Next]_vars /\ SessionsSound'
  BY DEF SessionsSound
<1>1. [Next]_vars /\ TxnSound'
  <2>1. CASE \E s \in Session : Work(s)
    BY <2>1, WorkKeeps
  <2>2. CASE \E s \in Session : Crash(s)
    BY <2>2, CrashKeeps, TablesKept DEF Crash
  <2>3. CASE \E s \in Session, q \in Request : Send(s, q)
    BY <2>3, SendKeeps, TablesKept DEF Send
  <2>4. CASE \E who \in Principal, rs \in SUBSET Rec : Decide(who, rs)
    BY <2>4, DecideKeeps
  <2>5. CASE UNCHANGED allVars
    <3>1. UNCHANGED tables /\ UNCHANGED <<pc, req, created>>
      BY <2>5 DEF allVars, vars, tables, txnVars
    <3>2. \A q \in Request : /\ Acceptable(q)' <=> Acceptable(q)
                             /\ KeyFree(q.who, Endpoint(q), q.key)'
                                  <=> KeyFree(q.who, Endpoint(q), q.key)
                             /\ owners' = owners /\ holder' = holder
      BY <3>1, TestsKept
    <3>3. SessionsTyped' /\ \A s, t \in Session : s # t => Apart(s, t)'
      BY <3>1 DEF TxnSound, SessionsTyped, Apart, HasOwner, HasRow, HasKey, Keyed, Endpoint
    <3>4. \A s \in Session, q \in Request : req'[s] = q => Serving(s, q)'
      BY <3>1, <3>2, NoRequestIsNone DEF TxnSound, Serving
    <3>5. QED
      BY <3>1, <3>3, <3>4, TablesKept DEF TxnSound
  <2>6. QED
    BY <2>1, <2>2, <2>3, <2>4, <2>5 DEF TxnNext
<1>2. TypeOK' /\ BetsKnown' /\ OrderSound'
  BY <1>1, TypeStep, BetsKnownStep, OrderSoundStep DEF TablesSound
<1>3. QED
  BY <1>1, <1>2 DEF SessionsSound, TablesSound

\* The sessions stay sound.
LEMMA SessionsStaySound == TxnSpec => []SessionsSound
BY SessionsSoundInit, SessionsStep, PTL DEF TxnSpec

\* Transactions are serializable: whatever the key, owner and row locks let
\* interleave, crash or abort, every commit is one transaction of the ledger that
\* passes all its tests (_execute_mutation, approve, reject).
THEOREM SessionsImplementLedger == TxnSpec => ImplementsLedger
<1>1. TxnInit => Init
  BY DEF TxnInit
<1>2. QED
  BY <1>1, SessionsSoundInit, SessionsStep, PTL DEF TxnSpec, ImplementsLedger, Spec

\* So what the ledger promises holds of concurrent sessions: one bet per approval,
\* one mutation per key, no overdraft, and approved exposure within the caps.
THEOREM SessionsKeepPromises ==
  TxnSpec => [](MutatedOnce /\ Solvent /\ LedgerMatchesBets /\ ApprovedExposureWithinPeak)
<1>1. TxnSpec => Spec
  BY SessionsImplementLedger DEF ImplementsLedger
<1>2. Spec => [](MutatedOnce /\ Solvent /\ LedgerMatchesBets /\ ApprovedExposureWithinPeak)
  BY LedgerMutatesOnce, LedgerSolvent, LedgerAgreesWithBets, ApprovedWithinPeak, PTL
<1>3. QED
  BY <1>1, <1>2, PTL

------------------------------------------------------------------------------
(* The answers agree *)

AnswerType ==
    [request : Request, response : [bet : BetId \cup {NoBet}, after : Int],
     code : {"ok", "refused", "conflict", "error", "aborted"}]

AnswersSound ==
    /\ calls \in 0..MaxCalls
    /\ answers \subseteq AnswerType
    /\ \A a \in answers : AnswerBacked(a)
    /\ DecisionsNeverAborted

\* What an answer says stays on record: history is append-only.
LEMMA BackedKept ==
  ASSUME TypeOK, [Next]_vars, NEW a \in AnswerType, AnswerBacked(a)
  PROVE  AnswerBacked(a)'
<1>1. [HistoryKept]_vars
  BY HistoryStep
<1>2. CASE HistoryKept
  <2>1. /\ idem \subseteq idem'
        /\ \A r \in Rec : recs[r] \in {"approved", "rejected"} => recs'[r] = recs[r]
        /\ \A b \in DOMAIN bets : b \in DOMAIN bets' /\ Terms(bets'[b]) = Terms(bets[b])
    BY <1>2 DEF HistoryKept
  <2>2. \A b \in DOMAIN bets : bets'[b].rec = bets[b].rec
    <3>1. TypeOK'
      BY TypeStep
    <3>2. \A row \in BetRow : Terms(row).rec = row.rec
      BY DEF BetRow, Terms
    <3>3. \A b \in DOMAIN bets : bets[b] \in BetRow /\ bets'[b] \in BetRow
      BY <2>1, <3>1 DEF TypeOK
    <3>4. QED
      BY <2>1, <3>2, <3>3
  <2>3. a.request.op \in {"approve", "reject"} => a.request.rec \in Rec
    BY RequestForms DEF AnswerType
  <2>4. Endpoint(a.request)' = Endpoint(a.request)
    BY DEF Endpoint
  <2>5. QED
    BY <2>1, <2>2, <2>3, <2>4 DEF AnswerBacked
<1>3. CASE UNCHANGED vars
  BY <1>3 DEF AnswerBacked, vars, Endpoint
<1>4. QED
  BY <1>1, <1>2, <1>3

\* A step that answers nothing.
LEMMA NoAnswer ==
  ASSUME TypeOK, AnswersSound, [Next]_vars, answers' = answers, calls' \in 0..MaxCalls
  PROVE  AnswersSound'
BY BackedKept DEF AnswersSound, DecisionsNeverAborted

\* A step that answers once.
LEMMA NewAnswer ==
  ASSUME TypeOK, AnswersSound, [Next]_vars, calls' = calls,
         NEW a \in AnswerType, answers' = answers \cup {a}, AnswerBacked(a)',
         a.request.op \in {"approve", "reject"} => a.code # "aborted"
  PROVE  AnswersSound'
BY BackedKept DEF AnswersSound, DecisionsNeverAborted

\* A failure says nothing that needs a record.
LEMMA FailAnswers ==
  ASSUME TypeOK, TxnSound, AnswersSound, NEW s \in Session, pc[s] # "idle",
         NEW code \in {"refused", "conflict", "error", "aborted"}, Fail(s, code),
         req[s].op \in {"approve", "reject"} => code # "aborted"
  PROVE  AnswersSound'
<1> SUFFICES ASSUME NEW q, req[s] = q PROVE AnswersSound'
  OBVIOUS
<1> DEFINE a == [request |-> q, code |-> code, response |-> [bet |-> NoBet, after |-> 0]]
<1>1. answers' = answers \cup {a} /\ calls' = calls /\ UNCHANGED vars
  BY TablesKept DEF Fail, Answer
<1>2. a \in AnswerType
  BY BusyServes DEF AnswerType
<1>3. AnswerBacked(a)' /\ (a.request.op \in {"approve", "reject"} => a.code # "aborted")
  BY DEF AnswerBacked
<1> HIDE DEF a
<1>4. QED
  BY <1>1, <1>2, <1>3, NewAnswer

\* Nor does a success whose response is on record.
LEMMA OkAnswers ==
  ASSUME TypeOK, AnswersSound, [Next]_vars, NEW q \in Request, calls' = calls,
         NEW b \in BetId \cup {NoBet}, NEW balance \in Int,
         answers' = answers \cup
            {[request |-> q, code |-> "ok", response |-> [bet |-> b, after |-> balance]]},
         q.key # NoKey =>
            \E i \in idem' : /\ i.owner = q.who /\ i.endpoint = Endpoint(q) /\ i.key = q.key
                             /\ i.request = q.body /\ i.response = [bet |-> b, after |-> balance],
         q.op = "approve" => recs'[q.rec] = "approved" /\ b \in DOMAIN bets' /\ bets'[b].rec = q.rec,
         q.op = "reject" => recs'[q.rec] = "rejected" /\ b = NoBet
  PROVE  AnswersSound'
<1> DEFINE a == [request |-> q, code |-> "ok", response |-> [bet |-> b, after |-> balance]]
<1>1. a \in AnswerType
  BY DEF AnswerType
<1>2. a.request = q /\ a.code = "ok" /\ a.response = [bet |-> b, after |-> balance] /\ a.response.bet = b
  OBVIOUS
<1>3. answers' = answers \cup {a}
  OBVIOUS
<1> HIDE DEF a
<1>4. Endpoint(a.request)' = Endpoint(q)
  BY <1>2 DEF Endpoint
<1>5. AnswerBacked(a)'
  BY <1>2, <1>4 DEF AnswerBacked
<1>6. QED
  BY <1>1, <1>2, <1>3, <1>5, NewAnswer

\* An approval or a rejection waits for sessions that wait for nobody it blocks.
LEMMA DecisionsNeverDeadlock ==
  ASSUME TxnSound, NEW s \in Session, pc[s] # "idle", req[s].op \in {"approve", "reject"}
  PROVE  ~Deadlocked(s)
<1>1. /\ req[s] \in Request /\ Serving(s, req[s]) /\ ~Keyed(s)
      /\ pc[s] \in {"lock", "row", "check", "write"} /\ s \notin created
      /\ pc[s] = "lock" => req[s].op = "approve"
  BY BusyServes, RequestForms DEF Serving, Keyed
<1>2. CASE pc[s] = "lock"
  <2> DEFINE awaited == Session \ {s}
  <2>1. \A t \in Session : s \notin Blockers(t)
    BY <1>1, <1>2 DEF Blockers, HoldsKey, LocksOwner, SharesOwner, LocksRow
  <2>2. \A t \in Session : Blockers(t) \subseteq awaited
    BY <2>1 DEF Blockers
  <2>3. QED
    BY <2>2 DEF Deadlocked
<1>3. CASE pc[s] # "lock"
  <2>1. Blockers(s) \subseteq Session \ {s}
    BY DEF Blockers
  <2>2. \A t \in Blockers(s) : pc[t] \in {"check", "write"}
    BY <1>1, <1>3 DEF Blockers, LocksRow
  <2>3. \A t \in Blockers(s) : Blockers(t) = {}
    BY <2>2 DEF Blockers
  <2>4. QED
    BY <2>1, <2>3 DEF Deadlocked
<1>4. QED
  BY <1>2, <1>3

\* A session that waits for nobody is not in a deadlock.
LEMMA DeadlockedWaits ==
  ASSUME NEW s \in Session, Deadlocked(s)
  PROVE  pc[s] # "idle"
<1>1. Blockers(s) = {} => FALSE
  BY DEF Deadlocked
<1>2. QED
  BY <1>1 DEF Blockers

\* The bet an approved recommendation is answered with is its own.
LEMMA ApprovedBetOwn ==
  ASSUME ApprovedOnce, NEW r \in Rec, recs[r] = "approved"
  PROVE  ApprovedBet(r) \in DOMAIN bets /\ bets[ApprovedBet(r)].rec = r
<1>1. \E b \in DOMAIN bets : bets[b].rec = r
  BY DEF ApprovedOnce
<1>2. QED
  BY <1>1 DEF ApprovedBet

\* Checking answers a repeated approval with the first bet, or refuses.
LEMMA CheckAnswers ==
  ASSUME TypeOK, TxnSound, ApprovedOnce, AnswersSound, NEW s \in Session, Check(s)
  PROVE  AnswersSound'
<1> SUFFICES ASSUME NEW q, req[s] = q PROVE AnswersSound'
  OBVIOUS
<1>1. q \in Request /\ pc[s] = "check" /\ UNCHANGED vars
  BY BusyServes, TablesKept DEF Check, Step, Fail
<1>2. CASE q.op = "approve" /\ recs[q.rec] = "approved"
  <2> DEFINE b == ApprovedBet(q.rec)
             balance == cash[q.port]
  <2>1. q.rec \in Rec /\ q.port \in Portfolio /\ q.key = NoKey
    BY <1>1, <1>2, RequestForms
  <2>2. b \in DOMAIN bets /\ bets[b].rec = q.rec /\ b \in BetId /\ balance \in Int
    BY <1>2, <2>1, ApprovedBetOwn DEF TypeOK
  <2>3. answers' = answers \cup
          {[request |-> q, code |-> "ok", response |-> [bet |-> b, after |-> balance]]} /\ calls' = calls
    BY <1>2 DEF Check, Answer
  <2>4. PICK c \in BetId, money \in Int : c = b /\ money = balance
    BY <2>2
  <2>5. c \in DOMAIN bets' /\ bets'[c].rec = q.rec /\ recs'[q.rec] = "approved"
    BY <1>1, <1>2, <2>2, <2>4 DEF vars
  <2> HIDE DEF b, balance
  <2>6. QED
    BY <1>1, <1>2, <2>1, <2>3, <2>4, <2>5, OkAnswers
<1>3. CASE ~(q.op = "approve" /\ recs[q.rec] = "approved")
  <2>1. CASE Step(s, "write")
    BY <1>1, <2>1, NoAnswer DEF Step, AnswersSound
  <2>2. CASE Fail(s, "refused")
    BY <1>1, <2>2, FailAnswers
  <2>3. QED
    BY <1>3, <2>1, <2>2 DEF Check
<1>4. QED
  BY <1>2, <1>3

\* The record found for an IntegrityError is what the key was answered with.
LEMMA LookupAnswers ==
  ASSUME TypeOK, TxnSound, AnswersSound, NEW s \in Session, Lookup(s)
  PROVE  AnswersSound'
<1> SUFFICES ASSUME NEW q, req[s] = q PROVE AnswersSound'
  OBVIOUS
<1>1. q \in Request /\ pc[s] = "lookup" /\ q.key # NoKey /\ UNCHANGED vars
  BY BusyServes, TablesKept DEF Lookup, Serving
<1>2. CASE \E code \in {"error", "conflict"} : Fail(s, code)
  BY <1>1, <1>2, FailAnswers
<1>3. ASSUME NEW i \in idem, i.owner = q.who, i.endpoint = Endpoint(q), i.key = q.key,
             i.request = q.body, Answer(s, "ok", i.response.bet, i.response.after)
      PROVE  AnswersSound'
  <2>1. /\ i.response.bet \in BetId /\ i.response.after \in Int
        /\ i.response = [bet |-> i.response.bet, after |-> i.response.after]
    BY DEF TypeOK, IdemRow
  <2>2. /\ calls' = calls
        /\ answers' = answers \cup {[request |-> q, code |-> "ok",
             response |-> [bet |-> i.response.bet, after |-> i.response.after]]}
    BY <1>3 DEF Answer
  <2>3. q.op \notin {"approve", "reject"}
    BY <1>1, RequestForms
  <2>4. i \in idem'
    BY <1>1 DEF vars
  <2>5. QED
    BY <1>1, <1>3, <2>1, <2>2, <2>3, <2>4, OkAnswers
<1>4. QED
  BY <1>2, <1>3 DEF Lookup

\* A keyed mutation is answered as it is recorded.
LEMMA RecordAnswers ==
  ASSUME NEW who, NEW endpoint, NEW key, NEW body, NEW response, key # NoKey,
         idem' = idem \cup IdemRecord(who, endpoint, key, body, response)
  PROVE  \E i \in idem' : /\ i.owner = who /\ i.endpoint = endpoint /\ i.key = key
                          /\ i.request = body /\ i.response = response
<1> DEFINE i == [owner |-> who, endpoint |-> endpoint, key |-> key,
                 request |-> body, response |-> response]
<1>1. i \in idem'
  BY DEF IdemRecord
<1>2. QED
  BY <1>1

\* What a commit answers is what it wrote.
LEMMA WriteAnswers ==
  ASSUME TypeOK, TypeOK', TxnSound, AnswersSound, [Next]_vars, NEW s \in Session,
         \/ \E b \in BetId : WritePlace(s, b) \/ WriteApprove(s, b)
         \/ WriteSettle(s) \/ WriteReject(s) \/ WriteView(s)
  PROVE  AnswersSound'
<1> SUFFICES ASSUME NEW q, req[s] = q PROVE AnswersSound'
  OBVIOUS
<1>1. pc[s] = "write" /\ q \in Request /\ Acceptable(q)
  BY ReadyToWrite DEF WritePlace, WriteApprove, WriteSettle, WriteReject, WriteView
<1>2. q.port \in Portfolio /\ cash'[q.port] \in Int
  BY <1>1, RequestForms DEF TypeOK
<1>3. PICK balance \in Int : balance = cash'[q.port]
  BY <1>2
<1>4. ASSUME NEW b \in BetId, WritePlace(s, b) PROVE AnswersSound'
  <2>1. /\ q.op = "place" /\ calls' = calls
        /\ answers' = answers \cup
             {[request |-> q, code |-> "ok", response |-> [bet |-> b, after |-> balance]]}
    BY <1>3, <1>4 DEF WritePlace, Commit, Answer
  <2>2. idem' = idem \cup IdemRecord(q.who, "/bets", q.key, q.body, [bet |-> b, after |-> balance])
    BY <1>3, <1>4 DEF WritePlace
  <2>3. QED
    BY <1>1, <2>1, <2>2, RecordAnswers, OkAnswers DEF Endpoint
<1>5. ASSUME NEW b \in BetId, WriteApprove(s, b) PROVE AnswersSound'
  <2>1. /\ q.op = "approve" /\ calls' = calls
        /\ answers' = answers \cup
             {[request |-> q, code |-> "ok", response |-> [bet |-> b, after |-> balance]]}
    BY <1>3, <1>5 DEF WriteApprove, Commit, Answer
  <2>2. q.key = NoKey /\ q.rec \in Rec
    BY <1>1, <2>1, RequestForms
  <2>3. recs'[q.rec] = "approved"
    BY <1>5, <2>2 DEF WriteApprove, TypeOK
  <2>4. b \in DOMAIN bets' /\ bets'[b].rec = q.rec
    BY <1>5 DEF WriteApprove, RecordBet, OpenBet
  <2>5. QED
    BY <1>1, <2>1, <2>2, <2>3, <2>4, OkAnswers
<1>6. CASE WriteSettle(s)
  <2>1. q.op = "settle"
    BY <1>6 DEF WriteSettle
  <2>2. PICK b \in BetId : b = q.body.bet
    BY <1>1, <2>1, RequestForms
  <2>3. /\ calls' = calls
        /\ answers' = answers \cup
             {[request |-> q, code |-> "ok", response |-> [bet |-> b, after |-> balance]]}
    BY <1>3, <1>6, <2>2 DEF WriteSettle, Commit, Answer
  <2>4. idem' = idem \cup IdemRecord(q.who, "/bet-result", q.key, q.body, [bet |-> b, after |-> balance])
    BY <1>3, <1>6, <2>2 DEF WriteSettle
  <2>5. QED
    BY <1>1, <2>1, <2>3, <2>4, RecordAnswers, OkAnswers DEF Endpoint
<1>7. CASE WriteReject(s)
  <2> SUFFICES ASSUME NEW b \in BetId \cup {NoBet}, NEW after \in Int, b = NoBet, after = 0
               PROVE  AnswersSound'
    OBVIOUS
  <2>1. /\ q.op = "reject" /\ calls' = calls
        /\ answers' = answers \cup
             {[request |-> q, code |-> "ok", response |-> [bet |-> b, after |-> after]]}
    BY <1>7 DEF WriteReject, Answer
  <2>2. q.key = NoKey /\ q.rec \in Rec
    BY <1>1, <2>1, RequestForms
  <2>3. recs'[q.rec] = "rejected"
    BY <1>7, <2>2 DEF WriteReject, TypeOK
  <2>4. QED
    BY <1>1, <2>1, <2>2, <2>3, OkAnswers
<1>8. CASE WriteView(s)
  <2>1. /\ q.op \in {"view", "snapshot"} /\ calls' = calls
        /\ answers' = answers \cup
             {[request |-> q, code |-> "ok", response |-> [bet |-> NoBet, after |-> balance]]}
    BY <1>3, <1>8 DEF WriteView, Commit, Answer
  <2>2. q.key = NoKey
    BY <1>1, <2>1, RequestForms
  <2>3. QED
    BY <1>1, <2>1, <2>2, OkAnswers
<1>9. QED
  BY <1>4, <1>5, <1>6, <1>7, <1>8

\* Every step of a session keeps the answers sound.
LEMMA WorkAnswers ==
  ASSUME TablesSound, TxnSound, ApprovedOnce, AnswersSound, NEW s \in Session, Work(s)
  PROVE  AnswersSound'
<1>1. TypeOK /\ [Next]_vars /\ TypeOK'
  BY WorkKeeps, TypeStep DEF TablesSound
<1>2. CASE answers' = answers /\ calls' = calls
  BY <1>1, <1>2, NoAnswer DEF AnswersSound
<1>3. CASE \E code \in {"refused", "error"} : pc[s] # "idle" /\ Fail(s, code)
  BY <1>1, <1>3, FailAnswers
<1>4. CASE Owner(s) \/ ShareOwner(s) \/ LockOwner(s) \/ Fund(s)
  BY <1>2, <1>4 DEF Owner, ShareOwner, LockOwner, Fund, Step
<1>5. CASE InsertKey(s)
  BY <1>2, <1>3, <1>5 DEF InsertKey, IntegrityError, Step
<1>6. CASE LockRow(s)
  BY <1>2, <1>3, <1>6 DEF LockRow, Step
<1>7. CASE Load(s)
  BY <1>2, <1>3, <1>7 DEF Load, Step
<1>8. CASE Create(s)
  BY <1>2, <1>3, <1>8 DEF Create, IntegrityError
<1>9. CASE Check(s)
  BY <1>1, <1>9, CheckAnswers
<1>10. CASE Lookup(s)
  BY <1>1, <1>10, LookupAnswers
<1>11. CASE DeadlockAbort(s)
  <2>1. Fail(s, "aborted") /\ pc[s] # "idle" /\ req[s].op \notin {"approve", "reject"}
    BY <1>11, DeadlockedWaits, DecisionsNeverDeadlock DEF DeadlockAbort
  <2>2. QED
    BY <1>1, <2>1, FailAnswers
<1>12. CASE \/ \E b \in BetId : WritePlace(s, b)
            \/ \E b \in BetId : WriteApprove(s, b)
            \/ WriteSettle(s) \/ WriteReject(s) \/ WriteView(s)
  BY <1>1, <1>12, WriteAnswers
<1>13. QED
  BY <1>4, <1>5, <1>6, <1>7, <1>8, <1>9, <1>10, <1>11, <1>12 DEF Work

\* So does every step.
LEMMA AnswersStep ==
  SessionsSound /\ ApprovedOnce /\ AnswersSound /\ [TxnNext]_allVars => AnswersSound'
<1> SUFFICES ASSUME TablesSound, TxnSound, ApprovedOnce, AnswersSound, [TxnNext]_allVars
             PROVE  AnswersSound'
  BY DEF SessionsSound
<1>1. [Next]_vars /\ TypeOK
  BY SessionsStep DEF SessionsSound, TablesSound
<1>2. CASE \E s \in Session : Work(s)
  BY <1>2, WorkAnswers
<1>3. CASE \E s \in Session : Crash(s)
  BY <1>1, <1>3, NoAnswer DEF Crash, AnswersSound
<1>4. CASE \E s \in Session, q \in Request : Send(s, q)
  <2>1. answers' = answers /\ calls < MaxCalls /\ calls' = calls + 1
    BY <1>4 DEF Send
  <2>2. calls' \in 0..MaxCalls
    BY <2>1, CallsAssumption DEF AnswersSound
  <2>3. QED
    BY <1>1, <2>1, <2>2, NoAnswer
<1>5. CASE \E who \in Principal, rs \in SUBSET Rec : Decide(who, rs)
  BY <1>1, <1>5, NoAnswer DEF Decide, txnVars, AnswersSound
<1>6. CASE UNCHANGED allVars
  BY <1>1, <1>6, NoAnswer DEF allVars, txnVars, AnswersSound
<1>7. QED
  BY <1>2, <1>3, <1>4, <1>5, <1>6 DEF TxnNext

\* What is on record makes the answers agree.
LEMMA RecordsAgree ==
  ASSUME TypeOK, OneMutationPerKey, ApprovedOnce, AnswersSound
  PROVE  SameKeySameAnswer /\ ApprovalAnswersAgree
<1>1. SameKeySameAnswer
  <2> SUFFICES ASSUME NEW a \in answers, NEW c \in answers, a.code = "ok", c.code = "ok",
                      a.request.key # NoKey, a.request.key = c.request.key,
                      a.request.who = c.request.who, Endpoint(a.request) = Endpoint(c.request)
               PROVE  a.request.body = c.request.body /\ a.response = c.response
    BY DEF SameKeySameAnswer
  <2>1. PICK i \in idem : /\ i.owner = a.request.who /\ i.endpoint = Endpoint(a.request)
                          /\ i.key = a.request.key /\ i.request = a.request.body
                          /\ i.response = a.response
    BY DEF AnswersSound, AnswerBacked
  <2>2. PICK j \in idem : /\ j.owner = c.request.who /\ j.endpoint = Endpoint(c.request)
                          /\ j.key = c.request.key /\ j.request = c.request.body
                          /\ j.response = c.response
    BY DEF AnswersSound, AnswerBacked
  <2>3. i = j
    BY <2>1, <2>2 DEF OneMutationPerKey
  <2>4. QED
    BY <2>1, <2>2, <2>3
<1>2. ApprovalAnswersAgree
  <2> SUFFICES ASSUME NEW a \in answers, NEW c \in answers,
                      a.request.op \in {"approve", "reject"}, c.request.op \in {"approve", "reject"},
                      a.request.rec = c.request.rec, a.code = "ok", c.code = "ok"
               PROVE  a.request.op = c.request.op /\ a.response.bet = c.response.bet
    BY DEF ApprovalAnswersAgree
  <2>1. AnswerBacked(a) /\ AnswerBacked(c) /\ a.request.rec \in Rec /\ a.request.rec # NoRec
    BY RequestForms, SentinelAssumption DEF AnswersSound, AnswerType
  <2>2. a.request.op = c.request.op
    BY <2>1 DEF AnswerBacked
  <2>3. CASE a.request.op = "reject"
    BY <2>1, <2>2, <2>3 DEF AnswerBacked
  <2>4. CASE a.request.op = "approve"
    BY <2>1, <2>2, <2>4 DEF AnswerBacked, ApprovedOnce
  <2>5. QED
    BY <2>2, <2>3, <2>4
<1>3. QED
  BY <1>1, <1>2

\* What clients are told agrees, whatever they retry, race with or lose on the way:
\* one answer per key, one outcome of a decision, and no decision aborted for locks.
THEOREM SessionsAnswersAgree == TxnSpec => []AnswersAgree
<1>1. TxnInit => AnswersSound
  BY CallsAssumption DEF TxnInit, AnswersSound, DecisionsNeverAborted
<1>2. SessionsSound /\ ApprovedOnce /\ OneMutationPerKey /\ AnswersSound => AnswersAgree
  <2> SUFFICES ASSUME TablesSound, TxnSound, ApprovedOnce, OneMutationPerKey, AnswersSound
               PROVE  AnswersAgree
    BY DEF SessionsSound
  <2>1. SameKeySameAnswer /\ ApprovalAnswersAgree
    BY RecordsAgree DEF TablesSound
  <2>2. TxnTypeOK
    BY DEF TablesSound, TxnSound, SessionsTyped, Label, AnswersSound, AnswerType, TxnTypeOK
  <2>3. QED
    BY <2>1, <2>2 DEF AnswersAgree, AnswersSound
<1>3. TxnSpec => [](ApprovedOnce /\ OneMutationPerKey)
  BY SessionsImplementLedger, LedgerApprovedOnce, LedgerOneMutationPerKey, PTL DEF ImplementsLedger
<1>4. QED
  BY <1>1, <1>2, <1>3, SessionsStaySound, AnswersStep, PTL DEF TxnSpec
=============================================================================
