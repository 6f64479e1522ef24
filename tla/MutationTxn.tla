----------------------------- MODULE MutationTxn -----------------------------
(* The same transactions as PortfolioLedger, statement by statement, as         *)
(* concurrent sessions of PostgreSQL at READ COMMITTED run them: the key row is  *)
(* inserted first, then the owner row is locked, then state is read and checked, *)
(* and only then written and committed. The tables are PortfolioLedger's and     *)
(* hold committed rows only; what a session has locked or inserted but not       *)
(* committed follows from how far it has come. A client may send a request       *)
(* again at any time, also while an earlier attempt is still running.            *)
EXTENDS PortfolioLedger

CONSTANTS
    Session,        \* connections of the pool
    Request,        \* the calls clients make
    MaxCalls        \* bound: calls sent over a whole run, retries included

VARIABLES
    pc,             \* per session, the statement it executes next
    req,            \* per session, the request it serves
    created,        \* the sessions that inserted a portfolio they have not committed
    calls,          \* how many calls were sent
    answers         \* what the server answered, over all attempts

txnVars == <<pc, req, created, calls, answers>>
tables == <<owners, holder, bets, settled, ledger, cash, recs, idem>>
allVars == <<vars, txnVars>>

ASSUME CallsAssumption == MaxCalls \in Nat \ {0}

Place(who, p, order, key) ==
    [op |-> "place", who |-> who, port |-> p, key |-> key, body |-> [port |-> p, order |-> order]]

Settle(who, p, b, result, payout, key) ==
    [op |-> "settle", who |-> who, port |-> p, key |-> key,
     body |-> [port |-> p, bet |-> b, result |-> result, payout |-> payout]]

View(who, p) == [op |-> "view", who |-> who, port |-> p, key |-> NoKey]

Snapshot(who, p) == [op |-> "snapshot", who |-> who, port |-> p, key |-> NoKey]

ApproveRec(who, r) == [op |-> "approve", who |-> who, port |-> Row[r].port, key |-> NoKey, rec |-> r]

RejectRec(who, r) == [op |-> "reject", who |-> who, port |-> Row[r].port, key |-> NoKey, rec |-> r]

\* A request names an owner and a portfolio, and carries a valid body.
ASSUME RequestAssumption ==
    Request \subseteq
        {Place(who, p, order, key) :
            who \in Principal, p \in Portfolio, order \in Order, key \in Key \cup {NoKey}}
        \cup {Settle(who, p, b, result, payout, key) :
            who \in Principal, p \in Portfolio, b \in BetId, result \in {"win", "loss", "push"},
            payout \in Payout, key \in Key \cup {NoKey}}
        \cup {View(who, p) : who \in Principal, p \in Portfolio}
        \cup {Snapshot(who, p) : who \in Principal, p \in Portfolio}
        \cup {ApproveRec(who, r) : who \in Principal, r \in Rec}
        \cup {RejectRec(who, r) : who \in Principal, r \in Rec}

\* What an idle session serves.
NoRequest == [op |-> "none", who |-> NoOne, key |-> NoKey]

Endpoint(q) == IF q.op = "place" THEN "/bets" ELSE "/bet-result"

Keyed(s) == req[s].key # NoKey

TxnInit ==
    /\ Init
    /\ pc = [s \in Session |-> "idle"]
    /\ req = [s \in Session |-> NoRequest]
    /\ created = {}
    /\ calls = 0
    /\ answers = {}

------------------------------------------------------------------------------
(* What a session holds and what it waits for *)

\* Mutant: the key is only looked up before the work, and inserted after it.
KeyNotHeld(s, q) == FALSE

\* An uncommitted idempotency row: the unique index makes equal rows wait for it.
HoldsKey(s, q) ==
    /\ pc[s] \in {"share", "lock", "load", "create", "fund", "check", "write"}
    /\ Keyed(s) /\ q.key # NoKey
    /\ req[s].who = q.who /\ Endpoint(req[s]) = Endpoint(q) /\ req[s].key = q.key

\* FOR KEY SHARE on the owner row: taken by the foreign keys of an idempotency
\* row and of a portfolio row.
SharesOwner(s, who) ==
    /\ req[s].who = who
    /\ \/ Keyed(s) /\ pc[s] \in {"lock", "load", "create", "fund", "check", "write"}
       \/ s \in created /\ pc[s] \in {"check", "write"}

\* FOR UPDATE on the owner row.
LocksOwner(s, who) ==
    /\ req[s].who = who
    /\ \/ req[s].op \in {"place", "settle", "view"} /\ pc[s] \in {"load", "create", "fund", "check", "write"}
       \/ req[s].op = "approve" /\ pc[s] \in {"row", "check", "write"}

\* FOR UPDATE on the recommendation row.
LocksRow(s, r) ==
    /\ req[s].op \in {"approve", "reject"} /\ req[s].rec = r
    /\ pc[s] \in {"check", "write"}

\* The sessions that keep s from executing its next statement.
Blockers(s) ==
    {t \in Session \ {s} :
        \/ pc[s] = "insert" /\ HoldsKey(t, req[s])
        \/ pc[s] = "share" /\ LocksOwner(t, req[s].who)
        \/ pc[s] = "lock" /\ (LocksOwner(t, req[s].who) \/ SharesOwner(t, req[s].who))
        \/ pc[s] = "row" /\ LocksRow(t, req[s].rec)
        \/ pc[s] = "create" /\ t \in created /\ req[t].port = req[s].port
        \/ pc[s] = "fund" /\ LocksOwner(t, req[s].who)}

\* s waits for itself: it is in every set that holds the sessions s waits for, those
\* they wait for, and so on.
Deadlocked(s) ==
    \A awaited \in SUBSET Session :
        Blockers(s) \subseteq awaited /\ (\A t \in awaited : Blockers(t) \subseteq awaited)
        => s \in awaited

Goto(s, label) == pc' = [pc EXCEPT ![s] = label]

\* The transaction ends, committed or rolled back, and the client is answered.
Answer(s, code, b, after) ==
    /\ Goto(s, "idle")
    /\ created' = created \ {s}
    /\ answers' = answers \cup
          {[request |-> req[s], code |-> code, response |-> [bet |-> b, after |-> after]]}
    /\ req' = [req EXCEPT ![s] = NoRequest]
    /\ UNCHANGED calls

Fail(s, code) == Answer(s, code, NoBet, 0) /\ UNCHANGED tables

Step(s, label) == Goto(s, label) /\ UNCHANGED <<tables, req, created, calls, answers>>

\* IntegrityError: rolled back; a keyed request goes on to look for its record.
IntegrityError(s) ==
    \/ Keyed(s) /\ Goto(s, "lookup") /\ created' = created \ {s}
       /\ UNCHANGED <<tables, req, calls, answers>>
    \/ ~Keyed(s) /\ Fail(s, "error")

------------------------------------------------------------------------------
(* The statements *)

FirstStatement(q) ==
    CASE q.op = "snapshot" -> "load"
      [] q.op = "approve" -> "lock"
      [] q.op = "reject" -> "row"
      [] OTHER -> "owner"

Send(s, q) ==
    /\ pc[s] = "idle"
    /\ calls < MaxCalls
    /\ calls' = calls + 1
    /\ req' = [req EXCEPT ![s] = q]
    /\ Goto(s, FirstStatement(q))
    /\ UNCHANGED <<tables, created, answers>>

\* ensure_owner commits on its own before the mutation begins.
Owner(s) ==
    /\ pc[s] = "owner"
    /\ owners' = owners \cup {req[s].who}
    /\ Goto(s, IF Keyed(s) THEN "insert" ELSE "lock")
    /\ UNCHANGED <<holder, bets, settled, ledger, cash, recs, idem, req, created, calls, answers>>

\* session.flush() of the IdempotencyRecord.
InsertKey(s) ==
    /\ pc[s] = "insert"
    /\ Blockers(s) = {}
    /\ \/ KeyFree(req[s].who, Endpoint(req[s]), req[s].key) /\ Step(s, "share")
       \/ ~KeyFree(req[s].who, Endpoint(req[s]), req[s].key) /\ IntegrityError(s)

\* The foreign key of that row reads the owner FOR KEY SHARE.
ShareOwner(s) ==
    /\ pc[s] = "share"
    /\ Blockers(s) = {}
    /\ Step(s, "lock")

\* _lock_owner, and the same statement in approve.
LockOwner(s) ==
    /\ pc[s] = "lock"
    /\ Blockers(s) = {}
    /\ Step(s, IF req[s].op = "approve" THEN "row" ELSE "load")

\* _owned_recommendation(lock=True).
LockRow(s) ==
    /\ pc[s] = "row"
    /\ Blockers(s) = {}
    /\ \/ holder[req[s].port] # req[s].who /\ Fail(s, "refused")
       \/ holder[req[s].port] = req[s].who /\ Step(s, "check")

\* The select of _load_or_create_portfolio.
Load(s) ==
    /\ pc[s] = "load"
    /\ \/ ~Accessible(req[s].who, req[s].port) /\ Fail(s, "refused")
       \/ holder[req[s].port] = req[s].who /\ Step(s, "check")
       \/ holder[req[s].port] = NoOne /\ Step(s, "create")

\* Its insert, which the unique external_id may refuse, ...
Create(s) ==
    /\ pc[s] = "create"
    /\ Blockers(s) = {}
    /\ \/ holder[req[s].port] # NoOne /\ IntegrityError(s)
       \/ /\ holder[req[s].port] = NoOne
          /\ created' = created \cup {s}
          /\ Goto(s, "fund")
          /\ UNCHANGED <<tables, req, calls, answers>>

\* ... and the foreign key of the new portfolio row, before its first ledger row.
Fund(s) ==
    /\ pc[s] = "fund"
    /\ Blockers(s) = {}
    /\ Step(s, "check")

\* The tests an operation makes on what it reads under its locks.
Acceptable(q) ==
    \/ q.op = "place" /\ q.body.order.stake > 0 /\ OpeningCash(q.port) >= q.body.order.stake
    \/ /\ q.op = "settle"
       /\ q.body.bet \in DOMAIN bets
       /\ bets[q.body.bet].port = q.port
       /\ bets[q.body.bet].status = "open"
       /\ AcceptedPayout(q.body.result, q.body.payout, bets[q.body.bet].stake)
    \/ q.op \in {"view", "snapshot"}
    \/ q.op = "reject" /\ recs[q.rec] = "proposed"
    \/ /\ q.op = "approve"
       /\ recs[q.rec] = "proposed"
       /\ Row[q.rec].stake > 0
       /\ cash[q.port] >= Row[q.rec].stake
       /\ WithinRiskLimits(Row[q.rec], bets, settled[q.port], cash[q.port])

\* The bet an earlier approval recorded, answered again as it stands.
ApprovedBet(r) == CHOOSE b \in DOMAIN bets : bets[b].rec = r

Check(s) ==
    /\ pc[s] = "check"
    /\ IF req[s].op = "approve" /\ recs[req[s].rec] = "approved"
       THEN /\ Answer(s, "ok", ApprovedBet(req[s].rec), cash[req[s].port])
            /\ UNCHANGED tables
       ELSE \/ Acceptable(req[s]) /\ Step(s, "write")
            \/ ~Acceptable(req[s]) /\ Fail(s, "refused")

------------------------------------------------------------------------------
(* Writing and committing. Nothing is tested again here: whether the tests of     *)
(* Check still hold is for the locks to ensure.                                   *)

Commit(s, b) == Answer(s, "ok", b, cash'[req[s].port])

WritePlace(s, b) ==
    LET q == req[s]
        o == q.body.order
    IN  /\ pc[s] = "write" /\ q.op = "place"
        /\ b \notin DOMAIN bets
        /\ RecordBet(q.who, q.port, b, OpenBet(q.port, "straight", o.stake, o.slate, o.legs, NoRec), q.key)
        /\ idem' = idem \cup IdemRecord(q.who, "/bets", q.key, q.body, [bet |-> b, after |-> cash'[q.port]])
        /\ Commit(s, b)
        /\ UNCHANGED <<owners, settled, recs>>

WriteSettle(s) ==
    LET q == req[s]
        b == q.body.bet
    IN  /\ pc[s] = "write" /\ q.op = "settle"
        /\ RecordSettlement(q.port, b, q.body.payout, q.key)
        /\ idem' = idem \cup
              IdemRecord(q.who, "/bet-result", q.key, q.body, [bet |-> b, after |-> cash'[q.port]])
        /\ Commit(s, b)
        /\ UNCHANGED <<owners, holder, recs>>

WriteApprove(s, b) ==
    LET q   == req[s]
        row == Row[q.rec]
    IN  /\ pc[s] = "write" /\ q.op = "approve"
        /\ b \notin DOMAIN bets
        /\ RecordBet(q.who, q.port, b, OpenBet(q.port, row.kind, row.stake, row.slate, row.legs, q.rec), NoKey)
        /\ recs' = [recs EXCEPT ![q.rec] = "approved"]
        /\ Commit(s, b)
        /\ UNCHANGED <<owners, settled, idem>>

WriteReject(s) ==
    /\ pc[s] = "write" /\ req[s].op = "reject"
    /\ recs' = [recs EXCEPT ![req[s].rec] = "rejected"]
    /\ Answer(s, "ok", NoBet, 0)
    /\ UNCHANGED <<owners, holder, bets, settled, ledger, cash, idem>>

\* A view or a snapshot writes only the portfolio it created.
WriteView(s) ==
    LET q == req[s]
    IN  /\ pc[s] = "write" /\ q.op \in {"view", "snapshot"}
        /\ IF s \in created
           THEN /\ owners' = owners \cup {q.who}
                /\ holder' = [holder EXCEPT ![q.port] = q.who]
                /\ ledger' = ledger \cup {FundingEntry(q.port)}
                /\ cash' = [cash EXCEPT ![q.port] = StartingCapital]
           ELSE UNCHANGED <<owners, holder, ledger, cash>>
        /\ Commit(s, NoBet)
        /\ UNCHANGED <<bets, settled, recs, idem>>

\* Mutant: the stored answer is given to any body.
LookupAnyBody(s) ==
    LET q     == req[s]
        found == {i \in idem : i.owner = q.who /\ i.endpoint = Endpoint(q) /\ i.key = q.key}
    IN  /\ pc[s] = "lookup"
        /\ UNCHANGED tables
        /\ \/ found = {} /\ Fail(s, "error")
           \/ \E i \in found : Answer(s, "ok", i.response.bet, i.response.after)

\* The handler of IntegrityError in _execute_mutation.
Lookup(s) ==
    LET q     == req[s]
        found == {i \in idem : i.owner = q.who /\ i.endpoint = Endpoint(q) /\ i.key = q.key}
    IN  /\ pc[s] = "lookup"
        /\ UNCHANGED tables
        /\ \/ found = {} /\ Fail(s, "error")
           \/ \E i \in found :
                 \/ i.request = q.body /\ Answer(s, "ok", i.response.bet, i.response.after)
                 \/ i.request # q.body /\ Fail(s, "conflict")

\* PostgreSQL aborts one transaction of a deadlock. The error is not an
\* IntegrityError: it rolls back and reaches the client as a server error.
DeadlockAbort(s) == Deadlocked(s) /\ Fail(s, "aborted")

\* The process or the connection is lost: rolled back, and no answer.
Crash(s) ==
    /\ pc[s] # "idle"
    /\ Goto(s, "idle")
    /\ created' = created \ {s}
    /\ req' = [req EXCEPT ![s] = NoRequest]
    /\ UNCHANGED <<tables, calls, answers>>

\* persist_decision locks nothing but the key of its portfolio row, and last: it is
\* never part of a cycle, and takes effect in one step.
Decide(who, rs) == PersistDecision(who, rs) /\ UNCHANGED txnVars

Work(s) ==
    \/ Owner(s) \/ InsertKey(s) \/ ShareOwner(s) \/ LockOwner(s) \/ LockRow(s)
    \/ Load(s) \/ Create(s) \/ Fund(s) \/ Check(s)
    \/ \E b \in BetId : WritePlace(s, b)
    \/ \E b \in BetId : WriteApprove(s, b)
    \/ WriteSettle(s) \/ WriteReject(s) \/ WriteView(s)
    \/ Lookup(s) \/ DeadlockAbort(s)

TxnNext ==
    \/ \E s \in Session : Work(s)
    \/ \E s \in Session : Crash(s)
    \/ \E s \in Session, q \in Request : Send(s, q)
    \/ \E who \in Principal, rs \in SUBSET Rec : Decide(who, rs)

\* The server and the database keep working on what they have accepted; clients
\* need not send anything and nothing need crash.
TxnSpec ==
    /\ TxnInit
    /\ [][TxnNext]_allVars
    /\ \A s \in Session : WF_allVars(Work(s))

------------------------------------------------------------------------------
(* Properties *)

\* Besides the types: only a running transaction has an uncommitted portfolio, and
\* an idle session serves nobody.
TxnTypeOK ==
    /\ TypeOK
    /\ \A s \in created : pc[s] \in {"fund", "check", "write"}
    /\ \A s \in Session : pc[s] = "idle" <=> req[s] = NoRequest
    /\ pc \in [Session -> {"idle", "owner", "insert", "share", "lock", "row", "load", "create",
                           "fund", "check", "write", "lookup"}]
    /\ req \in [Session -> Request \cup {NoRequest}]
    /\ created \subseteq Session
    /\ calls \in 0..MaxCalls
    /\ answers \subseteq [request : Request, response : [bet : BetId \cup {NoBet}, after : Int],
                          code : {"ok", "refused", "conflict", "error", "aborted"}]

\* Every commit is a transaction of PortfolioLedger, guards included: what a
\* session tested before it wrote still holds when its writes become visible.
ImplementsLedger == Spec

\* A key answers one thing: all successful answers given to an owner under a key
\* of an endpoint answer the same body, with the same bet and the same balance,
\* whether the attempts ran one after another or at once.
SameKeySameAnswer ==
    \A a, c \in answers :
        /\ a.code = "ok" /\ c.code = "ok"
        /\ a.request.key # NoKey
        /\ a.request.key = c.request.key
        /\ a.request.who = c.request.who
        /\ Endpoint(a.request) = Endpoint(c.request)
        => a.request.body = c.request.body /\ a.response = c.response

\* Repeating an approval answers with the bet of the first one, and nobody who
\* was told that a recommendation is rejected sees it approved.
ApprovalAnswersAgree ==
    \A a, c \in answers :
        /\ a.request.op \in {"approve", "reject"} /\ c.request.op \in {"approve", "reject"}
        /\ a.request.rec = c.request.rec
        /\ a.code = "ok" /\ c.code = "ok"
        => a.request.op = c.request.op /\ a.response.bet = c.response.bet

\* Approvals and rejections lock the owner first, or one row only, so no order of
\* lock requests makes one of them the victim of a deadlock.
DecisionsNeverAborted ==
    \A a \in answers : a.request.op \in {"approve", "reject"} => a.code # "aborted"

\* What clients are told agrees, whatever they retry, race with or lose on the way:
\* same key same answer, one outcome of a decision, no decision aborted for locks.
AnswersAgree == TxnTypeOK /\ SameKeySameAnswer /\ ApprovalAnswersAgree /\ DecisionsNeverAborted

\* Owner locking serializes the mutations of an owner: none is aborted.
MutationsSerialize == \A a \in answers : a.code # "aborted"

\* Every call a session accepts comes to an end: no lock order leaves sessions
\* waiting for each other, and the idempotency handler never waits for a record.
EveryCallEnds == \A s \in Session : (pc[s] # "idle") ~> (pc[s] = "idle")
=============================================================================
