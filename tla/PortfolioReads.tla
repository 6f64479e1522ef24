---------------------------- MODULE PortfolioReads ----------------------------
(* The endpoints that read a portfolio in several statements of one READ         *)
(* COMMITTED transaction, without the owner's lock, while mutations commit in     *)
(* between: portfolio_snapshot, GET /portfolio and GET /stats. A snapshot goes    *)
(* on to a decision run, whose header freezes what was read. One reader is        *)
(* enough: readers do not see one another.                                       *)
EXTENDS PortfolioLedger

CONSTANTS NoRead, NoRun

VARIABLES
    read,   \* the read under way, or NoRead
    run     \* header of the newest decision run, or NoRun

readVars == <<vars, read, run>>

\* The statements of each endpoint, in the order they are issued.
Statements ==
    [snapshot  |-> <<"cash", "open", "settled">>,
     portfolio |-> <<"cash", "open", "settled">>,
     stats     |-> <<"settled", "cash", "open">>]

LedgerRows(p) == Cardinality(EntriesOf(p))

ReadInit ==
    /\ Init
    /\ read = NoRead
    /\ run = NoRun

Begin(who, p, kind) ==
    /\ read = NoRead
    /\ holder[p] = who
    /\ read' = [kind |-> kind, port |-> p, left |-> Statements[kind],
                cash |-> 0, open |-> {}, realized |-> 0, peak |-> StartingCapital,
                rows |-> LedgerRows(p), quiet |-> TRUE, held |-> {Equity(p)}]
    /\ UNCHANGED <<vars, run>>

\* What every statement does: it is used up, and it notes whether a mutation of
\* the portfolio committed since the transaction began.
Advance(seen) ==
    [seen EXCEPT !.left = Tail(@), !.quiet = LedgerRows(read.port) = read.rows]

Issues(statement) == read # NoRead /\ read.left # <<>> /\ Head(read.left) = statement

ReadCash ==
    /\ Issues("cash")
    /\ read' = Advance([read EXCEPT !.cash = cash[read.port]])
    /\ UNCHANGED <<vars, run>>

\* Mutant: every bet counts as reserved.
ReadEveryBet ==
    /\ Issues("open")
    /\ read' = Advance([read EXCEPT !.open = {b \in DOMAIN bets : bets[b].port = read.port}])
    /\ UNCHANGED <<vars, run>>

ReadOpen ==
    /\ Issues("open")
    /\ read' = Advance([read EXCEPT !.open = OpenBets(bets, read.port)])
    /\ UNCHANGED <<vars, run>>

\* The snapshot's session has loaded the open bets as objects. A bet settled since
\* then comes back as the loaded object, whose realized_pnl is still empty.
Loaded ==
    [b \in DOMAIN bets |->
        IF read.kind = "snapshot" /\ b \in read.open THEN [bets[b] EXCEPT !.pnl = 0] ELSE bets[b]]

ReadSettled ==
    /\ Issues("settled")
    /\ read' = Advance([read EXCEPT
                   !.realized = PnlOf(Loaded, BetsWith(bets, read.port, "settled")),
                   !.peak = PeakEquity(Loaded, settled[read.port])])
    /\ UNCHANGED <<vars, run>>

Complete == read # NoRead /\ read.left = <<>>

ReadEquity == read.cash + StakeOf(bets, read.open)

\* GET /portfolio and GET /stats answer.
AnswerRead ==
    /\ Complete
    /\ read.kind # "snapshot"
    /\ read' = NoRead
    /\ UNCHANGED <<vars, run>>

\* persist_decision: the header holds what the snapshot read. A paused portfolio
\* is proposed nothing; any other may be.
Freeze(who, rs) ==
    /\ Complete
    /\ read.kind = "snapshot"
    /\ IF rs = {} THEN UNCHANGED vars
       ELSE /\ ~Paused(ReadEquity, read.peak)
            /\ \A r \in rs : Row[r].port = read.port
            /\ PersistDecision(who, rs)
    /\ run' = [port |-> read.port, equity |-> ReadEquity, peak |-> read.peak,
               paused |-> Paused(ReadEquity, read.peak), held |-> read.held]
    /\ read' = NoRead

\* A mutation commits; until the read is complete its equity is one the read
\* could have met.
Mutate ==
    /\ Next
    /\ \/ (read = NoRead \/ Complete) /\ UNCHANGED read
       \/ \E p \in Portfolio :
             /\ read # NoRead /\ ~Complete /\ read.port = p
             /\ read' = [read EXCEPT !.held = @ \cup {Equity(p)'}]
    /\ UNCHANGED run

ReadNext ==
    \/ Mutate
    \/ \E who \in Principal, p \in Portfolio, kind \in DOMAIN Statements : Begin(who, p, kind)
    \/ ReadCash
    \/ ReadOpen
    \/ ReadSettled
    \/ AnswerRead
    \/ \E who \in Principal, rs \in SUBSET Rec : Freeze(who, rs)

ReadSpec == ReadInit /\ [][ReadNext]_readVars

------------------------------------------------------------------------------
(* Properties *)

\* A read that no mutation of its portfolio overlapped balances, in whatever order
\* it took its statements: cash and reserved stake add up to the starting capital
\* and the realized profit, and the peak it found is not below that equity.
QuietReadBalances ==
    Complete /\ read.quiet =>
        /\ ReadEquity = StartingCapital + read.realized
        /\ read.peak >= ReadEquity

\* "recommendation_decision_runs freezes portfolio equity": the equity in the
\* header is one the portfolio had while it was being read.
FrozenEquityWasReal == run # NoRun => run.equity \in run.held
=============================================================================
