------------------------------- MODULE Account -------------------------------
(* What a paper portfolio promises about money, without bets, ledgers, keys or *)
(* recommendations: capital arrives once, a stake is set aside only from cash  *)
(* that is there, and a release returns the stake with its profit or loss. The *)
(* ledger of PortfolioLedger implements this contract for all portfolios.      *)
EXTENDS Integers

CONSTANTS
    Portfolio, StartingCapital,
    Stake,      \* amounts that may be staked
    Profit      \* profits, losses and zero that a settlement may bring

VARIABLES
    funded,     \* the portfolios that received their starting capital
    cash,       \* per portfolio, money that may be staked
    reserved,   \* per portfolio, money tied up in open bets
    realized    \* per portfolio, profit and loss of everything settled

vars == <<funded, cash, reserved, realized>>

TypeOK ==
    /\ funded \subseteq Portfolio
    /\ cash \in [Portfolio -> Int]
    /\ reserved \in [Portfolio -> Int]
    /\ realized \in [Portfolio -> Int]

Init ==
    /\ funded = {}
    /\ cash = [p \in Portfolio |-> 0]
    /\ reserved = [p \in Portfolio |-> 0]
    /\ realized = [p \in Portfolio |-> 0]

Available(p) == IF p \in funded THEN cash[p] ELSE StartingCapital

Fund(p) ==
    /\ p \notin funded
    /\ funded' = funded \cup {p}
    /\ cash' = [cash EXCEPT ![p] = StartingCapital]
    /\ UNCHANGED <<reserved, realized>>

\* A first stake may fund the portfolio in the same step.
Reserve(p, stake) ==
    /\ stake > 0
    /\ stake <= Available(p)
    /\ funded' = funded \cup {p}
    /\ cash' = [cash EXCEPT ![p] = Available(p) - stake]
    /\ reserved' = [reserved EXCEPT ![p] = @ + stake]
    /\ UNCHANGED realized

\* A bet never loses more than its stake.
Release(p, stake, pnl) ==
    /\ p \in funded
    /\ stake > 0
    /\ stake <= reserved[p]
    /\ pnl >= -stake
    /\ cash' = [cash EXCEPT ![p] = @ + stake + pnl]
    /\ reserved' = [reserved EXCEPT ![p] = @ - stake]
    /\ realized' = [realized EXCEPT ![p] = @ + pnl]
    /\ UNCHANGED funded

Next ==
    \E p \in Portfolio :
        \/ Fund(p)
        \/ \E stake \in Stake : Reserve(p, stake)
        \/ \E stake \in Stake, pnl \in Profit : Release(p, stake, pnl)

Spec == Init /\ [][Next]_vars

------------------------------------------------------------------------------
\* Money is neither made nor lost outside a settlement, and no portfolio ever
\* owes money: the accounting identity of the portfolio, history and stats views.
Conserved ==
    \A p \in Portfolio :
        /\ cash[p] >= 0
        /\ reserved[p] >= 0
        /\ p \in funded => cash[p] + reserved[p] = StartingCapital + realized[p]
        /\ p \notin funded => cash[p] = 0 /\ reserved[p] = 0 /\ realized[p] = 0
=============================================================================
