----------------------------- MODULE JsonImport ----------------------------
(***************************************************************************)
(* The import of the prototype's portfolio file into the relational ledger: *)
(* one transaction over all portfolios of the file, which is run again when *)
(* the file has grown and while the portfolios are in use.                  *)
(*                                                                         *)
(* A file maps portfolio names to a bankroll and a sequence of bets. The    *)
(* ledger of a portfolio is a set of entries with unique references; what   *)
(* the import writes is held in `pending` until it commits.                 *)
(***************************************************************************)
EXTENDS Integers, Sequences, FiniteSets, SequencesExt, FiniteSetsExt, Sums

CONSTANTS
    Owner, Portfolio,
    Files,          \* each a function from portfolios to [bankroll, bets]
    Starting,       \* the capital of a new portfolio
    LiveStake,      \* the stake of a bet placed through the application
    Unset,
    MaxImports,     \* bound: imports
    MaxLive         \* bound: changes through the application

VARIABLES
    owned,          \* owned[p]: the owner of a portfolio
    bets,           \* bets[id]: its portfolio, stake, result and payout
    ledger,         \* ledger[p]: its entries
    pending,        \* the import in progress
    imports, lives,
    imported        \* history: imported[p] is the last imported version of p

importVars == <<owned, bets, ledger, pending, imports, lives, imported>>

\* The identifier of a bet is unique over all portfolios.
LiveId == "live"
Ids == {LiveId} \cup UNION {UNION {{b.id : b \in Range(f[p].bets)} : p \in DOMAIN f} : f \in Files}

Results ==
    {Unset, "loss"} \cup UNION {UNION {{b.result : b \in Range(f[p].bets)} : p \in DOMAIN f} : f \in Files}

LegacyBet == [id : Ids, stake : Int, result : Results, payout : Int]
BetRow == [of : Portfolio, stake : Int, result : Results, payout : Int]

ASSUME ImportAssumption ==
    /\ Unset \notin Owner /\ Unset \notin BetRow /\ Unset # "loss"
    /\ Starting \in Int /\ LiveStake \in Int
    /\ \A f \in Files :
        /\ DOMAIN f \subseteq Portfolio /\ IsFiniteSet(DOMAIN f)
        /\ \A p \in DOMAIN f :
              f[p] # Unset /\ f[p].bankroll \in Int /\ f[p].bets \in Seq(LegacyBet)

CashOf(entries) == Total([e \in entries |-> e.amount], entries)

ImportInit ==
    /\ owned = [p \in Portfolio |-> Unset]
    /\ bets = [i \in Ids |-> Unset]
    /\ ledger = [p \in Portfolio |-> {}]
    /\ pending = Unset
    /\ imports = 0 /\ lives = 0
    /\ imported = [p \in Portfolio |-> Unset]

StakeEntry(id, stake) == [ref |-> <<"stake", id>>, amount |-> -stake]
SettlementEntry(id, amount) == [ref |-> <<"settlement", id>>, amount |-> amount]

\* The entries of a bet: its stake, and what its settlement brought.
EntriesOf(id, bet) ==
    {StakeEntry(id, bet.stake)}
        \cup (IF bet.result = Unset THEN {} ELSE {SettlementEntry(id, bet.stake + bet.payout)})

-----------------------------------------------------------------------------
(* Bets of the file that are imported: those with a stake, whose identifier *)
(* is new to the database and to this import. A bet that is there is left   *)
(* alone, even when the file has settled it since.                         *)

New(known, legacy, taken) ==
    {i \in DOMAIN legacy :
        /\ legacy[i].stake > 0
        /\ known[legacy[i].id] = Unset /\ legacy[i].id \notin taken
        /\ \A j \in 1..(i - 1) : legacy[j].stake > 0 => legacy[j].id # legacy[i].id}

BetEntries(legacy, new) ==
    UNION {EntriesOf(legacy[i].id, legacy[i]) : i \in new}

Reconciliation == <<"reconciliation">>

\* What is missing to the file's bankroll, once for each portfolio.
\* Mutant: an adjustment that is there is not looked for.
AdjustmentAlways(entries, added, bankroll) ==
    LET difference == bankroll - CashOf(entries \cup added) IN
    IF difference = 0 THEN {} ELSE {[ref |-> Reconciliation, amount |-> difference]}

Adjustment(entries, added, bankroll) ==
    LET difference == bankroll - CashOf(entries \cup added) IN
    IF difference = 0 \/ \E e \in entries : e.ref = Reconciliation THEN {}
    ELSE {[ref |-> Reconciliation, amount |-> difference]}

\* The rows the import adds for one portfolio.
BetRows(p, version, taken) ==
    LET new == New(bets, version.bets, taken)
        funding == IF owned[p] = Unset THEN {[ref |-> <<"funding">>, amount |-> Starting]} ELSE {}
        added == funding \cup BetEntries(version.bets, new)
    IN  [ids |-> {version.bets[i].id : i \in new},
         bets |-> {version.bets[i] : i \in new},
         entries |-> added \cup Adjustment(ledger[p], added, version.bankroll)]

Accepts(owner, file) == \A p \in DOMAIN file : owned[p] \in {Unset, owner}

\* The file's portfolios in the order of the file; identifiers a previous one
\* took are not free any more.
ReadFile(owner, file, order) ==
    LET Taken(k) == UNION {{b.id : b \in {c \in Range(file[order[j]].bets) : c.stake > 0}}
                             : j \in 1..(k - 1)}
    IN  /\ pending = Unset
        /\ imports < MaxImports
        /\ imports' = imports + 1
        /\ IF Accepts(owner, file)
           THEN pending' = [owner |-> owner, file |-> file,
                            rows |-> [p \in DOMAIN file |->
                                LET k == CHOOSE j \in DOMAIN order : order[j] = p
                                IN  BetRows(p, file[p], Taken(k))]]
           ELSE UNCHANGED pending
        /\ UNCHANGED <<owned, bets, ledger, lives, imported>>

StartImport(owner, file) ==
    \E order \in SetToSeqs(DOMAIN file) : ReadFile(owner, file, order)

Refs(entries) == {e.ref : e \in entries}

\* A row that another transaction has inserted meanwhile fails the whole import.
Conflicts ==
    \E p \in DOMAIN pending.rows :
        \/ Refs(pending.rows[p].entries) \cap Refs(ledger[p]) # {}
        \/ \E i \in pending.rows[p].ids : bets[i] # Unset

CommitImport ==
    LET Of(i) == {p \in DOMAIN pending.rows : i \in pending.rows[p].ids}
        Row(i) == LET p == CHOOSE q \in Of(i) : TRUE
                      b == CHOOSE c \in pending.rows[p].bets : c.id = i
                  IN  [of |-> p, stake |-> b.stake, result |-> b.result, payout |-> b.payout]
    IN  /\ pending # Unset
        /\ IF Conflicts THEN UNCHANGED <<owned, bets, ledger, imported>>
           ELSE /\ owned' = [p \in Portfolio |-> IF p \in DOMAIN pending.rows THEN pending.owner
                                                 ELSE owned[p]]
                /\ bets' = [i \in Ids |-> IF Of(i) # {} THEN Row(i) ELSE bets[i]]
                /\ ledger' = [p \in Portfolio |->
                                IF p \in DOMAIN pending.rows
                                THEN ledger[p] \cup pending.rows[p].entries ELSE ledger[p]]
                /\ imported' = [p \in Portfolio |->
                                IF p \in DOMAIN pending.rows THEN pending.file[p] ELSE imported[p]]
        /\ pending' = Unset
        /\ UNCHANGED <<imports, lives>>

\* The process stops: nothing of the import remains.
StopImport ==
    /\ pending # Unset
    /\ pending' = Unset
    /\ UNCHANGED <<owned, bets, ledger, imports, lives, imported>>

-----------------------------------------------------------------------------
(* The application, while imports run: it opens a portfolio, places a bet   *)
(* and settles open ones, imported bets as well.                           *)

Live(change) == lives < MaxLive /\ lives' = lives + 1 /\ change
                  /\ UNCHANGED <<pending, imports, imported>>

OpenPortfolio(owner, p) ==
    /\ owned[p] = Unset
    /\ Live(/\ owned' = [owned EXCEPT ![p] = owner]
            /\ ledger' = [ledger EXCEPT ![p] = {[ref |-> <<"funding">>, amount |-> Starting]}]
            /\ UNCHANGED bets)

PlaceLive(p) ==
    /\ owned[p] # Unset /\ bets[LiveId] = Unset
    /\ CashOf(ledger[p]) >= LiveStake
    /\ Live(/\ bets' = [bets EXCEPT ![LiveId] = [of |-> p, stake |-> LiveStake, result |-> Unset,
                                                 payout |-> 0]]
            /\ ledger' = [ledger EXCEPT ![p] = @ \cup {StakeEntry(LiveId, LiveStake)}]
            /\ UNCHANGED owned)

SettleLive(i) ==
    /\ bets[i] # Unset /\ bets[i].result = Unset
    /\ Live(/\ bets' = [bets EXCEPT ![i].result = "loss", ![i].payout = -bets[i].stake]
            /\ ledger' = [ledger EXCEPT ![bets[i].of] = @ \cup {SettlementEntry(i, 0)}]
            /\ UNCHANGED owned)

ImportNext ==
    \/ \E owner \in Owner, file \in Files : StartImport(owner, file)
    \/ CommitImport
    \/ StopImport
    \/ \E owner \in Owner, p \in Portfolio : OpenPortfolio(owner, p)
    \/ \E p \in Portfolio : PlaceLive(p)
    \/ \E i \in Ids : SettleLive(i)

ImportSpec == ImportInit /\ [][ImportNext]_importVars

-----------------------------------------------------------------------------
(* The ledger and the bets tell one story after any imports and live        *)
(* changes: each bet has its stake entry, a settled one its settlement, and  *)
(* no entry is of another bet or written twice.                             *)
LedgerTellsBets ==
    \A p \in Portfolio :
        /\ Cardinality(Refs(ledger[p])) = Cardinality(ledger[p])
        /\ {e \in ledger[p] : e.ref[1] \in {"stake", "settlement"}}
             = UNION {EntriesOf(i, bets[i]) : i \in {j \in Ids : bets[j] # Unset /\ bets[j].of = p}}

(* An import that opens a portfolio leaves it with the cash of the file, to  *)
(* the cent, whatever bets of the file were passed over.                    *)
FirstImportReconciles ==
    [][\A p \in Portfolio :
          imported[p] = Unset /\ imported'[p] # Unset /\ owned[p] = Unset
            => CashOf(ledger'[p]) = imported'[p].bankroll]_importVars

(* An import writes all its portfolios or none, and never into a portfolio  *)
(* of another owner.                                                       *)
OwnersKeepTheirs ==
    [][\A p \in Portfolio : owned[p] # Unset =>
          /\ owned'[p] = owned[p]
          /\ imported'[p] # imported[p] => pending.owner = owned[p]]_importVars

(* Imports can be repeated: while nothing but imports writes, none runs into *)
(* a row that is there already, and one of a file that was imported before   *)
(* adds nothing.                                                           *)
RepeatIsQuiet ==
    pending # Unset /\ lives = 0 =>
        /\ ~Conflicts
        /\ \A p \in DOMAIN pending.rows :
              imported[p] = pending.file[p] => pending.rows[p].entries = {}

(* Imports are sound: ledger and bets tell one story, a first import         *)
(* reconciles, a repeated one adds nothing, and owners keep their portfolios. *)
ImportSound == [](LedgerTellsBets /\ RepeatIsQuiet) /\ FirstImportReconciles /\ OwnersKeepTheirs

(* The same, also when the portfolio was used in between. The code fails    *)
(* it: when the first import found nothing to reconcile, the next one takes *)
(* the live bets for a difference and writes them away.                     *)
RepeatKeepsLiveCash ==
    [][\A p \in Portfolio :
          pending # Unset /\ imported[p] # Unset /\ p \in DOMAIN pending.file
            /\ imported[p] = pending.file[p] /\ pending' = Unset
          => ledger'[p] = ledger[p]]_importVars
=============================================================================
