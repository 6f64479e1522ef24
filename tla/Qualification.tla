---------------------------- MODULE Qualification ----------------------------
(* The gates an opportunity passes on its way to the board: evaluate_candidate    *)
(* calls it CORE, OPPORTUNISTIC or rejected, and build_watchlist picks the near     *)
(* misses of the rejected. The opportunity is followed while the market moves in   *)
(* the bettor's favour, one quantity at a time. Chances are whole percents,        *)
(* thresholds and distances thousandths.                                        *)
EXTENDS Consensus

CONSTANTS
    FirstQuotes,    \* [win, push, loss, odds, books, dispersion, age, warned, uncertainty]
    Chance, Odds, Spread, Age,   \* the values a quote moves through
    MostBooks,
    GateEdge, GateEv, GateDispersion, GateBooks, GateAge, LongestOdds,
    CoreEdge, CoreEv,
    Unknown         \* a dispersion nobody could compute

VARIABLE quote

Quote == [win : Nat, push : Nat, loss : Nat, odds : {o \in Int : Magnitude(o) >= 100},
          books : Nat, dispersion : Nat \cup {Unknown}, age : Int, warned : BOOLEAN,
          uncertainty : {"low", "moderate", "high"}]

\* The gates are those a policy may have; a gate of no dispersion leaves no distance to it.
ASSUME QualificationAssumption ==
    /\ GateEdge \in Nat /\ GateEv \in Nat /\ CoreEdge \in Nat /\ CoreEv \in Nat /\ LongestOdds \in Int
    /\ GateDispersion \in Nat \ {0} /\ GateBooks \in Nat \ {0} /\ GateAge \in Nat \ {0}
    /\ Unknown \notin Nat /\ Age \subseteq Nat /\ Spread \subseteq Nat /\ Chance \subseteq Nat
    /\ \A o \in Odds : o \in Int /\ Magnitude(o) >= 100
    /\ FirstQuotes \subseteq Quote

------------------------------------------------------------------------------
(* evaluate_candidate *)

EdgeAtLeast(q, threshold) ==
    LET edge == Edge(q, DecimalOdds(q.odds)) IN edge[1] * 1000 >= threshold * edge[2]

EvOf(q) == Value(q, DecimalOdds(q.odds)) \div 10

Rejections(q) ==
    (IF q.books < GateBooks THEN {"books"} ELSE {})
    \cup (IF q.dispersion = Unknown THEN {"dispersion"}
          ELSE IF q.dispersion > GateDispersion THEN {"dispersion"} ELSE {})
    \cup (IF q.age < 0 \/ q.age > GateAge THEN {"age"} ELSE {})
    \cup (IF q.warned THEN {"warning"} ELSE {})
    \cup (IF EdgeAtLeast(q, GateEdge) THEN {} ELSE {"edge"})
    \cup (IF EvOf(q) < GateEv THEN {"ev"} ELSE {})
    \cup (IF q.odds > LongestOdds THEN {"longshot"} ELSE {})

Class(q) ==
    IF Rejections(q) # {} THEN "rejected"
    ELSE IF EvOf(q) >= CoreEv /\ EdgeAtLeast(q, CoreEdge) /\ q.uncertainty # "high" THEN "CORE"
    ELSE "OPPORTUNISTIC"

------------------------------------------------------------------------------
(* build_watchlist *)

Shortfall(value, threshold) ==
    IF threshold > 0 THEN Max({0, (1000 * (threshold - value)) \div threshold}) ELSE 0

\* The edge in thousandths.
EdgeOf(q) == LET edge == Edge(q, DecimalOdds(q.odds)) IN (1000 * edge[1]) \div edge[2]

Distance(q, reason) ==
    CASE reason = "ev" -> Shortfall(EvOf(q), GateEv)
      [] reason = "edge" -> Shortfall(EdgeOf(q), GateEdge)
      [] reason = "books" -> (1000 * (GateBooks - q.books)) \div GateBooks
      [] reason = "dispersion" ->
            IF q.dispersion = Unknown THEN 1000
            ELSE (1000 * (q.dispersion - GateDispersion)) \div GateDispersion
      [] reason = "age" -> (1000 * Magnitude(q.age - GateAge)) \div GateAge
      [] reason = "warning" -> 1000

\* Mutant: the near misses of one gate are left to the board.
NearMissOfTwo(q) ==
    LET failed == Rejections(q) IN
    /\ Cardinality(failed) = 2 /\ "longshot" \notin failed
    /\ EdgeOf(q) > 0 /\ EvOf(q) > 0
    /\ \A reason \in failed : Distance(q, reason) <= 500
    /\ Total([reason \in failed |-> Distance(q, reason)], failed) <= 750

\* At most two gates failed, none of them the odds profile, each by half at most, by
\* three quarters in all, and worth something still.
NearMiss(q) ==
    LET failed == Rejections(q) IN
    /\ Cardinality(failed) \in {1, 2} /\ "longshot" \notin failed
    /\ EdgeOf(q) > 0 /\ EvOf(q) > 0
    /\ \A reason \in failed : Distance(q, reason) <= 500
    /\ Total([reason \in failed |-> Distance(q, reason)], failed) <= 750

------------------------------------------------------------------------------
(* The market moves the bettor's way, the main board's odds profile permitting.   *)

QualificationInit == quote \in FirstQuotes

Becomes(field, value) == quote' = [quote EXCEPT ![field] = value]

AnotherBook == quote.books < MostBooks /\ Becomes("books", quote.books + 1)

BooksAgreeMore ==
    \E d \in Spread :
        /\ IF quote.dispersion = Unknown THEN TRUE ELSE d < quote.dispersion
        /\ Becomes("dispersion", d)

NewerPrices == \E a \in Age : a < quote.age /\ Becomes("age", a)

WarningLifted == quote.warned /\ Becomes("warned", FALSE)

LessUncertain == quote.uncertainty = "high" /\ Becomes("uncertainty", "low")

LikelierToWin ==
    \E c \in Chance :
        /\ c <= quote.loss
        /\ quote' = [quote EXCEPT !.win = @ + c, !.loss = @ - c]

BetterPrice ==
    \E o \in Odds :
        /\ DecimalOdds(o) > DecimalOdds(quote.odds) /\ o <= LongestOdds
        /\ Becomes("odds", o)

QualificationNext ==
    \/ AnotherBook
    \/ BooksAgreeMore
    \/ NewerPrices
    \/ WarningLifted
    \/ LessUncertain
    \/ LikelierToWin
    \/ BetterPrice

QualificationSpec == QualificationInit /\ [][QualificationNext]_quote

------------------------------------------------------------------------------
Rank(q) ==
    CASE Class(q) = "CORE" -> 3
      [] Class(q) = "OPPORTUNISTIC" -> 2
      [] OTHER -> IF NearMiss(q) THEN 1 ELSE 0

(* What improves in every respect the gates know of never falls in class, and a   *)
(* near miss that improves stays on the watchlist until it leaves it for the board. *)
BetterIsNeverWorse == [][Rank(quote') >= Rank(quote)]_quote
=============================================================================
