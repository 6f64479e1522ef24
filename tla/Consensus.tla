------------------------------ MODULE Consensus ------------------------------
(* One pricing run over the stored lines of one market of one game: what was    *)
(* known by the cutoff, each book's newest state, the lines still eligible, the  *)
(* two sides paired, one main line for each book, and for each side the best     *)
(* price against the chance all books give it (build_pricing_analysis).          *)
(*                                                                            *)
(* A line is a record [book, active, matched, snap, requested, observed,         *)
(* ingested, side, point, odds]; books and snapshots are numbers, in the order    *)
(* of their keys.                                                              *)
EXTENDS MarketCurve

CONSTANTS
    Boards,         \* sets of stored lines, each with its market: [market, lines]
    Cutoff, KickOff,
    SupportedBook,
    StaleAfter, MaxQuoteAge,
    MinBooks, MinEdge, MinEv, MaxDispersion, OutlierThreshold,   \* in Quantum-ths
    Pointless,      \* the point of a moneyline
    NoBoard

VARIABLES
    board,          \* the board priced last
    candidates      \* what the run returned for it

consensusVars == <<board, candidates>>

\* The lines of a board are finitely many, with american odds; what a book stored in one
\* snapshot of a market has the times of that snapshot. A center needs two books.
ASSUME BoardAssumption ==
    /\ Pointless \notin Int /\ MinBooks \in Nat /\ MinBooks >= 2
    /\ \A b \in Boards :
          /\ b.market \in {"moneyline", "spread", "total"} /\ IsFiniteSet(b.lines)
          /\ \A x \in b.lines :
                /\ x.book \in Int /\ x.snap \in Int
                /\ x.requested \in Int /\ x.observed \in Int /\ x.ingested \in Int
                /\ x.odds \in Int /\ Magnitude(x.odds) >= 100
                /\ x.point = Pointless \/ x.point \in Int
          /\ \A x, y \in b.lines : x.book = y.book /\ x.snap = y.snap =>
                <<x.requested, x.observed, x.ingested>> = <<y.requested, y.observed, y.ingested>>

------------------------------------------------------------------------------
(* Which lines are used *)

KnownBy(x) == x.observed <= Cutoff /\ x.requested <= Cutoff /\ x.ingested <= Cutoff

NewerLine(x, y) ==
    \/ x.requested > y.requested
    \/ x.requested = y.requested /\ x.observed > y.observed
    \/ x.requested = y.requested /\ x.observed = y.observed /\ x.ingested > y.ingested
    \/ x.requested = y.requested /\ x.observed = y.observed /\ x.ingested = y.ingested
         /\ x.snap > y.snap

\* Mutant: the newest line of each side.
LatestOfSide(lines) ==
    {x \in lines : ~ \E y \in lines : y.book = x.book /\ y.side = x.side /\ NewerLine(y, x)}

\* The whole snapshot of a book's newest line, and nothing of its older ones.
LatestStates(lines) ==
    {x \in lines : \E top \in lines :
        /\ top.book = x.book /\ top.snap = x.snap
        /\ ~ \E y \in lines : y.book = top.book /\ NewerLine(y, top)}

EligibleLine(x) ==
    /\ x.book \in SupportedBook /\ x.active /\ x.matched
    /\ KickOff > Cutoff
    /\ Max({0, Cutoff - x.requested}) <= StaleAfter
    /\ Max({0, x.requested - x.observed}) <= MaxQuoteAge

------------------------------------------------------------------------------
(* Pairs *)

WellFormed(market, x) ==
    x.side \in Range(Sides(market)) /\ (market = "moneyline" <=> x.point = Pointless)

\* The line a price is on, seen from the first side.
LineOf(market, x) == IF market = "spread" /\ x.side = "away" THEN -x.point ELSE x.point

\* Two lines of a book, one for each side, are taken together whatever their points;
\* otherwise those on the same line.
LineGroups(market, lines) ==
    IF Cardinality(lines) = 2 /\ {x.side : x \in lines} = Range(Sides(market))
         /\ \A x \in lines : WellFormed(market, x)
    THEN {lines}
    ELSE LET keyed == {x \in lines : market = "moneyline" <=> x.point = Pointless}
         IN  {{y \in keyed : LineOf(market, y) = LineOf(market, x)} : x \in keyed}

Fit(market, pair) ==
    /\ Cardinality(pair) = 2 /\ {x.side : x \in pair} = Range(Sides(market))
    /\ \A x, y \in pair : LineOf(market, x) = LineOf(market, y)

On(pair, side) == CHOOSE x \in pair : x.side = side

PriceOf(x) == DecimalOdds(x.odds)

PairOf(market, pair) ==
    LET first == On(pair, Sides(market)[1])  second == On(pair, Sides(market)[2])
    IN  [book |-> first.book, lines |-> pair, line |-> LineOf(market, first),
         probability |-> NoVig(PriceOf(first), PriceOf(second)),
         over |-> Overround(PriceOf(first), PriceOf(second))]

PairsOf(market, lines) ==
    UNION {{PairOf(market, g) : g \in {h \in LineGroups(market, {x \in lines : x.book = b}) :
                                          Fit(market, h)}}
           : b \in {x.book : x \in lines}}

ReferencePoint(market, pair) ==
    CASE market = "moneyline" -> 0
      [] market = "spread" -> -pair.line
      [] market = "total" -> pair.line

Nearer(market, p, q, doubleReference) ==
    LET Distance(r) == Magnitude(2 * ReferencePoint(market, r) - doubleReference) IN
    \/ Distance(p) < Distance(q)
    \/ Distance(p) = Distance(q) /\ Magnitude(p.over) < Magnitude(q.over)
    \/ Distance(p) = Distance(q) /\ Magnitude(p.over) = Magnitude(q.over)
         /\ (p.line = q.line \/ p.line < q.line)

\* One pair of each book: the nearest to the median of all lines on offer.
MainPairs(market, pairs) ==
    LET reference == DoubleMedian([p \in pairs |-> ReferencePoint(market, p)])
    IN  {p \in pairs : \A q \in pairs : q.book = p.book => Nearer(market, p, q, reference)}

------------------------------------------------------------------------------
(* The two candidates of a market with enough books. Chances are integers out   *)
(* of their sum; the edge is a fraction <<numerator, denominator>>.             *)

\* What a side is worth in the eyes of all books: of a moneyline twice the median
\* probability, of a line the curve around the market's center.
Fair(market, main, side, point, center) ==
    IF market = "moneyline"
    THEN LET index == IF side = "home" THEN 1 ELSE 2
             twice == DoubleMedian([p \in main |-> p.probability[index]])
         IN  [win |-> twice, push |-> 0, loss |-> 2 * Quantum - twice]
    ELSE Settlement(market, center, point, side)

Edge(fair, decimal) ==
    LET resolved == fair.win + fair.loss
    IN  IF resolved = 0 THEN <<-100, decimal>>
        ELSE <<fair.win * decimal - 100 * resolved, resolved * decimal>>

\* A hundred times the expected value of the sum of the chances.
Value(fair, decimal) == fair.win * (decimal - 100) - fair.loss * 100

BookCenters(market, main) ==
    [b \in {p.book : p \in main} |->
        LET p == CHOOSE q \in main : q.book = b
        IN  InferCenter(market, On(p.lines, Sides(market)[1]).point, p.probability[1])]

\* Moneylines are compared by price, lines by value, then edge, then price.
Preferred(market, main, side, center, x, y) ==
    LET fx == Fair(market, main, side, x.point, center)
        fy == Fair(market, main, side, y.point, center)
        vx == Value(fx, PriceOf(x))  vy == Value(fy, PriceOf(y))
        ex == Edge(fx, PriceOf(x))   ey == Edge(fy, PriceOf(y))
        byPrice == PriceOf(x) > PriceOf(y) \/ (PriceOf(x) = PriceOf(y) /\ x.book >= y.book)
    IN  IF market = "moneyline" THEN byPrice
        ELSE \/ vx > vy
             \/ vx = vy /\ ex[1] * ey[2] > ey[1] * ex[2]
             \/ vx = vy /\ ex[1] * ey[2] = ey[1] * ex[2] /\ byPrice

\* The chance of the best line as each book sees it.
BookView(market, p, side, point, centers) ==
    IF market = "moneyline" THEN p.probability[IF side = "home" THEN 1 ELSE 2]
    ELSE ConditionalWin(Settlement(market, centers[p.book], point, side))

\* All books on one line, and those that are far from what they say together.
Views(market, main, side, point, centers) ==
    [b \in {p.book : p \in main} |->
        BookView(market, CHOOSE q \in main : q.book = b, side, point, centers)]

Outliers(views, doubleFair) ==
    {b \in DOMAIN views : Magnitude(2 * views[b] - doubleFair) > 2 * OutlierThreshold}

Assessed(market, main, side, centers, weights, center) ==
    LET offers == {On(p.lines, side) : p \in main}
        best == CHOOSE x \in offers : \A y \in offers : Preferred(market, main, side, center, x, y)
        fair == Fair(market, main, side, best.point, center)
        view == Views(market, main, side, best.point, centers)
        dispersion == Max(Range(view)) - Min(Range(view))
        doubleFair == IF market = "moneyline" THEN fair.win ELSE 2 * ConditionalWin(fair)
        edge == Edge(fair, PriceOf(best))
        value == Value(fair, PriceOf(best))
    IN  [side |-> side, best |-> best, fair |-> fair, edge |-> edge, value |-> value,
         center |-> center, centers |-> centers, weights |-> weights, main |-> main,
         outliers |-> Outliers(view, doubleFair),
         failures |->
            (IF dispersion > MaxDispersion THEN {"excessive_consensus_dispersion"} ELSE {})
            \cup (IF edge[1] * Quantum < MinEdge * edge[2] THEN {"below_minimum_edge"} ELSE {})
            \cup (IF value * (Quantum \div 100) < MinEv * (fair.win + fair.push + fair.loss)
                  THEN {"below_minimum_ev"} ELSE {})]

CandidatesOf(market, lines) ==
    LET used == {x \in LatestStates({y \in lines : KnownBy(y)}) : EligibleLine(x)}
        chosen == MainPairs(market, PairsOf(market, used))
        books == {p.book : p \in chosen}
        weights == [b \in books |-> OverroundWeight((CHOOSE q \in chosen : q.book = b).over)]
        centers == IF market = "moneyline" THEN [b \in books |-> 0] ELSE BookCenters(market, chosen)
        center == IF market = "moneyline" THEN 0 ELSE MarketCenter(centers, weights)
    IN  IF Cardinality(chosen) < MinBooks THEN {}
        ELSE {Assessed(market, chosen, side, centers, weights, center) : side \in Range(Sides(market))}

------------------------------------------------------------------------------
ConsensusInit == board = NoBoard /\ candidates = {}

Analyze(b) ==
    /\ board = NoBoard
    /\ board' = b
    /\ candidates' = CandidatesOf(b.market, b.lines)

ConsensusNext == \E b \in Boards : Analyze(b)

ConsensusSpec == ConsensusInit /\ [][ConsensusNext]_consensusVars

------------------------------------------------------------------------------
(* A price that its book has replaced or withdrawn by the cutoff is not offered, *)
(* and does not vouch for another one.                                         *)
OfferedStill ==
    \A c \in candidates : \A p \in c.main : \A x \in board.lines :
        x.book = p.book /\ KnownBy(x) =>
            \A y \in p.lines : ~NewerLine(x, y) \/ x.snap = y.snap

(* The expected value and the edge never disagree about which side of zero a     *)
(* bet is on, with and without pushes: the gates on the two cannot contradict.   *)
EdgeAndValueAgree ==
    \A c \in candidates : c.edge[1] > 0 <=> c.value > 0

(* Both sides of one line are worth betting only where the best prices of the     *)
(* books leave a sure profit: the consensus itself never takes both sides.        *)
BothSidesPayOnlyInArbitrage ==
    \A c, d \in candidates :
        /\ c.side # d.side /\ c.value > 0 /\ d.value > 0
        /\ LineOf(board.market, c.best) = LineOf(board.market, d.best)
        => (PriceOf(c.best) + PriceOf(d.best)) * 100 < PriceOf(c.best) * PriceOf(d.best)

(* Values are consistent: edge and expected value agree about a price, and the      *)
(* two sides of a line about each other.                                           *)
ValueConsistent == EdgeAndValueAgree /\ BothSidesPayOnlyInArbitrage

(* A line that every book offers is the line used of every book, as long as      *)
(* there are fewer other lines on the board than books.                         *)
AgreedLineUsed ==
    \A c \in candidates :
        LET used == {x \in LatestStates({y \in board.lines : KnownBy(y)}) : EligibleLine(x)}
            pairs == PairsOf(board.market, used)
            agreed == {p.line : p \in {q \in pairs : \A b \in {r.book : r \in pairs} :
                                          \E r \in pairs : r.book = b /\ r.line = q.line}}
        IN  \A line \in agreed :
              Cardinality({p \in pairs : p.line # line}) < Cardinality({p.book : p \in pairs})
                => \A p \in c.main : p.line = line

(* Where most books, by number and by weight, put the center in one place, the   *)
(* others move it by half a point at most.                                     *)
MajorityHoldsTheCenter ==
    \A c \in candidates :
        LET books == DOMAIN c.centers
            At(v) == {b \in books : c.centers[b] = v}
        IN  \A v \in Range(c.centers) :
              2 * Cardinality(At(v)) > Cardinality(books)
                /\ 2 * Total(c.weights, At(v)) > Total(c.weights, books)
                => 2 * Magnitude(c.center - v) <= Grid

(* The center found for a book prices its line as the book does: it is the first *)
(* one at which the line is worth the book's price.                            *)
CentersReproducePrices ==
    \A p \in UNION {c.main : c \in {d \in candidates : board.market # "moneyline"}} :
        LET point == On(p.lines, Sides(board.market)[1]).point
            base == IF board.market = "spread" THEN -point ELSE point
            center == (CHOOSE c \in candidates : TRUE).centers[p.book]
        IN  \A m \in (base - Reach + 1)..(base + Reach - 1) :
                Below(board.market, m, point, p.probability[1]) <=> m < center

(* The center of a market is its books': of the line they agree on, where most of *)
(* them put it, and such that it prices their lines as they do.                  *)
CenterIsTheBooks == AgreedLineUsed /\ MajorityHoldsTheCenter /\ CentersReproducePrices
=============================================================================
