----------------------------- MODULE MarketCurve -----------------------------
(* What one price means, and what the books mean together: odds, the removal of *)
(* the vig, the empirical curve that turns a market center into the chance of a *)
(* line, the center a book's price implies, and the robust center of all books.  *)
(* Prices are decimal odds in hundredths, probabilities whole Quantum-ths, points *)
(* and centers whole Grid-ths of a point.                                        *)
EXTENDS Integers, FiniteSets, Functions, FiniteSetsExt, Sums

CONSTANTS
    Quantum,        \* the resolution of a probability (the code's is 10^12)
    Grid,           \* the resolution of a point
    Histogram,      \* Histogram[market]: how often each residual was seen
    Reach           \* bound: how far the center is sought on each side of the line

\* A curve counts finitely many residuals, each seen at least once.
ASSUME CurveAssumption ==
    /\ Quantum \in Nat \ {0} /\ Grid \in Nat \ {0} /\ Reach \in Nat \ {0}
    /\ \A market \in {"spread", "total"} :
          /\ IsFiniteSet(DOMAIN Histogram[market]) /\ DOMAIN Histogram[market] \subseteq Int
          /\ \A r \in DOMAIN Histogram[market] : Histogram[market][r] \in Nat \ {0}

Sides(market) == IF market = "total" THEN <<"over", "under">> ELSE <<"home", "away">>

Opposite(market, side) == IF side = Sides(market)[1] THEN Sides(market)[2] ELSE Sides(market)[1]

RoundHalfEven(n, d) ==
    LET q == n \div d  r == n % d IN
    IF 2 * r > d \/ (2 * r = d /\ q % 2 = 1) THEN q + 1 ELSE q

Magnitude(n) == IF n < 0 THEN -n ELSE n

Sign(n) == IF n > 0 THEN 1 ELSE IF n = 0 THEN 0 ELSE -1

DecimalOdds(american) ==
    IF american > 0 THEN 100 + american ELSE 100 + 10000 \div (-american)

\* The two probabilities of a pair, proportional to 1/d1 and 1/d2: the last takes
\* what rounding leaves.
NoVig(d1, d2) ==
    LET first == RoundHalfEven(Quantum * d2, d1 + d2) IN <<first, Quantum - first>>

Overround(d1, d2) == RoundHalfEven(Quantum * ((d1 + d2) * 100 - d1 * d2), d1 * d2)

------------------------------------------------------------------------------
(* The empirical curve *)

Margin(market, side, outcome, point) ==
    CASE side = "home" -> outcome + point
      [] side = "away" -> -outcome + point
      [] side = "over" -> outcome - point
      [] side = "under" -> point - outcome

\* Each residual puts its weight on the two whole scores around center + residual.
OfResidual(market, center, point, side, sign, r) ==
    LET lower == (center + r) \div Grid
        upperWeight == (center + r) % Grid
        Ends(score) == Sign(Margin(market, side, score * Grid, point)) = sign
    IN  (IF Ends(lower) THEN Grid - upperWeight ELSE 0)
          + (IF Ends(lower + 1) THEN upperWeight ELSE 0)

Mass(market, center, point, side, sign) ==
    LET hist == Histogram[market]
    IN  Total([r \in DOMAIN hist |-> hist[r] * OfResidual(market, center, point, side, sign, r)],
              DOMAIN hist)

Settlement(market, center, point, side) ==
    [win  |-> Mass(market, center, point, side, 1),
     push |-> Mass(market, center, point, side, 0),
     loss |-> Mass(market, center, point, side, -1)]

\* A chance given that the bet is not a push.
ConditionalWin(s) ==
    IF s.win + s.loss = 0 THEN 0 ELSE RoundHalfEven(Quantum * s.win, s.win + s.loss)

Below(market, center, point, target) ==
    LET s == Settlement(market, center, point, Sides(market)[1])
    IN  IF s.win + s.loss = 0 THEN 0 < target ELSE s.win * Quantum < target * (s.win + s.loss)

\* One round of the search for the center at which the line is worth the book's price.
Halve(market, point, target, between) ==
    LET lower == between[1]  upper == between[2]  midpoint == (lower + upper) \div 2 IN
    IF upper - lower <= 1 THEN between
    ELSE IF Below(market, midpoint, point, target) THEN <<midpoint, upper>>
    ELSE <<lower, midpoint>>

\* The bisection: where the center lies after some rounds.
Bisect(market, point, target, base) ==
    LET after[n \in 0 .. 2 * Reach] ==
          IF n = 0 THEN <<base - Reach, base + Reach>>
          ELSE Halve(market, point, target, after[n - 1])
    IN  after

InferCenter(market, point, target) ==
    LET base == IF market = "spread" THEN -point ELSE point
    IN  Bisect(market, point, target, base)[2 * Reach][2]

------------------------------------------------------------------------------
(* The robust center. Medians are doubled: twice the median of `value`, a       *)
(* function from what is counted to its value.                                *)

\* Mutant: of an even number the upper one is taken.
UpperMedian(value) ==
    2 * Max({v \in Range(value) :
                2 * Cardinality({i \in DOMAIN value : value[i] >= v}) >= Cardinality(DOMAIN value)})

DoubleMedian(value) ==
    LET n == Cardinality(DOMAIN value)
        AtMost(v) == Cardinality({i \in DOMAIN value : value[i] <= v})
        AtLeast(v) == Cardinality({i \in DOMAIN value : value[i] >= v})
    IN  Min({v \in Range(value) : 2 * AtMost(v) >= n}) + Max({v \in Range(value) : 2 * AtLeast(v) >= n})

\* Between a half and two, in thousandths: the tighter the book, the heavier.
OverroundWeight(overround) ==
    LET floor == (Quantum + 49) \div 50
        raw == (40 * Quantum) \div Max({overround, floor})
    IN  Min({2000, Max({500, raw})})

WeightedMedian(center, weight) ==
    LET UpTo(v) == {b \in DOMAIN center : center[b] <= v}
    IN  Min({v \in Range(center) : 2 * Total(weight, UpTo(v)) >= Total(weight, DOMAIN center)})

\* Mutant: a book far out keeps its weight.
InfluenceFull(weight, deviation, doubleMad) == weight

\* A book further out than half a point and 2.2 median deviations weighs less.
Influence(weight, deviation, doubleMad) ==
    IF deviation = 0 THEN weight
    ELSE (weight * Min({200 * deviation, Max({100 * Grid, 222 * doubleMad})})) \div (200 * deviation)

MarketCenter(center, weight) ==
    LET median == WeightedMedian(center, weight)
        deviation == [b \in DOMAIN center |-> Magnitude(center[b] - median)]
        doubleMad == DoubleMedian(deviation)
        influence == [b \in DOMAIN center |-> Influence(weight[b], deviation[b], doubleMad)]
    IN  RoundHalfEven(Total([b \in DOMAIN center |-> center[b] * influence[b]], DOMAIN center),
                      Total(influence, DOMAIN center))
=============================================================================
