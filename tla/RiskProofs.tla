------------------------------ MODULE RiskProofs ------------------------------
(* What the recheck of an approval guarantees of a portfolio: no opposing        *)
(* positions, and every cap within the highest equity; that a read in several     *)
(* statements which nothing overlapped adds up; and that what the decision engine *)
(* recommends passes the recheck.                                                 *)
EXTENDS PortfolioLedgerProofs, PortfolioReads, DecisionEngine

------------------------------------------------------------------------------
(* Exposures *)

\* Every leg of a bet in the set is one of its exposures (_open_exposures).
LEMMA ExposureOfLeg ==
  ASSUME NEW table, NEW ids, NEW b \in ids, NEW l \in table[b].legs
  PROVE  [bet |-> b, leg |-> l] \in ExposuresOf(table, ids)
<1>1. [bet |-> b, leg |-> l] \in {[bet |-> b, leg |-> k] : k \in table[b].legs}
  OBVIOUS
<1>2. QED
  BY <1>1 DEF ExposuresOf

\* Every exposure comes from a leg of a bet in the set.
LEMMA LegOfExposure ==
  ASSUME NEW table, NEW ids, NEW x \in ExposuresOf(table, ids)
  PROVE  /\ x.bet \in ids /\ x.leg \in table[x.bet].legs
         /\ x = [bet |-> x.bet, leg |-> x.leg]
<1>1. PICK b \in ids : x \in {[bet |-> b, leg |-> k] : k \in table[b].legs}
  BY DEF ExposuresOf
<1>2. PICK l \in table[b].legs : x = [bet |-> b, leg |-> l]
  BY <1>1
<1>3. QED
  BY <1>2

\* Finitely many bets of finitely many legs are finitely many exposures.
LEMMA ExposuresFinite ==
  ASSUME NEW table, NEW ids, IsFiniteSet(ids), \A b \in ids : IsFiniteSet(table[b].legs)
  PROVE  IsFiniteSet(ExposuresOf(table, ids))
<1> DEFINE of(b) == {[bet |-> b, leg |-> l] : l \in table[b].legs}
           all == {of(b) : b \in ids}
<1>1. IsFiniteSet(all)
  <2> DEFINE f == [b \in ids |-> of(b)]
  <2>1. f \in Surjection(ids, all)
    BY DEF Surjection
  <2> HIDE DEF f, all
  <2>2. QED
    BY <2>1, FS_Surjection
<1>2. ASSUME NEW b \in ids PROVE IsFiniteSet(of(b))
  <2> DEFINE f == [l \in table[b].legs |-> [bet |-> b, leg |-> l]]
  <2>1. f \in Surjection(table[b].legs, of(b))
    BY DEF Surjection
  <2> HIDE DEF f, of
  <2>2. QED
    BY <2>1, FS_Surjection
<1>3. \A T \in all : IsFiniteSet(T)
  BY <1>2
<1>4. IsFiniteSet(UNION all)
  <2> HIDE DEF all
  <2>1. QED
    BY <1>1, <1>3, FS_UNION
<1>5. QED
  BY <1>4 DEF ExposuresOf

\* What is staked on exposures depends on the stakes of their bets only.
LEMMA ExposedAgree ==
  ASSUME NEW table, NEW other, NEW exposures,
         \A x \in exposures : table[x.bet].stake = other[x.bet].stake
  PROVE  ExposedStake(table, exposures) = ExposedStake(other, exposures)
<1>1. [x \in exposures |-> table[x.bet].stake] = [x \in exposures |-> other[x.bet].stake]
  OBVIOUS
<1>2. QED
  BY <1>1 DEF ExposedStake

\* Natural stakes have a natural sum.
LEMMA ExposedNat ==
  ASSUME NEW table, NEW exposures, IsFiniteSet(exposures),
         \A x \in exposures : table[x.bet].stake \in Nat
  PROVE  ExposedStake(table, exposures) \in Nat
<1> DEFINE w == [x \in exposures |-> table[x.bet].stake]
<1>1. \A x \in exposures : w[x] \in Nat
  OBVIOUS
<1> HIDE DEF w
<1>2. Total(w, exposures) \in Nat
  BY <1>1, TotalNat
<1>3. QED
  BY <1>2 DEF ExposedStake, w

\* Fewer exposures, no larger stake.
LEMMA ExposedMonotone ==
  ASSUME NEW table, NEW more, IsFiniteSet(more), NEW fewer \in SUBSET more,
         \A x \in more : table[x.bet].stake \in Nat
  PROVE  ExposedStake(table, fewer) <= ExposedStake(table, more)
<1> DEFINE w == [x \in more |-> table[x.bet].stake]
           v == [x \in fewer |-> table[x.bet].stake]
<1>1. (\A x \in more : w[x] \in Nat) /\ \A x \in fewer : w[x] = v[x]
  OBVIOUS
<1> HIDE DEF w, v
<1>2. Total(w, fewer) <= Total(w, more)
  BY <1>1, TotalMonotone
<1>3. Total(w, fewer) = Total(v, fewer)
  BY <1>1, FS_Subset, TotalAgree
<1>4. QED
  BY <1>2, <1>3 DEF ExposedStake, w, v

\* The same for the stakes of bets.
LEMMA StakeOfMonotone ==
  ASSUME NEW table, NEW more, IsFiniteSet(more), NEW fewer \in SUBSET more,
         \A b \in more : table[b].stake \in Nat
  PROVE  StakeOf(table, fewer) <= StakeOf(table, more)
<1> DEFINE w == [b \in more |-> table[b].stake]
           v == [b \in fewer |-> table[b].stake]
<1>1. (\A b \in more : w[b] \in Nat) /\ \A b \in fewer : w[b] = v[b]
  OBVIOUS
<1> HIDE DEF w, v
<1>2. Total(w, fewer) <= Total(w, more)
  BY <1>1, TotalMonotone
<1>3. Total(w, fewer) = Total(v, fewer)
  BY <1>1, FS_Subset, TotalAgree
<1>4. QED
  BY <1>2, <1>3 DEF StakeOf, w, v

\* The exposures of one bet.
LegsOf(b, legs) == {[bet |-> b, leg |-> l] : l \in legs}

\* A new bet adds its stake once for each of its legs.
LEMMA ExposedInsert ==
  ASSUME NEW table, NEW exposures, IsFiniteSet(exposures), NEW b, NEW legs, IsFiniteSet(legs),
         \A x \in exposures : x.bet # b /\ table[x.bet].stake \in Nat, table[b].stake \in Nat
  PROVE  ExposedStake(table, exposures \cup LegsOf(b, legs))
           = ExposedStake(table, exposures) + table[b].stake * Cardinality(legs)
<1> DEFINE new == LegsOf(b, legs)
           all == exposures \cup new
           w == [x \in all |-> table[x.bet].stake]
           v == [x \in exposures |-> table[x.bet].stake]
<1>1. IsFiniteSet(new) /\ Cardinality(new) = Cardinality(legs)
  <2> DEFINE f == [l \in legs |-> [bet |-> b, leg |-> l]]
  <2>1. \A l, m \in legs : [bet |-> b, leg |-> l] = [bet |-> b, leg |-> m] => l = m
    OBVIOUS
  <2>2. f \in Bijection(legs, new)
    BY <2>1 DEF Bijection, Injection, IsInjective, Surjection, LegsOf
  <2>3. ExistsBijection(legs, new)
    BY <2>2 DEF ExistsBijection
  <2> HIDE DEF f, new
  <2>4. QED
    BY <2>3, FS_Bijection
<1>2. exposures \cap new = {}
  BY DEF LegsOf
<1>3. /\ \A x \in all : w[x] \in Nat
      /\ \A x \in new : w[x] = table[b].stake
      /\ \A x \in exposures : w[x] = v[x]
  BY DEF LegsOf
<1> HIDE DEF w, v, new
<1>4. Total(w, all) = Total(w, exposures) + Total(w, new)
  <2>1. \A x \in exposures \cup new : w[x] \in Int
    BY <1>3
  <2>2. QED
    BY <1>1, <1>2, <2>1, TotalUnion
<1>5. Total(w, exposures) = Total(v, exposures)
  BY <1>3, TotalAgree
<1>6. Total(w, new) = table[b].stake * Cardinality(legs)
  BY <1>1, <1>3, TotalConstant
<1>7. QED
  BY <1>4, <1>5, <1>6 DEF ExposedStake, w, v, new

------------------------------------------------------------------------------
(* Opposing positions *)

ApprovedPosition(b) == bets[b].status = "open" /\ bets[b].rec # NoRec

Disjoint(legs, others) == \A l \in legs, m \in others : ~OpposedTo(l, m)

\* NoOpposingApproved bet by bet.
Pairwise ==
    \A b, c \in DOMAIN bets :
        ApprovedPosition(b) /\ ApprovedPosition(c) /\ bets[b].port = bets[c].port =>
            Disjoint(bets[b].legs, bets[c].legs)

\* The approved open bets of a portfolio, by their own status and recommendation.
LEMMA ApprovedOpenIsPosition ==
  ASSUME NEW p \in Portfolio, NEW b
  PROVE  b \in ApprovedOpen(p) <=> b \in DOMAIN bets /\ bets[b].port = p /\ ApprovedPosition(b)
BY DEF ApprovedOpen, OpenBets, BetsWith, ApprovedPosition

\* Separating the bets two by two separates their exposures.
LEMMA PairwiseSuffices ==
  ASSUME Pairwise
  PROVE  NoOpposingApproved
<1> SUFFICES ASSUME NEW p \in Portfolio, NEW x \in ExposuresOf(bets, ApprovedOpen(p)),
                    NEW y \in ExposuresOf(bets, ApprovedOpen(p))
             PROVE  ~OpposedTo(x.leg, y.leg)
  BY DEF NoOpposingApproved
<1>1. PICK b \in ApprovedOpen(p) : x.leg \in bets[b].legs
  BY LegOfExposure
<1>2. PICK c \in ApprovedOpen(p) : y.leg \in bets[c].legs
  BY LegOfExposure
<1>3. Disjoint(bets[b].legs, bets[c].legs)
  BY <1>1, <1>2, ApprovedOpenIsPosition DEF Pairwise
<1>4. QED
  BY <1>1, <1>2, <1>3 DEF Disjoint

\* One recommendation does not oppose itself: a straight row is one leg, the legs
\* of a parlay are in different games.
LEMMA RowDoesNotOpposeItself ==
  ASSUME NEW r \in Rec
  PROVE  Disjoint(Row[r].legs, Row[r].legs)
<1> SUFFICES ASSUME NEW l \in Row[r].legs, NEW m \in Row[r].legs PROVE ~OpposedTo(l, m)
  BY DEF Disjoint
<1>1. CASE l = m
  BY <1>1 DEF OpposedTo
<1>2. CASE l # m
  BY <1>2, RowShapeAssumption DEF SeparateGames, OpposedTo
<1>3. QED
  BY <1>1, <1>2

\* What the recheck of an approval grants against every open bet of the portfolio.
LEMMA RecheckSeparates ==
  ASSUME NEW r \in Rec, NoOpposingPosition(Row[r], bets),
         NEW c \in DOMAIN bets, bets[c].port = Row[r].port, bets[c].status = "open"
  PROVE  Disjoint(bets[c].legs, Row[r].legs) /\ Disjoint(Row[r].legs, bets[c].legs)
<1>1. c \in OpenBets(bets, Row[r].port)
  BY DEF OpenBets, BetsWith
<1>2. ASSUME NEW l \in bets[c].legs, NEW m \in Row[r].legs PROVE ~OpposedTo(l, m)
  <2>1. [bet |-> c, leg |-> l] \in ExposuresOf(bets, OpenBets(bets, Row[r].port))
    BY <1>1, ExposureOfLeg
  <2>2. ~OpposedTo([bet |-> c, leg |-> l].leg, m)
    BY <2>1 DEF NoOpposingPosition, OpenExposures
  <2>3. QED
    BY <2>2
<1>3. QED
  BY <1>2 DEF Disjoint, OpposedTo

\* Adding a bet that is separate from every approved position keeps them pairwise
\* separate.
LEMMA NewPosition ==
  ASSUME TypeOK, Pairwise, NEW b, b \notin DOMAIN bets, NEW row,
         bets' = [x \in DOMAIN bets \cup {b} |-> IF x = b THEN row ELSE bets[x]],
         row.rec # NoRec =>
            /\ Disjoint(row.legs, row.legs)
            /\ \A c \in DOMAIN bets : ApprovedPosition(c) /\ bets[c].port = row.port =>
                  Disjoint(bets[c].legs, row.legs) /\ Disjoint(row.legs, bets[c].legs)
  PROVE  Pairwise'
<1>1. DOMAIN bets' = DOMAIN bets \cup {b} /\ bets'[b] = row
  OBVIOUS
<1>2. \A c \in DOMAIN bets : bets'[c] = bets[c]
  OBVIOUS
<1> SUFFICES ASSUME NEW c \in DOMAIN bets', NEW d \in DOMAIN bets', ApprovedPosition(c)',
                    ApprovedPosition(d)', bets'[c].port = bets'[d].port
             PROVE  Disjoint(bets'[c].legs, bets'[d].legs)
  BY DEF Pairwise, Disjoint
<1>3. CASE c \in DOMAIN bets /\ d \in DOMAIN bets
  BY <1>2, <1>3 DEF Pairwise, ApprovedPosition
<1>4. CASE c = b /\ d = b
  BY <1>1, <1>4 DEF ApprovedPosition
<1>5. CASE c = b /\ d \in DOMAIN bets
  BY <1>1, <1>2, <1>5 DEF ApprovedPosition
<1>6. CASE c \in DOMAIN bets /\ d = b
  BY <1>1, <1>2, <1>6 DEF ApprovedPosition
<1>7. QED
  BY <1>1, <1>3, <1>4, <1>5, <1>6

\* The recheck separates the new bet of an approval from every approved position.
LEMMA RecheckedPosition ==
  ASSUME NEW p \in Portfolio, NEW row \in BetRow, row.port = p, Rechecked(p, row)
  PROVE  /\ Disjoint(row.legs, row.legs)
         /\ \A c \in DOMAIN bets : ApprovedPosition(c) /\ bets[c].port = row.port =>
               Disjoint(bets[c].legs, row.legs) /\ Disjoint(row.legs, bets[c].legs)
<1>1. PICK r \in Rec : /\ p = Row[r].port /\ row.legs = Row[r].legs
                       /\ WithinRiskLimits(Row[r], bets, settled[p], cash[p])
  BY DEF Rechecked
<1>2. NoOpposingPosition(Row[r], bets)
  BY <1>1 DEF WithinRiskLimits
<1>3. QED
  BY <1>1, <1>2, RowDoesNotOpposeItself, RecheckSeparates DEF ApprovedPosition

\* Approvals never build both sides of a market of one game into a portfolio, for
\* every set of recommendations, direct bets and settlements (_validate_approval_risk).
THEOREM PortfolioNeverOpposesItself == Spec => []NoOpposingApproved
<1>1. Init => Pairwise
  BY DEF Init, Pairwise
<1>2. TypeOK /\ Pairwise /\ [Next]_vars => Pairwise'
  <2> SUFFICES ASSUME TypeOK, Pairwise, [Next]_vars PROVE Pairwise'
    OBVIOUS
  <2>1. CASE UNCHANGED bets
    BY <2>1 DEF Pairwise, ApprovedPosition, Disjoint
  <2>2. ASSUME NEW p \in Portfolio, NEW b \in BetId, NEW row \in BetRow, NewBet(p, b, row)
        PROVE  Pairwise'
    BY <2>2, NewPosition, RecheckedPosition DEF NewBet
  <2>3. ASSUME NEW p \in Portfolio, NEW b \in BetId, NEW payout \in Payout, Settlement(p, b, payout)
        PROVE  Pairwise'
    <3>1. DOMAIN bets' = DOMAIN bets /\ \A c \in DOMAIN bets : ApprovedPosition(c)' => bets'[c] = bets[c]
      BY <2>3 DEF Settlement, TypeOK, BetRow, ApprovedPosition
    <3>2. QED
      BY <3>1 DEF Pairwise, ApprovedPosition, Disjoint
  <2>4. QED
    BY <2>1, <2>2, <2>3, MoneySteps DEF OpenPortfolio
<1>3. Pairwise => NoOpposingApproved
  BY PairwiseSuffices
<1>4. QED
  BY <1>1, <1>2, <1>3, LedgerTyping, PTL DEF Spec

------------------------------------------------------------------------------
(* Caps *)

\* The groups of legs an approval caps, each with its fraction of equity.
SameEvent(m) == {l \in Leg : l.event = m.event}
SameMarket(m) == {l \in Leg : l.market = m.market}
OfTeam(t) == {l \in Leg : t \in l.teams}

CapGroups ==
    {[legs |-> SameEvent(m), cap |-> c] : m \in Leg, c \in {Policy.game, Policy.correlated}}
    \cup {[legs |-> SameMarket(m), cap |-> Policy.market] : m \in Leg}
    \cup {[legs |-> OfTeam(t), cap |-> Policy.team] : t \in UNION {m.teams : m \in Leg}}

ApprovedIn(p, legs) == {x \in ExposuresOf(bets, ApprovedOpen(p)) : x.leg \in legs}

ApprovedDay(p, d) == {c \in ApprovedOpen(p) : bets[c].slate = d}

ApprovedParlays(p, d) == {c \in ApprovedDay(p, d) : bets[c].kind = "parlay"}

\* The caps for every slate and group, whether anything is staked on it or not.
CapsOf(p) ==
    /\ \A d \in Nat :
          /\ ~Exceeds(StakeOf(bets, ApprovedDay(p, d)), Peak(p), Policy.daily)
          /\ ~Exceeds(StakeOf(bets, ApprovedParlays(p, d)), Peak(p), Policy.dailyParlay)
    /\ \A g \in CapGroups : ~Exceeds(ExposedStake(bets, ApprovedIn(p, g.legs)), Peak(p), g.cap)

CapsHold == \A p \in Portfolio : CapsOf(p)

\* The fractions of the policy are natural numbers.
LEMMA PolicyTyped ==
  /\ Policy.daily \in Nat /\ Policy.dailyParlay \in Nat
  /\ Policy.game \in Nat /\ Policy.correlated \in Nat /\ Policy.market \in Nat /\ Policy.team \in Nat
<1>1. /\ Policy.daily \in PolicyFraction /\ Policy.dailyParlay \in Nat
      /\ Policy.game \in PolicyFraction /\ Policy.correlated \in PolicyFraction
      /\ Policy.market \in PolicyFraction /\ Policy.team \in PolicyFraction
  BY PolicyAssumption DEF PolicyType
<1>2. PolicyFraction \subseteq Nat
  BY DEF PolicyFraction
<1>3. QED
  BY <1>1, <1>2

\* So are those of the groups.
LEMMA CapGroupsTyped == \A g \in CapGroups : g.cap \in Nat /\ g.legs \subseteq Leg
BY PolicyTyped DEF CapGroups, SameEvent, SameMarket, OfTeam

\* A smaller amount against a larger equity stays within the same fraction.
LEMMA WithinGrows ==
  ASSUME NEW amount \in Int, NEW less \in Int, NEW equity \in Int, NEW peak \in Int, NEW fraction \in Nat,
         ~Exceeds(amount, equity, fraction), less <= amount, equity <= peak
  PROVE  ~Exceeds(less, peak, fraction)
<1>1. equity * fraction <= peak * fraction
  <2>1. \A n \in Nat : n * fraction >= 0
    OBVIOUS
  <2>2. PICK n \in Nat : peak = equity + n
    <3>1. peak - equity \in Nat /\ peak = equity + (peak - equity)
      OBVIOUS
    <3>2. QED
      BY <3>1
  <2>3. (equity + n) * fraction = equity * fraction + n * fraction
    OBVIOUS
  <2>4. n * fraction \in Int /\ equity * fraction \in Int
    OBVIOUS
  <2>5. QED
    BY <2>1, <2>2, <2>3, <2>4
<1>2. equity * fraction \in Int /\ peak * fraction \in Int
  OBVIOUS
<1>3. QED
  BY <1>1, <1>2 DEF Exceeds

\* Nothing is always within a fraction of an equity that is not negative.
LEMMA NothingWithin ==
  ASSUME NEW peak \in Nat, NEW fraction \in Nat
  PROVE  ~Exceeds(0, peak, fraction)
<1>1. peak * fraction \in Nat
  OBVIOUS
<1>2. QED
  BY <1>1 DEF Exceeds

\* Finitely many open bets and exposures, of known legs and natural stakes.
LEMMA ApprovedTyped ==
  ASSUME TypeOK, BetsKnown, NEW p \in Portfolio
  PROVE  /\ IsFiniteSet(OpenBets(bets, p)) /\ IsFiniteSet(ApprovedOpen(p))
         /\ ApprovedOpen(p) \subseteq OpenBets(bets, p) /\ OpenBets(bets, p) \subseteq DOMAIN bets
         /\ IsFiniteSet(OpenExposures(bets, p)) /\ IsFiniteSet(ExposuresOf(bets, ApprovedOpen(p)))
         /\ ExposuresOf(bets, ApprovedOpen(p)) \subseteq OpenExposures(bets, p)
         /\ \A x \in OpenExposures(bets, p) : x.leg \in Leg /\ bets[x.bet].stake \in Nat
<1>1. /\ ApprovedOpen(p) \subseteq OpenBets(bets, p) /\ OpenBets(bets, p) \subseteq DOMAIN bets
  BY DEF ApprovedOpen, OpenBets, BetsWith
<1>2. IsFiniteSet(OpenBets(bets, p)) /\ IsFiniteSet(ApprovedOpen(p))
  BY <1>1, FS_Subset DEF BetsKnown
<1>3. ExposuresOf(bets, ApprovedOpen(p)) \subseteq OpenExposures(bets, p)
  BY <1>1 DEF ExposuresOf, OpenExposures
<1>4. IsFiniteSet(OpenExposures(bets, p))
  BY <1>1, <1>2, ExposuresFinite DEF BetsKnown, OpenExposures
<1>5. IsFiniteSet(ExposuresOf(bets, ApprovedOpen(p)))
  BY <1>3, <1>4, FS_Subset
<1>6. ASSUME NEW x \in OpenExposures(bets, p) PROVE x.leg \in Leg /\ bets[x.bet].stake \in Nat
  <2>1. x.bet \in OpenBets(bets, p) /\ x.leg \in bets[x.bet].legs
    BY LegOfExposure DEF OpenExposures
  <2>2. x.bet \in DOMAIN bets
    BY <1>1, <2>1
  <2>3. bets[x.bet] \in BetRow
    BY <2>2 DEF TypeOK
  <2>4. bets[x.bet].legs \subseteq Leg /\ bets[x.bet].stake \in Nat
    BY <2>3 DEF BetRow
  <2>5. QED
    BY <2>1, <2>4
<1>7. QED
  BY <1>1, <1>2, <1>3, <1>4, <1>5, <1>6

\* What the recheck grants for a group that a leg of the recommendation is in.
GroupGranted(r, g) ==
    ~Exceeds(ExposedStake(bets, {x \in OpenExposures(bets, Row[r].port) : x.leg \in g.legs})
                + Row[r].stake * Cardinality({l \in Row[r].legs : l \in g.legs}),
             Equity(Row[r].port), g.cap)

\* The recheck of an approval grants every group one of its legs is in.
LEMMA RecheckGroups ==
  ASSUME TypeOK, BetsKnown, NEW r \in Rec,
         WithinRiskLimits(Row[r], bets, settled[Row[r].port], cash[Row[r].port]),
         NEW g \in CapGroups, NEW target \in Row[r].legs, target \in g.legs
  PROVE  GroupGranted(r, g)
<1> DEFINE p == Row[r].port
<1>1. LegCapsHold(Row[r], bets, Equity(p))
  BY DEF WithinRiskLimits, Equity
<1>2. p \in Portfolio /\ Row[r].legs \subseteq Leg
  BY RowAssumption DEF RowType
<1>3. \A x \in OpenExposures(bets, p) : x.leg \in Leg
  BY <1>2, ApprovedTyped
<1>4. ASSUME NEW m \in Leg, NEW c \in {Policy.game, Policy.correlated},
             g = [legs |-> SameEvent(m), cap |-> c]
      PROVE  GroupGranted(r, g)
  <2>1. target.event = m.event
    BY <1>4 DEF SameEvent
  <2>2. GroupWithin(LAMBDA l : l.event = target.event, g.cap, Row[r], bets, Equity(p))
    BY <1>1, <1>4 DEF LegCapsHold
  <2>3. {x \in OpenExposures(bets, p) : x.leg.event = target.event}
          = {x \in OpenExposures(bets, p) : x.leg \in g.legs}
    BY <1>3, <1>4, <2>1 DEF SameEvent
  <2>4. {l \in Row[r].legs : l.event = target.event} = {l \in Row[r].legs : l \in g.legs}
    BY <1>2, <1>4, <2>1 DEF SameEvent
  <2>5. QED
    BY <2>2, <2>3, <2>4 DEF GroupWithin, GroupGranted
<1>5. ASSUME NEW m \in Leg, g = [legs |-> SameMarket(m), cap |-> Policy.market]
      PROVE  GroupGranted(r, g)
  <2>1. target.market = m.market
    BY <1>5 DEF SameMarket
  <2>2. GroupWithin(LAMBDA l : l.market = target.market, g.cap, Row[r], bets, Equity(p))
    BY <1>1, <1>5 DEF LegCapsHold
  <2>3. {x \in OpenExposures(bets, p) : x.leg.market = target.market}
          = {x \in OpenExposures(bets, p) : x.leg \in g.legs}
    BY <1>3, <1>5, <2>1 DEF SameMarket
  <2>4. {l \in Row[r].legs : l.market = target.market} = {l \in Row[r].legs : l \in g.legs}
    BY <1>2, <1>5, <2>1 DEF SameMarket
  <2>5. QED
    BY <2>2, <2>3, <2>4 DEF GroupWithin, GroupGranted
<1>6. ASSUME NEW t, g = [legs |-> OfTeam(t), cap |-> Policy.team]
      PROVE  GroupGranted(r, g)
  <2>1. t \in target.teams
    BY <1>6 DEF OfTeam
  <2>2. GroupWithin(LAMBDA l : t \in l.teams, g.cap, Row[r], bets, Equity(p))
    BY <1>1, <1>6, <2>1 DEF LegCapsHold
  <2>3. {x \in OpenExposures(bets, p) : t \in x.leg.teams}
          = {x \in OpenExposures(bets, p) : x.leg \in g.legs}
    BY <1>3, <1>6 DEF OfTeam
  <2>4. {l \in Row[r].legs : t \in l.teams} = {l \in Row[r].legs : l \in g.legs}
    BY <1>2, <1>6 DEF OfTeam
  <2>5. QED
    BY <2>2, <2>3, <2>4 DEF GroupWithin, GroupGranted
<1>7. QED
  BY <1>4, <1>5, <1>6 DEF CapGroups

------------------------------------------------------------------------------
(* The caps through the steps *)

\* The peak is at least the starting capital.
LEMMA PeakNat ==
  ASSUME TypeOK, BetsKnown, OrderSound, NEW p \in Portfolio
  PROVE  Peak(p) \in Nat
BY PeakBounds, CapitalAssumption

\* Nothing is staked in the beginning.
LEMMA CapsInit ==
  ASSUME Init, TypeOK, OrderSound
  PROVE  CapsHold
<1> SUFFICES ASSUME NEW p \in Portfolio PROVE CapsOf(p)
  BY DEF CapsHold
<1>1. BetsKnown
  BY BetsKnownInit
<1>2. Peak(p) \in Nat
  BY <1>1, PeakNat
<1>3. ApprovedOpen(p) = {}
  BY DEF ApprovedOpen, OpenBets, BetsWith, Init
<1>4. \A d : ApprovedDay(p, d) = {} /\ ApprovedParlays(p, d) = {}
  BY <1>3 DEF ApprovedDay, ApprovedParlays
<1>5. \A legs : ApprovedIn(p, legs) = {}
  BY <1>3 DEF ApprovedIn, ExposuresOf
<1>6. StakeOf(bets, {}) = 0 /\ ExposedStake(bets, {}) = 0
  BY TotalEmpty DEF StakeOf, ExposedStake
<1>7. QED
  BY <1>2, <1>4, <1>5, <1>6, NothingWithin, PolicyTyped, CapGroupsTyped DEF CapsOf

\* Fewer approved bets under a peak that does not fall.
LEMMA CapsKept ==
  ASSUME TypeOK, BetsKnown, OrderSound, NEW p \in Portfolio, CapsOf(p),
         ApprovedOpen(p)' \subseteq ApprovedOpen(p),
         \A b \in ApprovedOpen(p)' : bets'[b] = bets[b],
         Peak(p)' \in Int, Peak(p)' >= Peak(p)
  PROVE  CapsOf(p)'
<1>1. Peak(p) \in Int
  BY PeakBounds
<1>2. ASSUME NEW more \in SUBSET ApprovedOpen(p), NEW fewer \in SUBSET more,
             fewer \subseteq ApprovedOpen(p)', NEW f \in Nat,
             ~Exceeds(StakeOf(bets, more), Peak(p), f)
      PROVE  ~Exceeds(StakeOf(bets', fewer), Peak(p)', f)
  <2>1. IsFiniteSet(more) /\ \A b \in more : bets[b].stake \in Nat
    <3>1. IsFiniteSet(ApprovedOpen(p)) /\ ApprovedOpen(p) \subseteq DOMAIN bets
      BY ApprovedTyped
    <3>2. QED
      BY <3>1, FS_Subset, AmountsTyped
  <2>2. StakeOf(bets, fewer) <= StakeOf(bets, more)
    BY <2>1, StakeOfMonotone
  <2>3. StakeOf(bets', fewer) = StakeOf(bets, fewer)
    BY <1>2, StakeOfAgree
  <2>4. StakeOf(bets, fewer) \in Int /\ StakeOf(bets, more) \in Int
    <3>1. IsFiniteSet(fewer) /\ \A b \in fewer : bets[b].stake \in Nat
      BY <2>1, FS_Subset
    <3>2. StakeOf(bets, fewer) \in Nat /\ StakeOf(bets, more) \in Nat
      BY <2>1, <3>1, StakeOfNat
    <3>3. QED
      BY <3>2
  <2>5. QED
    BY <1>1, <1>2, <2>2, <2>3, <2>4, WithinGrows
<1>3. ASSUME NEW legs, NEW f \in Nat, ~Exceeds(ExposedStake(bets, ApprovedIn(p, legs)), Peak(p), f)
      PROVE  ~Exceeds(ExposedStake(bets, ApprovedIn(p, legs))', Peak(p)', f)
  <2> DEFINE more == ApprovedIn(p, legs)
             fewer == ApprovedIn(p, legs)'
  <2>1. IsFiniteSet(more) /\ \A x \in more : bets[x.bet].stake \in Nat
    <3>1. more \subseteq ExposuresOf(bets, ApprovedOpen(p))
      BY DEF ApprovedIn
    <3>2. QED
      BY <3>1, ApprovedTyped, FS_Subset
  <2>2. fewer \subseteq more /\ \A x \in fewer : bets'[x.bet].stake = bets[x.bet].stake
    <3> SUFFICES ASSUME NEW x \in fewer PROVE x \in more /\ bets'[x.bet].stake = bets[x.bet].stake
      OBVIOUS
    <3>1. x \in ExposuresOf(bets', ApprovedOpen(p)') /\ x.leg \in legs
      BY DEF ApprovedIn
    <3>2. x.bet \in ApprovedOpen(p)' /\ x.leg \in bets'[x.bet].legs /\ x = [bet |-> x.bet, leg |-> x.leg]
      BY <3>1, LegOfExposure
    <3>3. x.bet \in ApprovedOpen(p) /\ bets'[x.bet] = bets[x.bet] /\ x.leg \in bets[x.bet].legs
      BY <3>2
    <3>4. x \in ExposuresOf(bets, ApprovedOpen(p))
      BY <3>2, <3>3, ExposureOfLeg
    <3>5. QED
      BY <3>1, <3>3, <3>4 DEF ApprovedIn
  <2> HIDE DEF more, fewer
  <2>3. ExposedStake(bets, fewer) <= ExposedStake(bets, more)
    BY <2>1, <2>2, ExposedMonotone
  <2>4. ExposedStake(bets', fewer) = ExposedStake(bets, fewer)
    BY <2>2, ExposedAgree
  <2>5. ExposedStake(bets, fewer) \in Int /\ ExposedStake(bets, more) \in Int
    <3>1. IsFiniteSet(fewer) /\ \A x \in fewer : bets[x.bet].stake \in Nat
      BY <2>1, <2>2, FS_Subset
    <3>2. ExposedStake(bets, fewer) \in Nat /\ ExposedStake(bets, more) \in Nat
      BY <2>1, <3>1, ExposedNat
    <3>3. QED
      BY <3>2
  <2>6. ~Exceeds(ExposedStake(bets, more), Peak(p), f)
    BY <1>3 DEF more
  <2>7. ~Exceeds(ExposedStake(bets', fewer), Peak(p)', f)
    BY <1>1, <2>3, <2>4, <2>5, <2>6, WithinGrows
  <2>8. QED
    BY <2>7 DEF fewer
<1>4. ASSUME NEW d \in Nat
      PROVE  /\ ~Exceeds(StakeOf(bets, ApprovedDay(p, d))', Peak(p)', Policy.daily)
             /\ ~Exceeds(StakeOf(bets, ApprovedParlays(p, d))', Peak(p)', Policy.dailyParlay)
  <2>1. /\ ApprovedDay(p, d) \in SUBSET ApprovedOpen(p)
        /\ ApprovedDay(p, d)' \in SUBSET ApprovedDay(p, d)
        /\ ApprovedDay(p, d)' \subseteq ApprovedOpen(p)'
    BY DEF ApprovedDay
  <2>2. /\ ApprovedParlays(p, d) \in SUBSET ApprovedOpen(p)
        /\ ApprovedParlays(p, d)' \in SUBSET ApprovedParlays(p, d)
        /\ ApprovedParlays(p, d)' \subseteq ApprovedOpen(p)'
    BY DEF ApprovedParlays, ApprovedDay
  <2>3. /\ ~Exceeds(StakeOf(bets, ApprovedDay(p, d)), Peak(p), Policy.daily)
        /\ ~Exceeds(StakeOf(bets, ApprovedParlays(p, d)), Peak(p), Policy.dailyParlay)
    BY DEF CapsOf
  <2>4. QED
    BY <1>2, <2>1, <2>2, <2>3, PolicyTyped
<1>5. \A g \in CapGroups : ~Exceeds(ExposedStake(bets, ApprovedIn(p, g.legs))', Peak(p)', g.cap)
  BY <1>3, CapGroupsTyped DEF CapsOf
<1>6. QED
  BY <1>4, <1>5 DEF CapsOf

\* An approval into its own portfolio: what the recheck granted still holds with
\* the new bet counted in.
LEMMA CapsAfterApproval ==
  ASSUME TypeOK, BetsKnown, OrderSound, AccountContract!Conserved,
         NEW p \in Portfolio, CapsOf(p), NEW b \in BetId, NEW row \in BetRow,
         NewBet(p, b, row), row.rec # NoRec, Peak(p)' = Peak(p)
  PROVE  CapsOf(p)'
<1>1. PICK r \in Rec :
         /\ row.rec = r /\ p = Row[r].port
         /\ row.kind = Row[r].kind /\ row.stake = Row[r].stake
         /\ row.slate = Row[r].slate /\ row.legs = Row[r].legs
         /\ holder[p] # NoOne
         /\ WithinRiskLimits(Row[r], bets, settled[p], cash[p])
  BY DEF NewBet, Rechecked
<1>2. /\ DOMAIN bets' = DOMAIN bets \cup {b} /\ bets'[b] = row /\ b \notin DOMAIN bets
      /\ \A x \in DOMAIN bets : bets'[x] = bets[x]
      /\ row.port = p /\ row.status = "open" /\ row.stake \in Nat /\ IsFiniteSet(row.legs)
      /\ row.legs \subseteq Leg
  BY DEF NewBet, BetRow
<1> DEFINE old == ApprovedOpen(p)
<1>3. /\ ApprovedOpen(p)' = old \cup {b} /\ b \notin old
      /\ old \subseteq OpenBets(bets, p) /\ OpenBets(bets, p) \subseteq DOMAIN bets
      /\ IsFiniteSet(old) /\ IsFiniteSet(OpenBets(bets, p))
      /\ \A c \in old : bets'[c] = bets[c]
  <2>1. /\ old \subseteq OpenBets(bets, p) /\ OpenBets(bets, p) \subseteq DOMAIN bets
        /\ IsFiniteSet(old) /\ IsFiniteSet(OpenBets(bets, p))
    BY ApprovedTyped
  <2>2. ApprovedOpen(p)' = old \cup {b}
    BY <1>2 DEF ApprovedOpen, OpenBets, BetsWith, NewBet
  <2>3. QED
    BY <1>2, <2>1, <2>2
<1>4. Equity(p) \in Int /\ Peak(p) \in Nat /\ Equity(p) <= Peak(p)
  <2>1. Equity(p) = StartingCapital + Realized(p)
    BY <1>1 DEF AccountContract!Conserved, Equity
  <2>2. QED
    BY <2>1, PeakBounds, PeakNat, SumsTyped, CapitalAssumption
<1> HIDE DEF old
<1>5. StakeCapsHold(Row[r], bets, Equity(p))
  BY <1>1 DEF WithinRiskLimits, Equity
\* One group of bets by their stakes.
<1>6. ASSUME NEW held \in SUBSET OpenBets(bets, p), NEW mine \in SUBSET (held \cap old), NEW f \in Nat,
             ~Exceeds(StakeOf(bets, held) + row.stake, Equity(p), f)
      PROVE  ~Exceeds(StakeOf(bets', mine \cup {b}), Peak(p)', f)
  <2>1. IsFiniteSet(held) /\ IsFiniteSet(mine) /\ b \notin mine /\ mine \subseteq held
    BY <1>3, FS_Subset
  <2>2. \A c \in held : bets[c].stake \in Nat /\ c \in DOMAIN bets
    BY <1>3, AmountsTyped
  <2>3. StakeOf(bets, mine) <= StakeOf(bets, held)
    BY <2>1, <2>2, StakeOfMonotone
  <2>4. StakeOf(bets, mine) \in Nat /\ StakeOf(bets, held) \in Nat
    BY <2>1, <2>2, StakeOfNat
  <2>5. StakeOf(bets', mine \cup {b}) = row.stake + StakeOf(bets', mine)
    <3>1. \A c \in mine \cup {b} : bets'[c].stake \in Int
      BY <1>2, <2>1, <2>2
    <3>2. QED
      BY <1>2, <2>1, <3>1, StakeOfInsert
  <2>6. StakeOf(bets', mine) = StakeOf(bets, mine)
    BY <1>2, <2>1, <2>2, StakeOfAgree
  <2> DEFINE before == StakeOf(bets, mine)
             all == StakeOf(bets, held)
             after == StakeOf(bets', mine \cup {b})
  <2>7. before \in Nat /\ all \in Nat /\ before <= all /\ after = row.stake + before
    BY <2>3, <2>4, <2>5, <2>6
  <2>8. ~Exceeds(all + row.stake, Equity(p), f)
    BY <1>6
  <2> HIDE DEF before, all, after
  <2>9. after \in Int /\ all + row.stake \in Int /\ after <= all + row.stake
    BY <1>2, <2>7
  <2>10. ~Exceeds(after, Peak(p), f)
    BY <1>4, <2>8, <2>9, WithinGrows
  <2>11. QED
    BY <2>10 DEF after
<1>7. ASSUME NEW d \in Nat
      PROVE  /\ ~Exceeds(StakeOf(bets, ApprovedDay(p, d))', Peak(p)', Policy.daily)
             /\ ~Exceeds(StakeOf(bets, ApprovedParlays(p, d))', Peak(p)', Policy.dailyParlay)
  <2>1. /\ ApprovedDay(p, d)' = ApprovedDay(p, d) \cup (IF row.slate = d THEN {b} ELSE {})
        /\ ApprovedParlays(p, d)' = ApprovedParlays(p, d)
                                      \cup (IF row.slate = d /\ row.kind = "parlay" THEN {b} ELSE {})
    BY <1>2, <1>3 DEF ApprovedDay, ApprovedParlays, old
  <2>2. /\ ~Exceeds(StakeOf(bets, ApprovedDay(p, d)), Peak(p), Policy.daily)
        /\ ~Exceeds(StakeOf(bets, ApprovedParlays(p, d)), Peak(p), Policy.dailyParlay)
    BY DEF CapsOf
  <2>3. /\ StakeOf(bets', ApprovedDay(p, d)) = StakeOf(bets, ApprovedDay(p, d))
        /\ StakeOf(bets', ApprovedParlays(p, d)) = StakeOf(bets, ApprovedParlays(p, d))
    <3>1. ApprovedDay(p, d) \subseteq old /\ ApprovedParlays(p, d) \subseteq old
      BY DEF ApprovedDay, ApprovedParlays, old
    <3>2. QED
      BY <1>3, <3>1, StakeOfAgree
  <2>4. ~Exceeds(StakeOf(bets, ApprovedDay(p, d))', Peak(p)', Policy.daily)
    <3>1. CASE row.slate # d
      BY <2>1, <2>2, <2>3, <3>1
    <3>2. CASE row.slate = d
      <4> DEFINE held == {c \in OpenBets(bets, p) : bets[c].slate = d}
      <4>1. ~Exceeds(StakeOf(bets, held) + row.stake, Equity(p), Policy.daily)
        BY <1>1, <1>5, <3>2 DEF StakeCapsHold
      <4>2. ApprovedDay(p, d) \subseteq held \cap old /\ held \subseteq OpenBets(bets, p)
        BY <1>3 DEF ApprovedDay, old
      <4> HIDE DEF held
      <4>3. ~Exceeds(StakeOf(bets', ApprovedDay(p, d) \cup {b}), Peak(p)', Policy.daily)
        BY <1>6, <4>1, <4>2, PolicyTyped
      <4>4. QED
        BY <2>1, <3>2, <4>3
    <3>3. QED
      BY <3>1, <3>2
  <2>5. ~Exceeds(StakeOf(bets, ApprovedParlays(p, d))', Peak(p)', Policy.dailyParlay)
    <3>1. CASE ~(row.slate = d /\ row.kind = "parlay")
      BY <2>1, <2>2, <2>3, <3>1
    <3>2. CASE row.slate = d /\ row.kind = "parlay"
      <4> DEFINE sameDay == {c \in OpenBets(bets, p) : bets[c].slate = d}
                 held == {c \in sameDay : bets[c].kind = "parlay"}
      <4>1. ~Exceeds(StakeOf(bets, held) + row.stake, Equity(p), Policy.dailyParlay)
        BY <1>1, <1>5, <3>2 DEF StakeCapsHold
      <4>2. ApprovedParlays(p, d) \subseteq held \cap old /\ held \subseteq OpenBets(bets, p)
        BY <1>3 DEF ApprovedParlays, ApprovedDay, old
      <4> HIDE DEF held
      <4>3. ~Exceeds(StakeOf(bets', ApprovedParlays(p, d) \cup {b}), Peak(p)', Policy.dailyParlay)
        BY <1>6, <4>1, <4>2, PolicyTyped
      <4>4. QED
        BY <2>1, <3>2, <4>3
    <3>3. QED
      BY <3>1, <3>2
  <2>6. QED
    BY <2>4, <2>5
<1>8. ASSUME NEW g \in CapGroups
      PROVE  ~Exceeds(ExposedStake(bets, ApprovedIn(p, g.legs))', Peak(p)', g.cap)
  <2> DEFINE mine == ApprovedIn(p, g.legs)
             added == {l \in row.legs : l \in g.legs}
             new == LegsOf(b, added)
             held == {x \in OpenExposures(bets, p) : x.leg \in g.legs}
  <2>1. ApprovedIn(p, g.legs)' = mine \cup new
    <3>1. ASSUME NEW x \in ApprovedIn(p, g.legs)' PROVE x \in mine \cup new
      <4>1. x \in ExposuresOf(bets', ApprovedOpen(p)') /\ x.leg \in g.legs
        BY <3>1 DEF ApprovedIn
      <4>2. x.bet \in old \cup {b} /\ x.leg \in bets'[x.bet].legs /\ x = [bet |-> x.bet, leg |-> x.leg]
        BY <1>3, <4>1, LegOfExposure
      <4>3. CASE x.bet = b
        BY <1>2, <4>1, <4>2, <4>3 DEF LegsOf
      <4>4. CASE x.bet \in old
        <5>1. x \in ExposuresOf(bets, old)
          BY <1>3, <4>2, <4>4, ExposureOfLeg
        <5>2. QED
          BY <4>1, <5>1 DEF ApprovedIn, old
      <4>5. QED
        BY <4>2, <4>3, <4>4
    <3>2. ASSUME NEW x \in mine PROVE x \in ApprovedIn(p, g.legs)'
      <4>1. x \in ExposuresOf(bets, old) /\ x.leg \in g.legs
        BY <3>2 DEF ApprovedIn, old
      <4>2. x.bet \in old /\ x.leg \in bets[x.bet].legs /\ x = [bet |-> x.bet, leg |-> x.leg]
        BY <4>1, LegOfExposure
      <4>3. x \in ExposuresOf(bets', ApprovedOpen(p)')
        BY <1>3, <4>2, ExposureOfLeg
      <4>4. QED
        BY <4>1, <4>3 DEF ApprovedIn
    <3>3. ASSUME NEW l \in added PROVE [bet |-> b, leg |-> l] \in ApprovedIn(p, g.legs)'
      <4>1. l \in bets'[b].legs /\ b \in ApprovedOpen(p)'
        BY <1>2, <1>3
      <4>2. [bet |-> b, leg |-> l] \in ExposuresOf(bets', ApprovedOpen(p)')
        BY <4>1, ExposureOfLeg
      <4>3. QED
        BY <4>2 DEF ApprovedIn
    <3> HIDE DEF mine
    <3>4. QED
      BY <3>1, <3>2, <3>3 DEF LegsOf
  <2>2. /\ mine \subseteq held /\ IsFiniteSet(held) /\ IsFiniteSet(mine)
        /\ \A x \in held : bets[x.bet].stake \in Nat
        /\ \A x \in mine : x.bet # b /\ bets'[x.bet].stake = bets[x.bet].stake
    <3>1. /\ IsFiniteSet(OpenExposures(bets, p))
          /\ ExposuresOf(bets, ApprovedOpen(p)) \subseteq OpenExposures(bets, p)
          /\ \A x \in OpenExposures(bets, p) : bets[x.bet].stake \in Nat
      BY ApprovedTyped
    <3>2. mine \subseteq held /\ held \subseteq OpenExposures(bets, p)
      BY <3>1 DEF ApprovedIn
    <3>3. IsFiniteSet(held) /\ IsFiniteSet(mine)
      BY <3>1, <3>2, FS_Subset
    <3>4. ASSUME NEW x \in mine PROVE x.bet \in old
      BY LegOfExposure DEF ApprovedIn, old
    <3>5. QED
      BY <1>3, <3>1, <3>2, <3>3, <3>4
  <2>3. ExposedStake(bets', mine) = ExposedStake(bets, mine)
    BY <2>2, ExposedAgree
  <2>4. CASE added = {}
    <3>1. new = {}
      BY <2>4 DEF LegsOf
    <3>2. ~Exceeds(ExposedStake(bets, mine), Peak(p), g.cap)
      BY DEF CapsOf
    <3> HIDE DEF mine, new
    <3>3. ExposedStake(bets, ApprovedIn(p, g.legs))' = ExposedStake(bets, mine)
      BY <2>1, <2>3, <3>1
    <3>4. QED
      BY <3>2, <3>3
  <2>5. CASE added # {}
    <3>1. PICK target \in Row[r].legs : target \in g.legs
      BY <1>1, <2>5
    <3>2. GroupGranted(r, g)
      BY <1>1, <3>1, RecheckGroups
    <3>3. ~Exceeds(ExposedStake(bets, held) + row.stake * Cardinality(added), Equity(p), g.cap)
      BY <1>1, <3>2 DEF GroupGranted
    <3>4. IsFiniteSet(added) /\ Cardinality(added) \in Nat
      <4>1. IsFiniteSet(added)
        BY <1>2, FS_Subset
      <4>2. QED
        BY <4>1, FS_CardinalityType
    <3>5. ExposedStake(bets', mine \cup new) = ExposedStake(bets', mine) + row.stake * Cardinality(added)
      <4>1. bets'[b].stake = row.stake /\ row.stake \in Nat
        BY <1>2
      <4>2. \A x \in mine : x.bet # b /\ bets'[x.bet].stake \in Nat
        BY <2>2
      <4>3. IsFiniteSet(mine) /\ IsFiniteSet(added) /\ bets'[b].stake \in Nat
        BY <2>2, <3>4, <4>1
      <4> HIDE DEF mine, added
      <4>4. ExposedStake(bets', mine \cup new)
              = ExposedStake(bets', mine) + bets'[b].stake * Cardinality(added)
        BY <4>2, <4>3, ExposedInsert
      <4>5. QED
        BY <4>1, <4>4
    <3>6. ExposedStake(bets, mine) <= ExposedStake(bets, held)
      BY <2>2, ExposedMonotone
    <3>7. ExposedStake(bets, mine) \in Nat /\ ExposedStake(bets, held) \in Nat
      BY <2>2, ExposedNat
    <3>8. row.stake * Cardinality(added) \in Nat
      BY <1>2, <3>4
    <3> DEFINE before == ExposedStake(bets, mine)
               all == ExposedStake(bets, held)
               more == row.stake * Cardinality(added)
    <3>9. before \in Nat /\ all \in Nat /\ more \in Nat /\ before <= all
      BY <3>6, <3>7, <3>8
    <3>10. ExposedStake(bets, ApprovedIn(p, g.legs))' = before + more
      <4> HIDE DEF mine, added
      <4>1. ExposedStake(bets', ApprovedIn(p, g.legs)') = ExposedStake(bets', mine) + more
        BY <2>1, <3>5
      <4>2. QED
        BY <2>3, <4>1
    <3>11. ~Exceeds(all + more, Equity(p), g.cap)
      BY <3>3
    <3> HIDE DEF before, all, more
    <3>12. before + more \in Int /\ all + more \in Int /\ before + more <= all + more
      BY <3>9
    <3>13. ~Exceeds(before + more, Peak(p), g.cap)
      BY <1>4, <3>11, <3>12, CapGroupsTyped, WithinGrows
    <3>14. QED
      BY <3>10, <3>13
  <2>6. QED
    BY <2>4, <2>5
<1>9. QED
  BY <1>7, <1>8 DEF CapsOf

\* The larger of two integers is one of them.
LEMMA MaxOfTwo ==
  ASSUME NEW x \in Int, NEW y \in Int
  PROVE  /\ Max({x, y}) \in Int /\ Max({x, y}) >= x /\ Max({x, y}) >= y
         /\ Max({x, y}) = x \/ Max({x, y}) = y
<1>1. CASE x >= y
  <2>1. Max({x, y}) = x
    BY <1>1, MaxUnique
  <2>2. QED
    BY <1>1, <2>1
<1>2. CASE y >= x
  <2>1. Max({x, y}) = y
    BY <1>2, MaxUnique
  <2>2. QED
    BY <1>2, <2>1
<1>3. QED
  BY <1>1, <1>2

\* No step of the ledger passes a cap.
LEMMA CapsStep ==
  ASSUME TypeOK, BetsKnown, OrderSound, AccountContract!Conserved, CapsHold,
         TypeOK', OrderSound', [Next]_vars
  PROVE  CapsHold'
<1> SUFFICES ASSUME NEW p \in Portfolio PROVE CapsOf(p)'
  BY DEF CapsHold
<1>1. CapsOf(p) /\ Peak(p) \in Int
  BY PeakBounds DEF CapsHold
<1>2. ASSUME bets' = bets, settled' = settled PROVE CapsOf(p)'
  <2>1. Peak(p)' = Peak(p) /\ ApprovedOpen(p)' = ApprovedOpen(p)
    BY <1>2 DEF Peak, ApprovedOpen, OpenBets
  <2>2. QED
    BY <1>1, <1>2, <2>1, CapsKept
<1>3. ASSUME NEW q \in Portfolio, NEW b \in BetId, NEW row \in BetRow, NewBet(q, b, row)
      PROVE  CapsOf(p)'
  <2>1. /\ settled' = settled /\ DOMAIN bets' = DOMAIN bets \cup {b}
        /\ b \notin DOMAIN bets /\ bets'[b] = row /\ row.port = q
        /\ \A x \in DOMAIN bets : x \in DOMAIN bets' /\ bets'[x] = bets[x]
    BY <1>3 DEF NewBet
  <2>2. Peak(p)' = Peak(p)
    BY <2>1, PeakKept
  <2>3. CASE q = p /\ row.rec # NoRec
    BY <1>1, <1>3, <2>2, <2>3, CapsAfterApproval
  <2>4. CASE ~(q = p /\ row.rec # NoRec)
    <3>1. ApprovedOpen(p)' = ApprovedOpen(p) /\ \A c \in ApprovedOpen(p) : bets'[c] = bets[c]
      BY <2>1, <2>4 DEF ApprovedOpen, OpenBets, BetsWith
    <3>2. QED
      BY <1>1, <2>2, <3>1, CapsKept
  <2>5. QED
    BY <2>3, <2>4
<1>4. ASSUME NEW q \in Portfolio, NEW b \in BetId, NEW payout \in Payout, Settlement(q, b, payout)
      PROVE  CapsOf(p)'
  <2>1. /\ DOMAIN bets' = DOMAIN bets /\ b \in DOMAIN bets /\ bets'[b].status = "settled"
        /\ bets[b].status = "open" /\ bets[b].port = q
        /\ \A x \in DOMAIN bets \ {b} : bets'[x] = bets[x]
    BY <1>4 DEF Settlement, TypeOK, BetRow
  <2>2. ApprovedOpen(p)' \subseteq ApprovedOpen(p) /\ \A c \in ApprovedOpen(p)' : bets'[c] = bets[c]
    BY <2>1 DEF ApprovedOpen, OpenBets, BetsWith
  <2>3. Peak(p)' \in Int /\ Peak(p)' >= Peak(p)
    <3>1. CASE q = p
      <4>1. Peak(p)' = Max({Peak(p), StartingCapital + Realized(p)'})
        BY <1>4, <3>1, PeakAfterSettlement
      <4>2. Peak(p) \in Int /\ StartingCapital + Realized(p)' \in Int
        <5>1. Realized(p) \in Int /\ Realized(p)' = Realized(p) + payout
          BY <1>4, <3>1, SumsTyped, SettlementSums
        <5>2. payout \in Int
          BY PayoutAssumption
        <5>3. Realized(p)' \in Int
          BY <5>1, <5>2
        <5>4. QED
          BY <1>1, <5>3, CapitalAssumption
      <4>3. QED
        BY <4>1, <4>2, MaxOfTwo
    <3>2. CASE q # p
      <4>1. /\ settled'[p] = settled[p]
            /\ \A x \in DOMAIN bets : bets[x].status = "settled" => x \in DOMAIN bets' /\ bets'[x] = bets[x]
        BY <1>4, <2>1, <3>2 DEF Settlement, TypeOK
      <4>2. QED
        BY <1>1, <4>1, PeakKept
    <3>3. QED
      BY <3>1, <3>2
  <2>4. QED
    BY <1>1, <2>2, <2>3, CapsKept
<1>5. QED
  BY <1>2, <1>3, <1>4, MoneySteps DEF OpenPortfolio

\* The caps of the invariant include those of the property.
LEMMA CapsImply ==
  ASSUME TypeOK, BetsKnown, CapsHold
  PROVE  ApprovedExposureWithinPeak
<1> SUFFICES ASSUME NEW p \in Portfolio
             PROVE
        LET approved == ApprovedOpen(p)
            exposures == ExposuresOf(bets, approved)
            peak == Peak(p)
            On(Member(_)) == ExposedStake(bets, {x \in exposures : Member(x.leg)})
        IN  /\ \A b \in approved :
                  LET day == {c \in approved : bets[c].slate = bets[b].slate}
                  IN  /\ ~Exceeds(StakeOf(bets, day), peak, Policy.daily)
                      /\ ~Exceeds(StakeOf(bets, {c \in day : bets[c].kind = "parlay"}),
                                  peak, Policy.dailyParlay)
            /\ \A x \in exposures :
                  /\ ~Exceeds(On(LAMBDA l : l.event = x.leg.event), peak, Policy.game)
                  /\ ~Exceeds(On(LAMBDA l : l.event = x.leg.event), peak, Policy.correlated)
                  /\ ~Exceeds(On(LAMBDA l : l.market = x.leg.market), peak, Policy.market)
                  /\ \A t \in x.leg.teams :
                        ~Exceeds(On(LAMBDA l : t \in l.teams), peak, Policy.team)
  BY DEF ApprovedExposureWithinPeak
<1> DEFINE exposures == ExposuresOf(bets, ApprovedOpen(p))
<1>1. CapsOf(p)
  BY DEF CapsHold
<1>2. \A y \in exposures : y.leg \in Leg
  BY ApprovedTyped
<1>3. ASSUME NEW b \in ApprovedOpen(p)
      PROVE  /\ ~Exceeds(StakeOf(bets, ApprovedDay(p, bets[b].slate)), Peak(p), Policy.daily)
             /\ ~Exceeds(StakeOf(bets, ApprovedParlays(p, bets[b].slate)), Peak(p), Policy.dailyParlay)
  <2>1. b \in DOMAIN bets
    BY ApprovedTyped
  <2>2. bets[b].slate \in Nat
    BY <2>1 DEF TypeOK, BetRow
  <2>3. QED
    BY <1>1, <2>2 DEF CapsOf
<1>4. ASSUME NEW x \in exposures
      PROVE  /\ ~Exceeds(ExposedStake(bets, {y \in exposures : y.leg.event = x.leg.event}),
                         Peak(p), Policy.game)
             /\ ~Exceeds(ExposedStake(bets, {y \in exposures : y.leg.event = x.leg.event}),
                         Peak(p), Policy.correlated)
             /\ ~Exceeds(ExposedStake(bets, {y \in exposures : y.leg.market = x.leg.market}),
                         Peak(p), Policy.market)
             /\ \A t \in x.leg.teams :
                   ~Exceeds(ExposedStake(bets, {y \in exposures : t \in y.leg.teams}), Peak(p), Policy.team)
  <2> DEFINE m == x.leg
  <2>1. m \in Leg
    BY <1>2
  <2>2. /\ ApprovedIn(p, SameEvent(m)) = {y \in exposures : y.leg.event = x.leg.event}
        /\ ApprovedIn(p, SameMarket(m)) = {y \in exposures : y.leg.market = x.leg.market}
        /\ \A t \in m.teams : ApprovedIn(p, OfTeam(t)) = {y \in exposures : t \in y.leg.teams}
    BY <1>2 DEF ApprovedIn, SameEvent, SameMarket, OfTeam
  <2>3. /\ [legs |-> SameEvent(m), cap |-> Policy.game] \in CapGroups
        /\ [legs |-> SameEvent(m), cap |-> Policy.correlated] \in CapGroups
        /\ [legs |-> SameMarket(m), cap |-> Policy.market] \in CapGroups
        /\ \A t \in m.teams : [legs |-> OfTeam(t), cap |-> Policy.team] \in CapGroups
    BY <2>1 DEF CapGroups
  <2>4. /\ ~Exceeds(ExposedStake(bets, ApprovedIn(p, SameEvent(m))), Peak(p), Policy.game)
        /\ ~Exceeds(ExposedStake(bets, ApprovedIn(p, SameEvent(m))), Peak(p), Policy.correlated)
        /\ ~Exceeds(ExposedStake(bets, ApprovedIn(p, SameMarket(m))), Peak(p), Policy.market)
        /\ \A t \in m.teams : ~Exceeds(ExposedStake(bets, ApprovedIn(p, OfTeam(t))), Peak(p), Policy.team)
    <3>1. \A g \in CapGroups : ~Exceeds(ExposedStake(bets, ApprovedIn(p, g.legs)), Peak(p), g.cap)
      BY <1>1 DEF CapsOf
    <3>2. QED
      BY <2>3, <3>1
  <2>5. QED
    BY <2>2, <2>4
<1>5. QED
  BY <1>3, <1>4 DEF ApprovedDay, ApprovedParlays

\* Whatever is approved, placed, won and lost, and in which order: the approved open
\* exposure on a slate, game, team or market stays within that cap's share of the
\* highest equity the portfolio has reached (_validate_approval_risk).
THEOREM ApprovedWithinPeak == Spec => []ApprovedExposureWithinPeak
<1>1. Spec => []CapsHold
  BY CapsInit, CapsStep, LedgerTyping, BetsStayKnown, OrderStaysSound, OrderSoundInit,
     LedgerConserves, PTL DEF Spec
<1>2. QED
  BY <1>1, CapsImply, LedgerTyping, BetsStayKnown, PTL

------------------------------------------------------------------------------
(* The ledger while a read is under way *)

\* The ledger of a portfolio is finite in every state.
LedgerFinite == IsFiniteSet(ledger)

\* Recording a bet adds finitely many rows.
LEMMA RecordBetFinite ==
  ASSUME LedgerFinite, NEW who, NEW p, NEW b, NEW row, NEW key, RecordBet(who, p, b, row, key)
  PROVE  LedgerFinite'
<1>1. IsFiniteSet(OpeningEntry(p))
  BY FS_EmptySet, FS_Singleton DEF OpeningEntry
<1>2. IsFiniteSet(ledger \cup OpeningEntry(p))
  BY <1>1, FS_Union DEF LedgerFinite
<1>3. QED
  BY <1>2, FS_AddElement DEF LedgerFinite, RecordBet

\* Every transaction adds one or two rows to the ledger.
LEMMA LedgerStaysFinite == Spec => []LedgerFinite
<1>1. Init => LedgerFinite
  BY FS_EmptySet DEF Init, LedgerFinite
<1>2. LedgerFinite /\ [Next]_vars => LedgerFinite'
  <2> SUFFICES ASSUME LedgerFinite, [Next]_vars PROVE LedgerFinite'
    OBVIOUS
  <2>1. ASSUME ledger' = ledger PROVE LedgerFinite'
    BY <2>1 DEF LedgerFinite
  <2>2. ASSUME NEW who \in Principal, NEW p \in Portfolio, OpenPortfolio(who, p) PROVE LedgerFinite'
    <3>1. IsFiniteSet(OpeningEntry(p))
      BY FS_EmptySet, FS_Singleton DEF OpeningEntry
    <3>2. QED
      BY <2>2, <3>1, FS_Union DEF OpenPortfolio, LedgerFinite
  <2>3. ASSUME NEW who \in Principal, NEW p \in Portfolio, NEW b \in BetId, NEW order \in Order,
               NEW key \in Key \cup {NoKey}, PlaceBet(who, p, b, order, key)
        PROVE  LedgerFinite'
    BY <2>3, RecordBetFinite DEF PlaceBet
  <2>4. ASSUME NEW who \in Principal, NEW p \in Portfolio, NEW b \in BetId,
               NEW result \in {"win", "loss", "push"}, NEW payout \in Payout,
               NEW key \in Key \cup {NoKey}, SettleBet(who, p, b, result, payout, key)
        PROVE  LedgerFinite'
    BY <2>4, FS_AddElement DEF SettleBet, RecordSettlement, LedgerFinite
  <2>5. ASSUME NEW who \in Principal, NEW r \in Rec, NEW b \in BetId, Approve(who, r, b)
        PROVE  LedgerFinite'
    BY <2>5, RecordBetFinite DEF Approve
  <2>6. QED
    BY <2>1, <2>2, <2>3, <2>4, <2>5 DEF Next, vars, EnsureOwner, PersistDecision, Reject
<1>3. QED
  BY <1>1, <1>2, PTL DEF Spec

LedgerSound ==
    TypeOK /\ BetsKnown /\ OrderSound /\ AccountContract!Conserved /\ LedgerMatchesBets /\ LedgerFinite

\* What a transaction of another portfolio leaves alone.
SameMoney(p) ==
    /\ cash'[p] = cash[p]
    /\ OpenBets(bets, p)' = OpenBets(bets, p)
    /\ Reserved(bets, p)' = Reserved(bets, p)
    /\ Realized(p)' = Realized(p)
    /\ Peak(p)' = Peak(p)

\* Every transaction that moves a portfolio's money leaves a row in its ledger:
\* while the ledger is the same, so is everything a read adds up.
LEMMA NoRowNoChange ==
  ASSUME LedgerSound, [Next]_vars, NEW p \in Portfolio, holder[p] # NoOne,
         EntriesOf(p)' = EntriesOf(p)
  PROVE  SameMoney(p)
<1> USE DEF LedgerSound
<1>1. ASSUME bets' = bets, settled' = settled, cash'[p] = cash[p] PROVE SameMoney(p)
  BY <1>1 DEF SameMoney, OpenBets, Reserved, Realized, Peak
<1>2. ASSUME NEW who \in Principal, NEW q \in Portfolio, OpenPortfolio(who, q) PROVE SameMoney(p)
  BY <1>1, <1>2 DEF OpenPortfolio, TypeOK
<1>3. ASSUME NEW q \in Portfolio, NEW b \in BetId, NEW row \in BetRow, NewBet(q, b, row)
      PROVE  SameMoney(p)
  <2>1. p # q
    <3>1. PICK e \in ledger' : e.port = q /\ e.type = "bet_stake" /\ e.bet = b
      BY <1>3 DEF NewBet
    <3>2. e \notin ledger
      BY <1>3, <3>1 DEF NewBet, LedgerMatchesBets, EntryBacked
    <3>3. QED
      BY <3>1, <3>2 DEF EntriesOf
  <2>2. cash'[p] = cash[p] /\ settled'[p] = settled[p]
    BY <1>3, <2>1 DEF NewBet, TypeOK
  <2>3. /\ DOMAIN bets' = DOMAIN bets \cup {b} /\ bets'[b].port = q
        /\ \A x \in DOMAIN bets : x \in DOMAIN bets' /\ bets'[x] = bets[x]
    BY <1>3 DEF NewBet
  <2>4. Peak(p)' = Peak(p)
    BY <2>2, <2>3, PeakKept
  <2>5. OpenBets(bets, p)' = OpenBets(bets, p)
    BY <2>1, <2>3 DEF OpenBets, BetsWith
  <2>6. QED
    BY <1>3, <2>1, <2>2, <2>4, <2>5, NewBetSums DEF SameMoney
<1>4. ASSUME NEW q \in Portfolio, NEW b \in BetId, NEW payout \in Payout, Settlement(q, b, payout)
      PROVE  SameMoney(p)
  <2>1. p # q
    <3>1. PICK e \in ledger' : e.port = q /\ e.type = "settlement" /\ e.bet = b
      BY <1>4 DEF Settlement
    <3>2. e \notin ledger
      BY <1>4, <3>1 DEF Settlement, LedgerMatchesBets, EntryBacked
    <3>3. QED
      BY <3>1, <3>2 DEF EntriesOf
  <2>2. cash'[p] = cash[p] /\ settled'[p] = settled[p]
    BY <1>4, <2>1 DEF Settlement, TypeOK
  <2>3. /\ DOMAIN bets' = DOMAIN bets /\ b \in DOMAIN bets /\ bets[b].status = "open"
        /\ bets[b].port = q /\ bets'[b].port = q
        /\ \A x \in DOMAIN bets \ {b} : bets'[x] = bets[x]
    BY <1>4 DEF Settlement, TypeOK, BetRow
  <2>4. Peak(p)' = Peak(p)
    BY <2>2, <2>3, PeakKept
  <2>5. OpenBets(bets, p)' = OpenBets(bets, p)
    BY <2>1, <2>3 DEF OpenBets, BetsWith
  <2>6. QED
    BY <1>4, <2>1, <2>2, <2>4, <2>5, SettlementSums DEF SameMoney
<1>5. QED
  BY <1>1, <1>2, <1>3, <1>4, MoneySteps

------------------------------------------------------------------------------
(* A read and the mutations between its statements *)

\* What is left of the statements, after each of them.
CashFirst == <<"cash", "open", "settled">>
ThenOpen == <<"open", "settled">>
LastSettled == <<"settled">>

SettledFirst == <<"settled", "cash", "open">>
ThenCash == <<"cash", "open">>
LastOpen == <<"open">>

Done == <<>>

Orders == {CashFirst, ThenOpen, LastSettled, SettledFirst, ThenCash, LastOpen, Done}

\* The seven differ.
LEMMA OrdersDiffer ==
  /\ CashFirst \notin {ThenOpen, LastSettled, SettledFirst, ThenCash, LastOpen, Done}
  /\ ThenOpen \notin {LastSettled, SettledFirst, ThenCash, LastOpen, Done}
  /\ LastSettled \notin {SettledFirst, ThenCash, LastOpen, Done}
  /\ SettledFirst \notin {ThenCash, LastOpen, Done}
  /\ ThenCash \notin {LastOpen, Done}
  /\ LastOpen # Done
BY DEF CashFirst, ThenOpen, LastSettled, SettledFirst, ThenCash, LastOpen, Done

\* Each statement leaves the next.
LEMMA OrdersAdvance ==
  /\ Head(CashFirst) = "cash" /\ Tail(CashFirst) = ThenOpen
  /\ Head(ThenOpen) = "open" /\ Tail(ThenOpen) = LastSettled
  /\ Head(LastSettled) = "settled" /\ Tail(LastSettled) = Done
  /\ Head(SettledFirst) = "settled" /\ Tail(SettledFirst) = ThenCash
  /\ Head(ThenCash) = "cash" /\ Tail(ThenCash) = LastOpen
  /\ Head(LastOpen) = "open" /\ Tail(LastOpen) = Done
BY DEF CashFirst, ThenOpen, LastSettled, SettledFirst, ThenCash, LastOpen, Done

\* The fields of a read.
IsRead(r) ==
    r = [kind |-> r.kind, port |-> r.port, left |-> r.left, cash |-> r.cash, open |-> r.open,
         realized |-> r.realized, peak |-> r.peak, rows |-> r.rows, quiet |-> r.quiet, held |-> r.held]

\* What has been read is what a new statement would find.
PartsCurrent(r) ==
    /\ r.left \in {ThenOpen, LastSettled, LastOpen} => r.cash = cash[r.port]
    /\ r.left = LastSettled => r.open = OpenBets(bets, r.port)
    /\ r.left \in {ThenCash, LastOpen} =>
          r.realized = Realized(r.port) /\ r.peak = Peak(r.port)

Balanced(r) ==
    /\ r.cash + StakeOf(bets, r.open) = StartingCapital + r.realized
    /\ r.peak >= r.cash + StakeOf(bets, r.open)

ReadSound ==
    read # NoRead =>
        /\ IsRead(read)
        /\ read.kind \in {"snapshot", "portfolio", "stats"}
        /\ read.port \in Portfolio /\ holder[read.port] # NoOne
        /\ read.left \in Orders
        /\ read.kind = "snapshot" =>
              read.left \in {CashFirst, ThenOpen, LastSettled, Done}
        /\ read.open \subseteq DOMAIN bets
        /\ read.rows \in Nat /\ read.rows <= LedgerRows(read.port)
        /\ read.left # Done /\ LedgerRows(read.port) = read.rows => PartsCurrent(read)
        /\ read.left = Done /\ read.quiet => Balanced(read)

\* The rows of a portfolio are counted by a natural number that never falls, and
\* while it is the same the rows are.
LEMMA RowsGrow ==
  ASSUME LedgerSound, LedgerFinite', [Next]_vars, NEW p \in Portfolio
  PROVE  /\ LedgerRows(p) \in Nat /\ LedgerRows(p)' \in Nat /\ LedgerRows(p) <= LedgerRows(p)'
         /\ LedgerRows(p) = LedgerRows(p)' => EntriesOf(p)' = EntriesOf(p)
<1>1. ledger \subseteq ledger'
  BY HistoryStep DEF LedgerSound, HistoryKept, vars
<1> DEFINE rows == EntriesOf(p)
           more == EntriesOf(p)'
<1>2. IsFiniteSet(more) /\ rows \in SUBSET more
  <2>1. more \subseteq ledger'
    BY DEF EntriesOf
  <2>2. IsFiniteSet(ledger')
    BY DEF LedgerFinite
  <2>3. IsFiniteSet(more)
    BY <2>1, <2>2, FS_Subset
  <2>4. QED
    BY <1>1, <2>3 DEF EntriesOf
<1> HIDE DEF rows, more
<1>3. /\ IsFiniteSet(rows) /\ Cardinality(rows) <= Cardinality(more)
      /\ Cardinality(more) = Cardinality(rows) => more = rows
  BY <1>2, FS_Subset
<1>4. Cardinality(rows) \in Nat /\ Cardinality(more) \in Nat
  BY <1>2, <1>3, FS_CardinalityType
<1>5. QED
  BY <1>3, <1>4 DEF LedgerRows, rows, more

\* What each step leaves of the invariant's ledger part.
LEMMA MutationKeepsRead ==
  ASSUME LedgerSound, LedgerFinite', ReadSound, read # NoRead, [Next]_vars,
         NEW r, IsRead(r), r.kind = read.kind, r.port = read.port, r.left = read.left,
         r.cash = read.cash, r.open = read.open, r.realized = read.realized, r.peak = read.peak,
         r.rows = read.rows, r.quiet = read.quiet, read' = r
  PROVE  ReadSound'
<1>1. PICK p \in Portfolio : p = read.port /\ p = read'.port /\ holder[p] # NoOne
  BY DEF ReadSound
<1>2. /\ \A b \in DOMAIN bets : b \in DOMAIN bets' /\ bets'[b].stake = bets[b].stake
      /\ holder'[p] # NoOne
  <2>1. HistoryKept \/ UNCHANGED vars
    BY HistoryStep DEF LedgerSound
  <2>2. CASE HistoryKept
    <3>1. \A b \in DOMAIN bets : b \in DOMAIN bets' /\ Terms(bets'[b]) = Terms(bets[b])
      BY <2>2 DEF HistoryKept
    <3>2. \A b \in DOMAIN bets :
             Terms(bets'[b]).stake = bets'[b].stake /\ Terms(bets[b]).stake = bets[b].stake
      BY DEF Terms
    <3>3. QED
      BY <1>1, <2>2, <3>1, <3>2 DEF HistoryKept
  <2>3. CASE UNCHANGED vars
    BY <1>1, <2>3 DEF vars
  <2>4. QED
    BY <2>1, <2>2, <2>3
<1>3. /\ LedgerRows(p) \in Nat /\ LedgerRows(p)' \in Nat /\ LedgerRows(p) <= LedgerRows(p)'
      /\ LedgerRows(p) = LedgerRows(p)' => EntriesOf(p)' = EntriesOf(p)
  BY RowsGrow
<1>4. LedgerRows(read.port) = LedgerRows(p) /\ LedgerRows(read.port)' = LedgerRows(p)'
  BY <1>1 DEF LedgerRows, EntriesOf
<1>5. read.open \subseteq DOMAIN bets /\ read.rows \in Nat /\ read.rows <= LedgerRows(p)
  BY <1>4 DEF ReadSound
<1>6. read'.open \subseteq DOMAIN bets' /\ read'.rows \in Nat /\ read'.rows <= LedgerRows(read.port)'
  BY <1>2, <1>3, <1>4, <1>5
<1>7. ASSUME read'.left # Done, LedgerRows(read.port)' = read'.rows PROVE PartsCurrent(read)'
  <2>1. LedgerRows(p)' = LedgerRows(p) /\ LedgerRows(p) = read.rows
    BY <1>3, <1>4, <1>5, <1>7
  <2>2. SameMoney(p)
    BY <1>1, <1>3, <2>1, NoRowNoChange
  <2>3. PartsCurrent(read)
    BY <1>4, <1>7, <2>1 DEF ReadSound
  <2>4. /\ read.left \in {ThenOpen, LastSettled, LastOpen} => read.cash = cash[p]
        /\ read.left = LastSettled => read.open = OpenBets(bets, p)
        /\ read.left \in {ThenCash, LastOpen} => read.realized = Realized(p) /\ read.peak = Peak(p)
    BY <1>1, <2>3 DEF PartsCurrent
  <2>5. /\ read'.left \in {ThenOpen, LastSettled, LastOpen} => read'.cash = cash'[p]
        /\ read'.left = LastSettled => read'.open = OpenBets(bets, p)'
        /\ read'.left \in {ThenCash, LastOpen} => read'.realized = Realized(p)' /\ read'.peak = Peak(p)'
    BY <2>2, <2>4 DEF SameMoney
  <2>6. /\ OpenBets(bets, read.port)' = OpenBets(bets, p)' /\ Realized(read.port)' = Realized(p)'
        /\ Peak(read.port)' = Peak(p)'
    BY <1>1 DEF OpenBets, Realized, Peak, BetsWith
  <2>7. QED
    BY <1>1, <2>5, <2>6 DEF PartsCurrent
<1>8. ASSUME read'.left = Done, read'.quiet PROVE Balanced(read)'
  <2>1. Balanced(read)
    BY <1>8 DEF ReadSound
  <2>2. StakeOf(bets', read.open) = StakeOf(bets, read.open)
    BY <1>2, <1>5, StakeOfAgree
  <2>3. QED
    BY <2>1, <2>2 DEF Balanced
<1>9. QED
  BY <1>1, <1>2, <1>6, <1>7, <1>8 DEF ReadSound, LedgerSound

\* A bet that is settled is not among the open bets the session has loaded.
LEMMA LoadedAgrees ==
  ASSUME LedgerSound, NEW p \in Portfolio,
         read.kind = "snapshot" => read.open \subseteq OpenBets(bets, p)
  PROVE  /\ PnlOf(Loaded, BetsWith(bets, p, "settled")) = Realized(p)
         /\ PeakEquity(Loaded, settled[p]) = Peak(p)
<1>1. ASSUME NEW b \in DOMAIN bets, bets[b].status = "settled" PROVE Loaded[b].pnl = bets[b].pnl
  BY <1>1 DEF Loaded, OpenBets, BetsWith
<1>2. PnlOf(Loaded, BetsWith(bets, p, "settled")) = Realized(p)
  <2>1. \A b \in BetsWith(bets, p, "settled") : Loaded[b].pnl = bets[b].pnl
    BY <1>1 DEF BetsWith
  <2>2. QED
    BY <2>1, PnlOfAgree DEF Realized
<1>3. EquityPath(Loaded, settled[p]) = EquityPath(bets, settled[p])
  <2>1. \A i \in 1..Len(settled[p]) : Loaded[settled[p][i]].pnl = bets[settled[p][i]].pnl
    BY <1>1 DEF LedgerSound, OrderSound
  <2>2. settled[p] \in Seq(BetId)
    BY DEF LedgerSound, TypeOK
  <2>3. QED
    BY <2>1, <2>2, PathAgree
<1>4. QED
  BY <1>2, <1>3 DEF Peak, PeakEquity

\* Current parts balance.
LEMMA CurrentBalances ==
  ASSUME LedgerSound, NEW p \in Portfolio, holder[p] # NoOne
  PROVE  /\ cash[p] + StakeOf(bets, OpenBets(bets, p)) = StartingCapital + Realized(p)
         /\ Peak(p) >= cash[p] + StakeOf(bets, OpenBets(bets, p))
<1>1. cash[p] + Reserved(bets, p) = StartingCapital + Realized(p)
  BY DEF LedgerSound, AccountContract!Conserved
<1>2. Peak(p) >= StartingCapital + Realized(p)
  BY PeakBounds DEF LedgerSound
<1>3. QED
  BY <1>1, <1>2 DEF Reserved

\* Each statement adds one current part, or finds that the ledger has grown.
LEMMA StatementKeepsRead ==
  ASSUME LedgerSound, ReadSound, ReadCash \/ ReadOpen \/ ReadSettled
  PROVE  ReadSound'
<1>1. PICK p \in Portfolio : p = read.port /\ holder[p] # NoOne
  BY DEF ReadSound, Issues, ReadCash, ReadOpen, ReadSettled
<1>2. /\ read # NoRead /\ IsRead(read) /\ read.left \in Orders /\ read.left # Done
      /\ read.kind \in {"snapshot", "portfolio", "stats"}
      /\ read.open \subseteq DOMAIN bets /\ read.rows \in Nat /\ read.rows <= LedgerRows(p)
      /\ read.kind = "snapshot" =>
            read.left \in {CashFirst, ThenOpen, LastSettled, Done}
      /\ LedgerRows(p) = read.rows => PartsCurrent(read)
  BY <1>1 DEF ReadSound, Issues, ReadCash, ReadOpen, ReadSettled, LedgerRows, EntriesOf, Done
<1>3. UNCHANGED <<owners, holder, bets, settled, ledger, cash, recs, idem>>
  BY DEF ReadCash, ReadOpen, ReadSettled, vars
<1>4. /\ IsRead(read') /\ read'.kind = read.kind /\ read'.port = p /\ read'.rows = read.rows
      /\ read'.left = Tail(read.left) /\ read'.quiet = (LedgerRows(p) = read.rows)
      /\ read'.open \subseteq DOMAIN bets
      /\ \/ /\ Head(read.left) = "cash" /\ read'.cash = cash[p]
            /\ read'.open = read.open /\ read'.realized = read.realized /\ read'.peak = read.peak
         \/ /\ Head(read.left) = "open" /\ read'.open = OpenBets(bets, p)
            /\ read'.cash = read.cash /\ read'.realized = read.realized /\ read'.peak = read.peak
         \/ /\ Head(read.left) = "settled"
            /\ read'.realized = PnlOf(Loaded, BetsWith(bets, p, "settled"))
            /\ read'.peak = PeakEquity(Loaded, settled[p])
            /\ read'.cash = read.cash /\ read'.open = read.open
  <2>1. CASE ReadCash
    BY <1>1, <1>2, <2>1 DEF ReadCash, Advance, IsRead, Issues
  <2>2. CASE ReadOpen
    BY <1>1, <1>2, <2>2 DEF ReadOpen, Advance, IsRead, Issues, OpenBets, BetsWith
  <2>3. CASE ReadSettled
    BY <1>1, <1>2, <2>3 DEF ReadSettled, Advance, IsRead, Issues
  <2>4. QED
    BY <2>1, <2>2, <2>3
\* What the statement reads is current.
<1>5. ASSUME LedgerRows(p) = read.rows
      PROVE  /\ read'.left \in {ThenOpen, LastSettled, LastOpen, Done} => read'.cash = cash[p]
             /\ read'.left \in {LastSettled, Done} => read'.open = OpenBets(bets, p)
             /\ read'.left \in {ThenCash, LastOpen, Done} =>
                   read'.realized = Realized(p) /\ read'.peak = Peak(p)
  <2>1. /\ read.left \in {ThenOpen, LastSettled, LastOpen} => read.cash = cash[p]
        /\ read.left = LastSettled => read.open = OpenBets(bets, p)
        /\ read.left \in {ThenCash, LastOpen} => read.realized = Realized(p) /\ read.peak = Peak(p)
    BY <1>1, <1>2, <1>5 DEF PartsCurrent
  <2>2. CASE read.left \in {CashFirst, ThenCash}
    BY <1>4, <2>1, <2>2, OrdersDiffer, OrdersAdvance
  <2>3. CASE read.left \in {ThenOpen, LastOpen}
    BY <1>4, <2>1, <2>3, OrdersDiffer, OrdersAdvance
  <2>4. CASE read.left \in {SettledFirst, LastSettled}
    <3>1. read.kind = "snapshot" => read.open \subseteq OpenBets(bets, p)
      BY <1>2, <2>1, <2>4, OrdersDiffer
    <3>2. /\ PnlOf(Loaded, BetsWith(bets, p, "settled")) = Realized(p)
          /\ PeakEquity(Loaded, settled[p]) = Peak(p)
      BY <3>1, LoadedAgrees
    <3>3. QED
      BY <1>4, <2>1, <2>4, <3>2, OrdersDiffer, OrdersAdvance
  <2>5. QED
    BY <1>2, <2>2, <2>3, <2>4 DEF Orders
<1>6. ASSUME read'.left = Done, read'.quiet PROVE Balanced(read)'
  <2>1. /\ read'.cash = cash[p] /\ read'.open = OpenBets(bets, p)
        /\ read'.realized = Realized(p) /\ read'.peak = Peak(p)
    BY <1>4, <1>5, <1>6
  <2>2. QED
    BY <1>1, <1>3, <2>1, CurrentBalances DEF Balanced
<1>7. ASSUME read'.left # Done, LedgerRows(p) = read.rows PROVE PartsCurrent(read)'
  <2>1. /\ OpenBets(bets, read.port)' = OpenBets(bets, p) /\ Realized(read.port)' = Realized(p)
        /\ Peak(read.port)' = Peak(p)
    BY <1>3, <1>4 DEF OpenBets, Realized, Peak, BetsWith
  <2>2. QED
    BY <1>3, <1>4, <1>5, <1>7, <2>1 DEF PartsCurrent
<1>8. LedgerRows(read.port)' = LedgerRows(p)
  BY <1>3, <1>4 DEF LedgerRows, EntriesOf
<1>9. /\ read'.left \in Orders
      /\ read'.kind = "snapshot" =>
            read'.left \in {CashFirst, ThenOpen, LastSettled, Done}
  BY <1>2, <1>4, OrdersDiffer, OrdersAdvance DEF Orders
<1>10. QED
  BY <1>1, <1>2, <1>3, <1>4, <1>6, <1>7, <1>8, <1>9 DEF ReadSound

\* Beginning a read.
LEMMA BeginKeepsRead ==
  ASSUME LedgerSound, NEW who \in Principal, NEW p \in Portfolio, NEW kind \in DOMAIN Statements,
         Begin(who, p, kind)
  PROVE  ReadSound'
<1>1. /\ kind \in {"snapshot", "portfolio", "stats"}
      /\ kind \in {"snapshot", "portfolio"} => Statements[kind] = CashFirst
      /\ kind = "stats" => Statements[kind] = SettledFirst
  BY DEF Statements, CashFirst, SettledFirst
<1>2. /\ IsRead(read') /\ read'.kind = kind /\ read'.port = p /\ read'.left = Statements[kind]
      /\ read'.open = {} /\ read'.rows = LedgerRows(p)
  BY DEF Begin, IsRead
<1>3. holder'[p] # NoOne /\ ledger' = ledger
  BY SentinelAssumption DEF Begin, vars
<1>4. LedgerRows(read.port)' = LedgerRows(p) /\ LedgerRows(p) \in Nat
  <2>1. LedgerRows(read.port)' = LedgerRows(p)
    BY <1>2, <1>3 DEF LedgerRows, EntriesOf
  <2>2. IsFiniteSet(EntriesOf(p))
    <3>1. EntriesOf(p) \subseteq ledger
      BY DEF EntriesOf
    <3>2. QED
      BY <3>1, FS_Subset DEF LedgerSound, LedgerFinite
  <2>3. QED
    BY <2>1, <2>2, FS_CardinalityType DEF LedgerRows
<1>5. PartsCurrent(read)'
  BY <1>1, <1>2, OrdersDiffer DEF PartsCurrent
<1>6. read'.left \in Orders /\ read'.left # Done /\ (kind = "snapshot" => read'.left = CashFirst)
  BY <1>1, <1>2, OrdersDiffer DEF Orders
<1>7. QED
  BY <1>1, <1>2, <1>3, <1>4, <1>5, <1>6 DEF ReadSound

\* A read that no mutation of its portfolio overlapped balances.
THEOREM QuietReadsBalance == ReadSpec => []QuietReadBalances
<1>1. ReadInit => Init /\ ReadSound
  BY DEF ReadInit, ReadSound
<1>2. [ReadNext]_readVars => [Next]_vars
  BY DEF ReadNext, readVars, vars, Mutate, Begin, ReadCash, ReadOpen, ReadSettled, AnswerRead, Freeze, Next
<1>3. ReadSpec => Spec
  BY <1>1, <1>2, PTL DEF ReadSpec, Spec
<1>4. ReadSpec => []LedgerSound
  BY <1>3, LedgerTyping, BetsStayKnown, OrderStaysSound, LedgerConserves, LedgerAgreesWithBets,
     LedgerStaysFinite, PTL DEF LedgerSound
<1>5. LedgerSound /\ LedgerSound' /\ ReadSound /\ [ReadNext]_readVars => ReadSound'
  <2> SUFFICES ASSUME LedgerSound, LedgerSound', ReadSound, [ReadNext]_readVars PROVE ReadSound'
    OBVIOUS
  <2>1. LedgerFinite' /\ [Next]_vars
    BY <1>2 DEF LedgerSound
  <2>2. ASSUME read' = NoRead PROVE ReadSound'
    BY <2>2 DEF ReadSound
  <2>3. ASSUME read' = read, read # NoRead PROVE ReadSound'
    BY <2>1, <2>3, MutationKeepsRead DEF ReadSound
  <2>4. ASSUME Mutate PROVE ReadSound'
    <3>1. CASE read' = read
      BY <2>2, <2>3, <3>1
    <3>2. ASSUME NEW p \in Portfolio, read # NoRead, read' = [read EXCEPT !.held = @ \cup {Equity(p)'}]
          PROVE  ReadSound'
      <4>1. IsRead(read)
        BY <3>2 DEF ReadSound
      <4>2. /\ IsRead(read') /\ read'.kind = read.kind /\ read'.port = read.port /\ read'.left = read.left
            /\ read'.cash = read.cash /\ read'.open = read.open /\ read'.realized = read.realized
            /\ read'.peak = read.peak /\ read'.rows = read.rows /\ read'.quiet = read.quiet
        BY <3>2, <4>1 DEF IsRead
      <4>3. QED
        BY <2>1, <3>2, <4>2, MutationKeepsRead
    <3>3. QED
      BY <2>4, <3>1, <3>2 DEF Mutate
  <2>5. CASE \E who \in Principal, p \in Portfolio, kind \in DOMAIN Statements : Begin(who, p, kind)
    BY <2>5, BeginKeepsRead
  <2>6. CASE ReadCash \/ ReadOpen \/ ReadSettled
    BY <2>6, StatementKeepsRead
  <2>7. QED
    BY <2>2, <2>3, <2>4, <2>5, <2>6 DEF ReadNext, readVars, AnswerRead, Freeze
<1>6. ReadSound => QuietReadBalances
  BY DEF ReadSound, QuietReadBalances, Complete, Balanced, ReadEquity, Done
<1>7. QED
  BY <1>1, <1>4, <1>5, <1>6, PTL DEF ReadSpec

------------------------------------------------------------------------------
(* The decision engine and the recheck *)

\* Every leg that a book or a candidate can bring in.
EngineLeg ==
    {c.leg : c \in Candidate}
    \cup UNION {UNION {k.bets[b].legs : b \in DOMAIN k.bets} : k \in Book}

EventLegs(m) == {l \in EngineLeg : l.event = m.event}
MarketLegs(m) == {l \in EngineLeg : l.market = m.market}
TeamLegs(t) == {l \in EngineLeg : t \in l.teams}

\* The groups a parlay is sized within, and all that a straight is sized within.
ParlayGroups ==
    {[legs |-> EventLegs(m), cap |-> Policy.game] : m \in EngineLeg}
    \cup {[legs |-> TeamLegs(t), cap |-> Policy.team] : t \in UNION {m.teams : m \in EngineLeg}}

EngineGroups ==
    ParlayGroups
    \cup {[legs |-> EventLegs(m), cap |-> Policy.correlated] : m \in EngineLeg}
    \cup {[legs |-> MarketLegs(m), cap |-> Policy.market] : m \in EngineLeg}

HeldIn(G) == {x \in OpenExposures(paperBets, port) : x.leg \in G}

RecommendedIn(G) == {c \in Recommended : c.leg \in G}

\* Used, for a group given by its legs.
UsedIn(G) == ExposedStake(paperBets, HeldIn(G)) + RecommendedStake(RecommendedIn(G))

HeldToday == {x \in OpenExposures(paperBets, port) : paperBets[x.bet].slate = Slate}

\* The portfolio that is read, and what is recommended of the candidates.
HoldingSound ==
    /\ paperCash \in Nat
    /\ IsFiniteSet(DOMAIN paperBets)
    /\ paperOrder \in Seq(DOMAIN paperBets)
    /\ \A b \in DOMAIN paperBets :
          /\ paperBets[b].stake \in Nat /\ paperBets[b].pnl \in Int
          /\ paperBets[b].legs # {} /\ IsFiniteSet(paperBets[b].legs)
          /\ paperBets[b].legs \subseteq EngineLeg

RecommendedSound ==
    /\ IsFiniteSet(Recommended) /\ Recommended \subseteq Candidate
    /\ \A c \in Recommended : stakes[c] \in Nat

TableSound == HoldingSound /\ RecommendedSound

Unopposed(leg) ==
    /\ \A x \in OpenExposures(paperBets, port) : ~OpposedTo(x.leg, leg)
    /\ \A d \in Recommended : ~OpposedTo(d.leg, leg)

\* What the sizing keeps of the straights that are still to be approved: in every group
\* and on the slate, what is open and what is recommended fit together.
StraightsFit ==
    /\ RecommendedStake(Recommended) <= paperCash
    /\ Recommended # {} =>
          ~Paused(EquityNow, PeakNow) /\ ~Exceeds(UsedToday, EquityNow, Policy.daily)
    /\ \A c \in Recommended :
          /\ stakes[c] <= Policy.maxStake
          /\ ~Exceeds(stakes[c], EquityNow, PerBetFraction(c))
          /\ Unopposed(c.leg)
    /\ \A g \in EngineGroups :
          RecommendedIn(g.legs) # {} => ~Exceeds(UsedIn(g.legs), EquityNow, g.cap)

\* And of the parlay while it is proposed: it fits besides all of them.
ParlayFits ==
    /\ offer \in Offer /\ offer.legs \subseteq Candidate
    /\ offer.legs # {} /\ IsFiniteSet(offer.legs)
    /\ \A c, d \in offer.legs :
          c # d => c.leg.event # d.leg.event /\ c.leg.teams \cap d.leg.teams = {}
    /\ ~Exceeds(parlayStake, EquityNow, Policy.parlay)
    /\ ~Exceeds(UsedToday + parlayStake, EquityNow, Policy.daily)
    /\ ~Exceeds(UsedByParlays + parlayStake, EquityNow, Policy.dailyParlay)
    /\ \A c \in offer.legs : Unopposed(c.leg)
    /\ \A g \in ParlayGroups :
          (\E c \in offer.legs : c.leg \in g.legs) =>
              ~Exceeds(UsedIn(g.legs) + parlayStake, EquityNow, g.cap)

EngineSound ==
    /\ EngineTypeOK
    /\ TableSound
    /\ phase # "review" => offer = NoOffer /\ parlayStake = 0
    /\ ~ParlayApproved => StraightsFit
    /\ ParlayProposed => ParlayFits

\* An amount within a rounded share of equity does not exceed the fraction.
LEMMA WithinShare ==
  ASSUME NEW amount \in Int, NEW equity \in Int, NEW fraction \in Int,
         amount <= (equity * fraction) \div 1000
  PROVE  ~Exceeds(amount, equity, fraction)
<1>1. PICK whole \in Int : whole = equity * fraction
  OBVIOUS
<1>2. amount * 1000 <= whole
  BY <1>1
<1>3. QED
  BY <1>1, <1>2 DEF Exceeds

\* The fractions a straight or a parlay is sized with.
LEMMA FractionsTyped ==
  /\ Policy.coreBet \in Nat /\ Policy.oppBet \in Nat /\ Policy.parlay \in Nat
  /\ Policy.reducedFactor \in Nat /\ Policy.reducedFactor <= 1000
  /\ Policy.minStake \in Nat /\ Policy.minStake > 0 /\ Policy.maxStake \in Nat
<1>1. /\ Policy.coreBet \in PolicyFraction /\ Policy.oppBet \in PolicyFraction
      /\ Policy.parlay \in 0..7 /\ Policy.reducedFactor \in PolicyFraction
      /\ Policy.minStake \in Nat \ {0} /\ Policy.maxStake \in Nat \ {0}
  BY PolicyAssumption DEF PolicyType
<1>2. \A n \in PolicyFraction : n \in Nat /\ n <= 1000
  BY DEF PolicyFraction
<1>3. \A n \in 0..7 : n \in Nat
  OBVIOUS
<1>4. \A n \in Nat \ {0} : n \in Nat /\ n > 0
  OBVIOUS
<1>5. QED
  BY <1>1, <1>2, <1>3, <1>4

\* What is open is finite, of known legs and natural stakes.
LEMMA HeldTyped ==
  ASSUME TableSound
  PROVE  /\ IsFiniteSet(OpenBets(paperBets, port)) /\ OpenBets(paperBets, port) \subseteq DOMAIN paperBets
         /\ IsFiniteSet(OpenExposures(paperBets, port))
         /\ \A x \in OpenExposures(paperBets, port) :
               /\ x.bet \in OpenBets(paperBets, port) /\ x.leg \in EngineLeg
               /\ paperBets[x.bet].stake \in Nat
         /\ EquityNow \in Nat
<1> DEFINE open == OpenBets(paperBets, port)
<1>1. open \subseteq DOMAIN paperBets
  BY DEF OpenBets, BetsWith
<1>2. IsFiniteSet(open)
  BY <1>1, FS_Subset DEF TableSound, HoldingSound
<1>3. \A b \in open :
         /\ IsFiniteSet(paperBets[b].legs) /\ paperBets[b].stake \in Nat
         /\ paperBets[b].legs \subseteq EngineLeg
  BY <1>1 DEF TableSound, HoldingSound
<1>4. IsFiniteSet(OpenExposures(paperBets, port))
  BY <1>2, <1>3, ExposuresFinite DEF OpenExposures
<1>5. ASSUME NEW x \in OpenExposures(paperBets, port)
      PROVE  x.bet \in open /\ x.leg \in EngineLeg /\ paperBets[x.bet].stake \in Nat
  <2>1. x.bet \in open /\ x.leg \in paperBets[x.bet].legs
    BY LegOfExposure DEF OpenExposures
  <2>2. QED
    BY <1>3, <2>1
<1>6. Reserved(paperBets, port) \in Nat
  BY <1>2, <1>3, StakeOfNat DEF Reserved
<1>7. paperCash \in Nat
  BY DEF TableSound, HoldingSound
<1>8. EquityNow \in Nat
  BY <1>6, <1>7 DEF EquityNow
<1>9. QED
  BY <1>1, <1>2, <1>4, <1>5, <1>8

\* Part of what is recommended has a natural total, no larger than the whole.
LEMMA RecommendedTyped ==
  ASSUME TableSound, NEW some \in SUBSET Recommended
  PROVE  /\ IsFiniteSet(some) /\ RecommendedStake(some) \in Nat
         /\ RecommendedStake(some) <= RecommendedStake(Recommended)
         /\ \A c \in some : stakes[c] <= RecommendedStake(some)
<1>1. IsFiniteSet(Recommended) /\ \A c \in Recommended : stakes[c] \in Nat
  BY DEF TableSound, RecommendedSound
<1>2. IsFiniteSet(some) /\ \A c \in some : stakes[c] \in Nat
  BY <1>1, FS_Subset
<1>3. Total(stakes, some) \in Nat /\ Total(stakes, some) <= Total(stakes, Recommended)
  BY <1>1, <1>2, TotalNat, TotalMonotone
<1>4. ASSUME NEW c \in some PROVE stakes[c] <= Total(stakes, some)
  <2>1. IsFiniteSet(some \ {c}) /\ \A d \in some \ {c} : stakes[d] \in Nat
    BY <1>2, FS_Subset
  <2>2. Total(stakes, some \ {c}) \in Nat
    BY <2>1, TotalNat
  <2>3. Total(stakes, some) = stakes[c] + Total(stakes, some \ {c})
    BY <1>2, TotalRemove
  <2>4. QED
    BY <1>2, <2>2, <2>3
<1>5. QED
  BY <1>2, <1>3, <1>4 DEF RecommendedStake

\* So has what is used.
LEMMA UsedTyped ==
  ASSUME TableSound
  PROVE  /\ \A G : /\ ExposedStake(paperBets, HeldIn(G)) \in Nat
                   /\ RecommendedStake(RecommendedIn(G)) \in Nat
                   /\ UsedIn(G) \in Nat
         /\ UsedToday \in Nat /\ UsedByParlays \in Nat
         /\ ExposedStake(paperBets, HeldToday) \in Nat
         /\ RecommendedStake(Recommended) \in Nat
<1>1. ASSUME NEW part \in SUBSET OpenExposures(paperBets, port)
      PROVE  ExposedStake(paperBets, part) \in Nat
  <2>1. IsFiniteSet(part) /\ \A x \in part : paperBets[x.bet].stake \in Nat
    BY HeldTyped, FS_Subset
  <2>2. QED
    BY <2>1, ExposedNat
<1>2. RecommendedStake(Recommended) \in Nat
  BY RecommendedTyped
<1>3. ASSUME NEW G
      PROVE  ExposedStake(paperBets, HeldIn(G)) \in Nat /\ RecommendedStake(RecommendedIn(G)) \in Nat
  <2>1. HeldIn(G) \subseteq OpenExposures(paperBets, port) /\ RecommendedIn(G) \subseteq Recommended
    BY DEF HeldIn, RecommendedIn
  <2>2. QED
    BY <1>1, <2>1, RecommendedTyped
<1>4. HeldToday \subseteq OpenExposures(paperBets, port)
  BY DEF HeldToday
<1>5. ExposedStake(paperBets, HeldToday) \in Nat
  BY <1>1, <1>4
<1>6. UsedToday = ExposedStake(paperBets, HeldToday) + RecommendedStake(Recommended)
  BY DEF UsedToday, HeldToday
<1>7. UsedByParlays \in Nat
  BY <1>1 DEF UsedByParlays
<1>8. QED
  BY <1>2, <1>3, <1>5, <1>6, <1>7 DEF UsedIn

------------------------------------------------------------------------------
(* Sizing *)

\* The groups the engine sums are those of the known legs.
LEMMA GroupsUsed ==
  ASSUME TableSound, NEW m
  PROVE  /\ Used(LAMBDA l : l.event = m.event) = UsedIn(EventLegs(m))
         /\ Used(LAMBDA l : l.market = m.market) = UsedIn(MarketLegs(m))
         /\ \A t : Used(LAMBDA l : t \in l.teams) = UsedIn(TeamLegs(t))
<1>1. \A x \in OpenExposures(paperBets, port) : x.leg \in EngineLeg
  BY HeldTyped
<1>2. \A c \in Recommended : c.leg \in EngineLeg
  BY DEF TableSound, RecommendedSound, EngineLeg
<1>3. Used(LAMBDA l : l.event = m.event) = UsedIn(EventLegs(m))
  <2>1. {x \in OpenExposures(paperBets, port) : x.leg.event = m.event} = HeldIn(EventLegs(m))
    BY <1>1 DEF HeldIn, EventLegs
  <2>2. {c \in Recommended : c.leg.event = m.event} = RecommendedIn(EventLegs(m))
    BY <1>2 DEF RecommendedIn, EventLegs
  <2>3. QED
    BY <2>1, <2>2 DEF Used, UsedIn
<1>4. Used(LAMBDA l : l.market = m.market) = UsedIn(MarketLegs(m))
  <2>1. {x \in OpenExposures(paperBets, port) : x.leg.market = m.market} = HeldIn(MarketLegs(m))
    BY <1>1 DEF HeldIn, MarketLegs
  <2>2. {c \in Recommended : c.leg.market = m.market} = RecommendedIn(MarketLegs(m))
    BY <1>2 DEF RecommendedIn, MarketLegs
  <2>3. QED
    BY <2>1, <2>2 DEF Used, UsedIn
<1>5. ASSUME NEW t PROVE Used(LAMBDA l : t \in l.teams) = UsedIn(TeamLegs(t))
  <2>1. {x \in OpenExposures(paperBets, port) : t \in x.leg.teams} = HeldIn(TeamLegs(t))
    BY <1>1 DEF HeldIn, TeamLegs
  <2>2. {c \in Recommended : t \in c.leg.teams} = RecommendedIn(TeamLegs(t))
    BY <1>2 DEF RecommendedIn, TeamLegs
  <2>3. QED
    BY <2>1, <2>2 DEF Used, UsedIn
<1>6. QED
  BY <1>3, <1>4, <1>5

\* The groups of a leg are those of its event, its market and its teams.
LEMMA GroupsOfLeg ==
  ASSUME NEW leg \in EngineLeg, NEW g \in EngineGroups, leg \in g.legs
  PROVE  /\ \/ g.legs = EventLegs(leg) /\ g.cap \in {Policy.game, Policy.correlated}
            \/ g.legs = MarketLegs(leg) /\ g.cap = Policy.market
            \/ \E t \in leg.teams : g.legs = TeamLegs(t) /\ g.cap = Policy.team
         /\ g \in ParlayGroups =>
               \/ g.legs = EventLegs(leg) /\ g.cap = Policy.game
               \/ \E t \in leg.teams : g.legs = TeamLegs(t) /\ g.cap = Policy.team
<1>1. \A m \in EngineLeg : leg \in EventLegs(m) => EventLegs(m) = EventLegs(leg)
  BY DEF EventLegs
<1>2. \A m \in EngineLeg : leg \in MarketLegs(m) => MarketLegs(m) = MarketLegs(leg)
  BY DEF MarketLegs
<1>3. \A t : leg \in TeamLegs(t) => t \in leg.teams
  BY DEF TeamLegs
<1>4. g \in ParlayGroups =>
         \/ g.legs = EventLegs(leg) /\ g.cap = Policy.game
         \/ \E t \in leg.teams : g.legs = TeamLegs(t) /\ g.cap = Policy.team
  BY <1>1, <1>3 DEF ParlayGroups
<1>5. CASE g \in ParlayGroups
  BY <1>4, <1>5
<1>6. CASE \E m \in EngineLeg : g = [legs |-> EventLegs(m), cap |-> Policy.correlated]
  BY <1>1, <1>4, <1>6
<1>7. CASE \E m \in EngineLeg : g = [legs |-> MarketLegs(m), cap |-> Policy.market]
  BY <1>2, <1>4, <1>7
<1>8. QED
  BY <1>5, <1>6, <1>7 DEF EngineGroups

\* And all of them are groups.
LEMMA LegsGroups ==
  ASSUME NEW leg \in EngineLeg
  PROVE  /\ [legs |-> EventLegs(leg), cap |-> Policy.game] \in ParlayGroups
         /\ [legs |-> EventLegs(leg), cap |-> Policy.correlated] \in EngineGroups
         /\ [legs |-> MarketLegs(leg), cap |-> Policy.market] \in EngineGroups
         /\ \A t \in leg.teams : [legs |-> TeamLegs(t), cap |-> Policy.team] \in ParlayGroups
         /\ ParlayGroups \subseteq EngineGroups
         /\ leg \in EventLegs(leg) /\ leg \in MarketLegs(leg) /\ \A t \in leg.teams : leg \in TeamLegs(t)
BY DEF EngineGroups, ParlayGroups, EventLegs, MarketLegs, TeamLegs

\* The fractions of the groups.
LEMMA EngineCapsTyped == \A g \in EngineGroups : g.cap \in Nat
BY PolicyTyped DEF EngineGroups, ParlayGroups

\* Rounded shares and allocations are integers.
LEMMA SharesTyped ==
  ASSUME TableSound, NEW fraction \in Nat
  PROVE  Share(fraction) \in Int /\ Allocation(fraction) \in Int
<1>1. EquityNow \in Nat /\ Policy.reducedFactor \in Nat
  BY HeldTyped, FractionsTyped
<1>2. EquityNow * fraction \in Int
  BY <1>1
<1>3. EquityNow * fraction * Policy.reducedFactor \in Int
  BY <1>1, <1>2
<1>4. \A n \in Int : n \div 1000 \in Int /\ n \div 1000000 \in Int
  OBVIOUS
<1>5. QED
  BY <1>2, <1>3, <1>4 DEF Share, Allocation

\* The rooms of the teams of a leg, one each.
LEMMA TeamRoomsTyped ==
  ASSUME TableSound, NEW leg, IsFiniteSet(leg.teams)
  PROVE  /\ IsFiniteSet(TeamRooms(leg)) /\ TeamRooms(leg) \subseteq Int
         /\ TeamRooms(leg) = {Share(Policy.team) - UsedIn(TeamLegs(t)) : t \in leg.teams}
<1> DEFINE rooms == {Share(Policy.team) - UsedIn(TeamLegs(t)) : t \in leg.teams}
           f == [t \in leg.teams |-> Share(Policy.team) - UsedIn(TeamLegs(t))]
<1>1. TeamRooms(leg) = rooms
  BY GroupsUsed DEF TeamRooms, Used
<1>2. f \in Surjection(leg.teams, rooms)
  BY DEF Surjection
<1>3. rooms \subseteq Int
  <2>1. Share(Policy.team) \in Int
    BY SharesTyped, PolicyTyped
  <2>2. \A t : UsedIn(TeamLegs(t)) \in Nat
    BY UsedTyped
  <2>3. QED
    BY <2>1, <2>2
<1> HIDE DEF rooms, f
<1>4. IsFiniteSet(rooms)
  BY <1>2, FS_Surjection
<1>5. QED
  BY <1>1, <1>3, <1>4 DEF rooms

\* One more element leaves a set finite.
LEMMA OneMoreFinite ==
  ASSUME NEW S, IsFiniteSet(S), NEW x
  PROVE  IsFiniteSet(S \cup {x})
BY FS_AddElement

\* A set listed by its members is finite.
LEMMA FewFinite ==
  ASSUME NEW a, NEW b, NEW c, NEW d, NEW e, NEW f, NEW g
  PROVE  IsFiniteSet({a, b, c, d}) /\ IsFiniteSet({a, b, c, d, e, f, g})
<1> DEFINE two == {a} \cup {b}
           three == two \cup {c}
           four == three \cup {d}
           five == four \cup {e}
           six == five \cup {f}
           seven == six \cup {g}
<1>1. four = {a, b, c, d} /\ seven = {a, b, c, d, e, f, g}
  OBVIOUS
<1>2. IsFiniteSet(two)
  BY FS_Singleton, OneMoreFinite
<1> HIDE DEF two
<1>3. IsFiniteSet(three)
  BY <1>2, OneMoreFinite
<1> HIDE DEF three
<1>4. IsFiniteSet(four)
  BY <1>3, OneMoreFinite
<1> HIDE DEF four
<1>5. IsFiniteSet(five)
  BY <1>4, OneMoreFinite
<1> HIDE DEF five
<1>6. IsFiniteSet(six)
  BY <1>5, OneMoreFinite
<1> HIDE DEF six
<1>7. IsFiniteSet(seven)
  BY <1>6, OneMoreFinite
<1> HIDE DEF seven
<1>8. QED
  BY <1>1, <1>4, <1>7

\* The stake of a candidate is within every room there is for it.
LEMMA SizedWithin ==
  ASSUME TableSound, NEW c \in Candidate, NEW s, s = StakeFor(c)
  PROVE  /\ s \in Int /\ s <= Policy.maxStake
         /\ ~Exceeds(s, EquityNow, PerBetFraction(c))
         /\ s + RecommendedStake(Recommended) <= paperCash
         /\ ~Exceeds(UsedToday + s, EquityNow, Policy.daily)
         /\ \A g \in EngineGroups :
               c.leg \in g.legs => ~Exceeds(UsedIn(g.legs) + s, EquityNow, g.cap)
<1> DEFINE event == UsedIn(EventLegs(c.leg))
           market == UsedIn(MarketLegs(c.leg))
           six == {Share(PerBetFraction(c)), Policy.maxStake,
                   paperCash - RecommendedStake(Recommended), Share(Policy.daily) - UsedToday,
                   Share(Policy.game) - event, Share(Policy.market) - market,
                   Share(Policy.correlated) - event}
           rooms == {Allocation(c.adjusted)} \cup six \cup TeamRooms(c.leg)
<1>1. PerBetFraction(c) \in Nat
  BY FractionsTyped DEF PerBetFraction
<1>2. /\ Share(PerBetFraction(c)) \in Int /\ Share(Policy.daily) \in Int /\ Share(Policy.game) \in Int
      /\ Share(Policy.market) \in Int /\ Share(Policy.correlated) \in Int /\ Share(Policy.team) \in Int
  BY <1>1, SharesTyped, PolicyTyped
<1>3. /\ paperCash \in Nat /\ EquityNow \in Nat /\ UsedToday \in Nat /\ Policy.maxStake \in Nat
      /\ RecommendedStake(Recommended) \in Nat /\ event \in Nat /\ market \in Nat
  BY HeldTyped, UsedTyped, FractionsTyped DEF TableSound, HoldingSound
<1>4. /\ IsFiniteSet(TeamRooms(c.leg)) /\ TeamRooms(c.leg) \subseteq Int
      /\ TeamRooms(c.leg) = {Share(Policy.team) - UsedIn(TeamLegs(t)) : t \in c.leg.teams}
  BY TeamRoomsTyped, CandidateAssumption
<1>5. Allocation(c.adjusted) \in Int
  BY SharesTyped, CandidateAssumption
<1>6. StakeFor(c) = Min(rooms)
  <2>1. Rooms(c) = six \cup TeamRooms(c.leg)
    BY GroupsUsed DEF Rooms, Used
  <2>2. {Allocation(c.adjusted)} \cup Rooms(c) = rooms
    BY <2>1
  <2>3. QED
    BY <2>2 DEF StakeFor
<1>7. six \subseteq Int /\ IsFiniteSet(six)
  <2>1. six \subseteq Int
    BY <1>2, <1>3
  <2>2. IsFiniteSet(six)
    BY FewFinite
  <2>3. QED
    BY <2>1, <2>2
<1>8. rooms \in SUBSET Int /\ IsFiniteSet(rooms) /\ rooms # {}
  <2>1. rooms \in SUBSET Int /\ rooms # {}
    BY <1>4, <1>5, <1>7
  <2>2. IsFiniteSet({Allocation(c.adjusted)} \cup six)
    BY <1>7, FS_Singleton, FS_Union
  <2>3. QED
    BY <1>4, <2>1, <2>2, FS_Union
<1> HIDE DEF rooms
<1>9. s \in rooms /\ \A r \in rooms : s <= r
  BY <1>6, <1>8, MinIs
<1>10. s \in Int
  BY <1>8, <1>9
<1>11. /\ s <= Share(PerBetFraction(c)) /\ s <= Policy.maxStake
       /\ s <= paperCash - RecommendedStake(Recommended) /\ s <= Share(Policy.daily) - UsedToday
       /\ s <= Share(Policy.game) - event /\ s <= Share(Policy.market) - market
       /\ s <= Share(Policy.correlated) - event
       /\ \A t \in c.leg.teams : s <= Share(Policy.team) - UsedIn(TeamLegs(t))
  BY <1>4, <1>9 DEF rooms
<1> HIDE DEF six, event, market
<1>12. ASSUME NEW fraction \in Nat, NEW used \in Nat, s <= Share(fraction) - used
       PROVE  ~Exceeds(used + s, EquityNow, fraction)
  <2>1. Share(fraction) \in Int
    BY SharesTyped
  <2>2. used + s <= Share(fraction) /\ used + s \in Int
    BY <1>10, <1>12, <2>1
  <2>3. QED
    BY <1>3, <2>2, WithinShare DEF Share
<1>13. ~Exceeds(s, EquityNow, PerBetFraction(c))
  BY <1>1, <1>3, <1>10, <1>11, WithinShare DEF Share
<1>14. s + RecommendedStake(Recommended) <= paperCash
  BY <1>3, <1>10, <1>11
<1>15. ~Exceeds(UsedToday + s, EquityNow, Policy.daily)
  BY <1>3, <1>11, <1>12, PolicyTyped
<1>16. ASSUME NEW g \in EngineGroups, c.leg \in g.legs
       PROVE  ~Exceeds(UsedIn(g.legs) + s, EquityNow, g.cap)
  <2>1. \/ g.legs = EventLegs(c.leg) /\ g.cap \in {Policy.game, Policy.correlated}
        \/ g.legs = MarketLegs(c.leg) /\ g.cap = Policy.market
        \/ \E t \in c.leg.teams : g.legs = TeamLegs(t) /\ g.cap = Policy.team
    <3>1. c.leg \in EngineLeg
      BY DEF EngineLeg
    <3>2. QED
      BY <1>16, <3>1, GroupsOfLeg
  <2>2. s <= Share(g.cap) - UsedIn(g.legs)
    BY <1>11, <2>1 DEF event, market
  <2>3. g.cap \in Nat /\ UsedIn(g.legs) \in Nat
    BY UsedTyped, EngineCapsTyped
  <2>4. QED
    BY <1>12, <2>2, <2>3
<1>17. QED
  BY <1>10, <1>11, <1>13, <1>14, <1>15, <1>16

\* A larger fraction of an equity that is not negative leaves more room.
LEMMA FractionGrows ==
  ASSUME NEW amount \in Int, NEW equity \in Nat, NEW fraction \in Nat, NEW more \in Nat,
         ~Exceeds(amount, equity, fraction), fraction <= more
  PROVE  ~Exceeds(amount, equity, more)
<1>1. PICK n \in Nat : more = fraction + n
  <2>1. more - fraction \in Nat /\ more = fraction + (more - fraction)
    OBVIOUS
  <2>2. QED
    BY <2>1
<1>2. equity * more = equity * fraction + equity * n /\ equity * n \in Nat
  BY <1>1
<1>3. equity * fraction \in Int /\ equity * more \in Int
  OBVIOUS
<1>4. QED
  BY <1>2, <1>3 DEF Exceeds

\* The reduced-risk multiplier never enlarges an allocation.
LEMMA AllocationWithin ==
  ASSUME TableSound, NEW fraction \in Nat
  PROVE  ~Exceeds(Allocation(fraction), EquityNow, fraction)
<1>1. EquityNow \in Nat /\ Policy.reducedFactor \in Nat /\ Policy.reducedFactor <= 1000
  BY HeldTyped, FractionsTyped
<1>2. CASE Reduced(EquityNow, PeakNow)
  <2>1. PICK whole \in Nat : whole = EquityNow * fraction
    BY <1>1
  <2>2. PICK n \in Nat : Policy.reducedFactor + n = 1000
    <3>1. 1000 - Policy.reducedFactor \in Nat
          /\ Policy.reducedFactor + (1000 - Policy.reducedFactor) = 1000
      BY <1>1
    <3>2. QED
      BY <3>1
  <2>3. PICK cut \in Int : cut = whole * Policy.reducedFactor
    BY <1>1
  <2>4. whole * 1000 = cut + whole * n /\ whole * n \in Nat
    <3>1. whole * (Policy.reducedFactor + n) = whole * Policy.reducedFactor + whole * n
      BY <1>1
    <3>2. whole * n \in Nat
      OBVIOUS
    <3>3. QED
      BY <2>2, <2>3, <3>1, <3>2
  <2>5. cut <= whole * 1000
    BY <2>4
  <2>6. Allocation(fraction) = cut \div 1000000
    BY <1>2, <2>1, <2>3 DEF Allocation
  <2>7. (cut \div 1000000) * 1000 <= whole
    BY <2>5
  <2>8. QED
    BY <2>1, <2>6, <2>7 DEF Exceeds
<1>3. CASE ~Reduced(EquityNow, PeakNow)
  <2>1. Allocation(fraction) = (EquityNow * fraction) \div 1000
    BY <1>3 DEF Allocation, Share
  <2>2. Allocation(fraction) \in Int
    BY SharesTyped
  <2>3. QED
    BY <1>1, <2>1, <2>2, WithinShare
<1>4. QED
  BY <1>2, <1>3

\* The rooms of a parlay's games and of its teams.
GameRoomsOf(legs) == {Share(Policy.game) - UsedIn(EventLegs(c.leg)) : c \in legs}

TeamRoomsOf(legs) == UNION {TeamRooms(c.leg) : c \in legs}

LEMMA ParlayRoomsTyped ==
  ASSUME TableSound, NEW legs \in SUBSET Candidate, IsFiniteSet(legs)
  PROVE  /\ IsFiniteSet(GameRoomsOf(legs)) /\ GameRoomsOf(legs) \subseteq Int
         /\ IsFiniteSet(TeamRoomsOf(legs)) /\ TeamRoomsOf(legs) \subseteq Int
<1>1. IsFiniteSet(GameRoomsOf(legs))
  <2> DEFINE f == [c \in legs |-> Share(Policy.game) - UsedIn(EventLegs(c.leg))]
  <2>1. f \in Surjection(legs, GameRoomsOf(legs))
    BY DEF Surjection, GameRoomsOf
  <2> HIDE DEF f
  <2>2. QED
    BY <2>1, FS_Surjection
<1>2. GameRoomsOf(legs) \subseteq Int
  <2>1. Share(Policy.game) \in Int /\ \A c \in legs : UsedIn(EventLegs(c.leg)) \in Nat
    BY SharesTyped, PolicyTyped, UsedTyped
  <2>2. QED
    BY <2>1 DEF GameRoomsOf
<1>3. \A c \in legs : IsFiniteSet(TeamRooms(c.leg)) /\ TeamRooms(c.leg) \subseteq Int
  BY TeamRoomsTyped, CandidateAssumption
<1>4. IsFiniteSet({TeamRooms(c.leg) : c \in legs})
  <2> DEFINE f == [c \in legs |-> TeamRooms(c.leg)]
             all == {TeamRooms(c.leg) : c \in legs}
  <2>1. f \in Surjection(legs, all)
    BY DEF Surjection
  <2> HIDE DEF f, all
  <2>2. IsFiniteSet(all)
    BY <2>1, FS_Surjection
  <2>3. QED
    BY <2>2 DEF all
<1>5. IsFiniteSet(TeamRoomsOf(legs))
  <2> DEFINE all == {TeamRooms(c.leg) : c \in legs}
  <2>1. \A T \in all : IsFiniteSet(T)
    BY <1>3
  <2>2. IsFiniteSet(all)
    BY <1>4
  <2> HIDE DEF all
  <2>3. IsFiniteSet(UNION all)
    BY <2>1, <2>2, FS_UNION
  <2>4. QED
    BY <2>3 DEF all, TeamRoomsOf
<1>6. TeamRoomsOf(legs) \subseteq Int
  BY <1>3 DEF TeamRoomsOf
<1>7. QED
  BY <1>1, <1>2, <1>5, <1>6

\* What is positive and within room that counts as zero when there is none is within
\* the room.
LEMMA WithinRoom ==
  ASSUME NEW s \in Int, s > 0, NEW room \in Int, s <= Max({0, room})
  PROVE  s <= room
<1>1. Max({0, room}) = 0 \/ Max({0, room}) = room
  BY MaxOfTwo
<1>2. QED
  BY <1>1

\* The stake of a parlay is within every room there is for it.
LEMMA ParlaySizedWithin ==
  ASSUME TableSound, NEW o \in Offer, o.legs \subseteq Candidate, IsFiniteSet(o.legs),
         NEW s, s = ParlayStake(o), s >= Policy.minStake
  PROVE  /\ s \in Nat /\ s > 0
         /\ ~Exceeds(s, EquityNow, Policy.parlay)
         /\ ~Exceeds(UsedToday + s, EquityNow, Policy.daily)
         /\ ~Exceeds(UsedByParlays + s, EquityNow, Policy.dailyParlay)
         /\ \A g \in ParlayGroups, c \in o.legs :
               c.leg \in g.legs => ~Exceeds(UsedIn(g.legs) + s, EquityNow, g.cap)
<1> DEFINE fraction == IF o.fraction < Policy.parlay THEN o.fraction ELSE Policy.parlay
           day == Max({0, Share(Policy.daily) - UsedToday})
           parlays == Max({0, Share(Policy.dailyParlay) - UsedByParlays})
           four == {Allocation(fraction), day, parlays, paperCash}
           rooms == four \cup GameRoomsOf(o.legs) \cup TeamRoomsOf(o.legs)
<1>1. fraction \in Nat /\ fraction <= Policy.parlay /\ Policy.parlay \in Nat
  BY FractionsTyped, OfferAssumption
<1>2. Share(Policy.daily) \in Int /\ Share(Policy.dailyParlay) \in Int
  BY SharesTyped, PolicyTyped
<1>3. /\ paperCash \in Nat /\ EquityNow \in Nat /\ UsedToday \in Nat /\ UsedByParlays \in Nat
  BY HeldTyped, UsedTyped DEF TableSound, HoldingSound
<1>4. /\ IsFiniteSet(GameRoomsOf(o.legs)) /\ GameRoomsOf(o.legs) \subseteq Int
      /\ IsFiniteSet(TeamRoomsOf(o.legs)) /\ TeamRoomsOf(o.legs) \subseteq Int
  BY ParlayRoomsTyped
<1>5. Allocation(fraction) \in Int /\ ~Exceeds(Allocation(fraction), EquityNow, fraction)
  BY <1>1, SharesTyped, AllocationWithin
<1>6. ParlayStake(o) = Min(rooms)
  <2>1. {Share(Policy.game) - Used(LAMBDA l : l.event = c.leg.event) : c \in o.legs}
          = GameRoomsOf(o.legs)
    <3>1. \A c \in o.legs : Used(LAMBDA l : l.event = c.leg.event) = UsedIn(EventLegs(c.leg))
      <4> TAKE c \in o.legs
      <4>1. QED
        BY GroupsUsed
    <3>2. QED
      BY <3>1 DEF GameRoomsOf, Used
  <2>2. QED
    BY <2>1 DEF ParlayStake, TeamRoomsOf
<1> HIDE DEF fraction
<1>7. day \in Int /\ parlays \in Int
  <2>1. ASSUME NEW r \in Int PROVE Max({0, r}) \in Int
    <3>1. Max({0, r}) = 0 \/ Max({0, r}) = r
      BY MaxOfTwo
    <3>2. QED
      BY <3>1
  <2>2. Share(Policy.daily) - UsedToday \in Int /\ Share(Policy.dailyParlay) - UsedByParlays \in Int
    BY <1>2, <1>3
  <2>3. QED
    BY <2>1, <2>2
<1> HIDE DEF day, parlays
<1>8. rooms \in SUBSET Int /\ IsFiniteSet(rooms) /\ rooms # {}
  <2>1. four \subseteq Int /\ four # {}
    BY <1>3, <1>5, <1>7
  <2>2. IsFiniteSet(four)
    BY FewFinite
  <2> HIDE DEF four
  <2>3. QED
    BY <1>4, <2>1, <2>2, FS_Union
<1> HIDE DEF rooms
<1>9. s \in rooms /\ \A r \in rooms : s <= r
  BY <1>6, <1>8, MinIs
<1>10. s \in Nat /\ s > 0
  <2>1. s \in Int
    BY <1>8, <1>9
  <2>2. QED
    BY <2>1, FractionsTyped
<1>11. /\ s <= Allocation(fraction) /\ s <= day /\ s <= parlays
       /\ \A r \in GameRoomsOf(o.legs) \cup TeamRoomsOf(o.legs) : s <= r
  BY <1>9 DEF rooms
<1>12. ASSUME NEW cap \in Nat, NEW used \in Nat, s <= Share(cap) - used
       PROVE  ~Exceeds(used + s, EquityNow, cap)
  <2>1. Share(cap) \in Int
    BY SharesTyped
  <2>2. used + s <= Share(cap) /\ used + s \in Int
    BY <1>10, <1>12, <2>1
  <2>3. QED
    BY <1>3, <2>2, WithinShare DEF Share
<1>13. ~Exceeds(s, EquityNow, Policy.parlay)
  <2>1. ~Exceeds(s, EquityNow, fraction)
    BY <1>1, <1>3, <1>5, <1>10, <1>11, WithinGrows
  <2>2. QED
    BY <1>1, <1>3, <1>10, <2>1, FractionGrows
<1>14. ~Exceeds(UsedToday + s, EquityNow, Policy.daily)
  <2>1. s <= Share(Policy.daily) - UsedToday
    BY <1>2, <1>3, <1>10, <1>11, WithinRoom DEF day
  <2>2. QED
    BY <1>3, <1>12, <2>1, PolicyTyped
<1>15. ~Exceeds(UsedByParlays + s, EquityNow, Policy.dailyParlay)
  <2>1. s <= Share(Policy.dailyParlay) - UsedByParlays
    BY <1>2, <1>3, <1>10, <1>11, WithinRoom DEF parlays
  <2>2. QED
    BY <1>3, <1>12, <2>1, PolicyTyped
<1>16. ASSUME NEW g \in ParlayGroups, NEW c \in o.legs, c.leg \in g.legs
       PROVE  ~Exceeds(UsedIn(g.legs) + s, EquityNow, g.cap)
  <2>1. c \in Candidate /\ c.leg \in EngineLeg /\ g \in EngineGroups
    BY DEF EngineLeg, EngineGroups
  <2>2. \/ g.legs = EventLegs(c.leg) /\ g.cap = Policy.game
        \/ \E t \in c.leg.teams : g.legs = TeamLegs(t) /\ g.cap = Policy.team
    BY <1>16, <2>1, GroupsOfLeg
  <2>3. TeamRooms(c.leg) = {Share(Policy.team) - UsedIn(TeamLegs(t)) : t \in c.leg.teams}
    BY <2>1, TeamRoomsTyped, CandidateAssumption
  <2>4. Share(g.cap) - UsedIn(g.legs) \in GameRoomsOf(o.legs) \cup TeamRoomsOf(o.legs)
    BY <2>2, <2>3 DEF GameRoomsOf, TeamRoomsOf
  <2>5. s <= Share(g.cap) - UsedIn(g.legs)
    BY <1>11, <2>4
  <2>6. g.cap \in Nat /\ UsedIn(g.legs) \in Nat
    BY <2>1, UsedTyped, EngineCapsTyped
  <2>7. QED
    BY <1>12, <2>5, <2>6
<1>17. QED
  BY <1>10, <1>13, <1>14, <1>15, <1>16

------------------------------------------------------------------------------
(* What a step does to the sums *)

\* Another recommended candidate adds its stake to its groups and to the slate.
LEMMA Recommends ==
  ASSUME TableSound, UNCHANGED <<port, paperBets, paperOrder, paperCash>>,
         NEW c \in Candidate, c \notin Recommended, NEW s \in Nat,
         stakes' = [d \in Recommended \cup {c} |-> IF d = c THEN s ELSE stakes[d]]
  PROVE  /\ TableSound'
         /\ Recommended' = Recommended \cup {c}
         /\ EquityNow' = EquityNow /\ PeakNow' = PeakNow
         /\ OpenExposures(paperBets, port)' = OpenExposures(paperBets, port)
         /\ RecommendedStake(Recommended)' = RecommendedStake(Recommended) + s
         /\ UsedToday' = UsedToday + s
         /\ \A G : c.leg \in G => UsedIn(G)' = UsedIn(G) + s
         /\ \A G : c.leg \notin G => UsedIn(G)' = UsedIn(G) /\ RecommendedIn(G)' = RecommendedIn(G)
<1>1. /\ Recommended' = Recommended \cup {c} /\ stakes'[c] = s
      /\ \A d \in Recommended : stakes'[d] = stakes[d]
  BY DEF Recommended
<1>2. /\ IsFiniteSet(Recommended) /\ Recommended \subseteq Candidate
      /\ \A d \in Recommended : stakes[d] \in Nat
  BY DEF TableSound, RecommendedSound
<1>3. RecommendedSound'
  <2>1. IsFiniteSet(Recommended \cup {c})
    BY <1>2, OneMoreFinite
  <2>2. \A d \in Recommended \cup {c} : stakes'[d] \in Nat
    BY <1>1, <1>2
  <2>3. QED
    BY <1>1, <1>2, <2>1, <2>2 DEF RecommendedSound
<1>4. HoldingSound'
  BY DEF TableSound, HoldingSound
<1>5. /\ EquityNow' = EquityNow /\ PeakNow' = PeakNow
      /\ OpenExposures(paperBets, port)' = OpenExposures(paperBets, port)
  BY DEF EquityNow, PeakNow
<1>6. ASSUME NEW some \in SUBSET Recommended
      PROVE  /\ Total(stakes', some) = Total(stakes, some)
             /\ Total(stakes', some \cup {c}) = Total(stakes, some) + s
  <2>1. IsFiniteSet(some) /\ c \notin some
    BY <1>2, FS_Subset
  <2>2. Total(stakes', some) = Total(stakes, some)
    BY <1>1, <2>1, TotalAgree
  <2>3. \A d \in some \cup {c} : stakes'[d] \in Int
    BY <1>1, <1>2
  <2>4. Total(stakes', some \cup {c}) = s + Total(stakes', some)
    BY <1>1, <2>1, <2>3, TotalInsert
  <2>5. Total(stakes, some) \in Int
    BY <1>2, <2>1, TotalInt
  <2>6. QED
    BY <2>2, <2>4, <2>5
<1>7. RecommendedStake(Recommended)' = RecommendedStake(Recommended) + s
  BY <1>1, <1>6 DEF RecommendedStake
<1>8. UsedToday' = UsedToday + s
  <2>1. ExposedStake(paperBets, HeldToday) \in Nat /\ RecommendedStake(Recommended) \in Nat
    BY UsedTyped
  <2>2. UsedToday = ExposedStake(paperBets, HeldToday) + RecommendedStake(Recommended)
    BY DEF UsedToday, HeldToday
  <2>3. UsedToday' = ExposedStake(paperBets, HeldToday) + RecommendedStake(Recommended)'
    BY DEF UsedToday, HeldToday
  <2>4. QED
    BY <1>7, <2>1, <2>2, <2>3
<1>9. ASSUME NEW G
      PROVE  /\ c.leg \in G => UsedIn(G)' = UsedIn(G) + s
             /\ c.leg \notin G => UsedIn(G)' = UsedIn(G) /\ RecommendedIn(G)' = RecommendedIn(G)
  <2>1. ExposedStake(paperBets, HeldIn(G)) \in Nat /\ RecommendedStake(RecommendedIn(G)) \in Nat
    BY UsedTyped
  <2>2. UsedIn(G)' = ExposedStake(paperBets, HeldIn(G)) + Total(stakes', RecommendedIn(G)')
    BY DEF UsedIn, HeldIn, RecommendedStake
  <2>3. RecommendedIn(G) \in SUBSET Recommended
    BY DEF RecommendedIn
  <2>4. CASE c.leg \in G
    <3>1. RecommendedIn(G)' = RecommendedIn(G) \cup {c}
      BY <1>1, <2>4 DEF RecommendedIn
    <3>2. Total(stakes', RecommendedIn(G)') = RecommendedStake(RecommendedIn(G)) + s
      BY <1>6, <2>3, <3>1 DEF RecommendedStake
    <3>3. QED
      BY <2>1, <2>2, <2>4, <3>2 DEF UsedIn
  <2>5. CASE c.leg \notin G
    <3>1. RecommendedIn(G)' = RecommendedIn(G)
      BY <1>1, <2>5 DEF RecommendedIn
    <3>2. Total(stakes', RecommendedIn(G)') = RecommendedStake(RecommendedIn(G))
      BY <1>6, <2>3, <3>1 DEF RecommendedStake
    <3>3. QED
      BY <2>2, <2>5, <3>1, <3>2 DEF UsedIn
  <2>6. QED
    BY <2>4, <2>5
<1>10. QED
  BY <1>1, <1>3, <1>4, <1>5, <1>7, <1>8, <1>9 DEF TableSound

\* Approving a row opens one bet, and takes from cash what it adds to what is reserved.
LEMMA Opens ==
  ASSUME HoldingSound, NEW row, row.port = port, row.stake \in Nat, row.stake <= paperCash,
         row.legs # {}, IsFiniteSet(row.legs), row.legs \subseteq EngineLeg,
         NEW b, b \notin DOMAIN paperBets, Open(row, b), UNCHANGED <<port, paperOrder>>
  PROVE  /\ HoldingSound'
         /\ DOMAIN paperBets' = DOMAIN paperBets \cup {b}
         /\ \A x \in DOMAIN paperBets : paperBets'[x] = paperBets[x]
         /\ paperBets'[b].stake = row.stake /\ paperBets'[b].slate = row.slate
         /\ paperBets'[b].kind = row.kind /\ paperBets'[b].legs = row.legs
         /\ OpenExposures(paperBets, port)'
              = OpenExposures(paperBets, port) \cup LegsOf(b, row.legs)
         /\ paperCash' = paperCash - row.stake
         /\ EquityNow' = EquityNow /\ PeakNow' = PeakNow
<1> DEFINE bet == [port |-> row.port, kind |-> row.kind, stake |-> row.stake,
                   slate |-> row.slate, legs |-> row.legs, status |-> "open", pnl |-> 0]
<1>1. paperBets' = [x \in DOMAIN paperBets \cup {b} |-> IF x = b THEN bet ELSE paperBets[x]]
  BY DEF Open
<1>2. /\ DOMAIN paperBets' = DOMAIN paperBets \cup {b} /\ paperBets'[b] = bet
      /\ \A x \in DOMAIN paperBets : paperBets'[x] = paperBets[x]
  BY <1>1
<1>3. /\ bet.port = row.port /\ bet.kind = row.kind /\ bet.stake = row.stake /\ bet.slate = row.slate
      /\ bet.legs = row.legs /\ bet.status = "open" /\ bet.pnl = 0
  OBVIOUS
<1> HIDE DEF bet
<1>4. paperCash' = paperCash - row.stake /\ port' = port /\ paperOrder' = paperOrder
  BY DEF Open
<1>5. OpenBets(paperBets, port)' = OpenBets(paperBets, port) \cup {b}
  BY <1>2, <1>3, <1>4 DEF OpenBets, BetsWith
<1>6. /\ OpenBets(paperBets, port) \subseteq DOMAIN paperBets /\ b \notin OpenBets(paperBets, port)
      /\ IsFiniteSet(DOMAIN paperBets) /\ paperCash \in Nat /\ paperOrder \in Seq(DOMAIN paperBets)
      /\ \A x \in DOMAIN paperBets : paperBets[x].stake \in Nat /\ paperBets[x].pnl \in Int
  BY DEF OpenBets, BetsWith, HoldingSound
<1>7. HoldingSound'
  <2>1. IsFiniteSet(DOMAIN paperBets \cup {b})
    BY <1>6, OneMoreFinite
  <2>2. \A x \in DOMAIN paperBets \cup {b} :
           /\ paperBets'[x].stake \in Nat /\ paperBets'[x].pnl \in Int
           /\ paperBets'[x].legs # {} /\ IsFiniteSet(paperBets'[x].legs)
           /\ paperBets'[x].legs \subseteq EngineLeg
    BY <1>2, <1>3 DEF HoldingSound
  <2>3. paperCash' \in Nat
    BY <1>4, <1>6
  <2>4. paperOrder \in Seq(DOMAIN paperBets \cup {b})
    BY <1>6
  <2>5. QED
    BY <1>2, <1>4, <2>1, <2>2, <2>3, <2>4 DEF HoldingSound
<1>8. OpenExposures(paperBets, port)' = OpenExposures(paperBets, port) \cup LegsOf(b, row.legs)
  <2>1. \A x \in OpenBets(paperBets, port) : paperBets'[x].legs = paperBets[x].legs
    BY <1>2, <1>6
  <2>2. QED
    BY <1>2, <1>3, <1>5, <2>1 DEF OpenExposures, ExposuresOf, LegsOf
<1>9. Reserved(paperBets, port)' = Reserved(paperBets, port) + row.stake
  <2> DEFINE open == OpenBets(paperBets, port)
  <2>1. IsFiniteSet(open) /\ \A x \in open : paperBets[x].stake \in Nat
    BY <1>6, FS_Subset
  <2>2. \A x \in open \cup {b} : paperBets'[x].stake \in Int
    BY <1>2, <1>3, <1>6
  <2>3. StakeOf(paperBets', open) = StakeOf(paperBets, open)
    BY <1>2, <1>6, StakeOfAgree
  <2>4. StakeOf(paperBets, open) \in Nat
    BY <2>1, StakeOfNat
  <2> HIDE DEF open
  <2>5. StakeOf(paperBets', open \cup {b}) = paperBets'[b].stake + StakeOf(paperBets', open)
    BY <1>6, <2>1, <2>2, StakeOfInsert DEF open
  <2>6. StakeOf(paperBets', open \cup {b}) = StakeOf(paperBets, open) + row.stake
    BY <1>2, <1>3, <2>3, <2>4, <2>5
  <2>7. QED
    BY <1>5, <2>6 DEF Reserved, open
<1>10. EquityNow' = EquityNow
  <2>1. Reserved(paperBets, port) \in Nat
    BY <1>6, FS_Subset, StakeOfNat DEF Reserved
  <2>2. QED
    BY <1>4, <1>6, <1>9, <2>1 DEF EquityNow
<1>11. PeakNow' = PeakNow
  <2>1. \A i \in 1..Len(paperOrder) : paperOrder[i] \in DOMAIN paperBets
    BY <1>6
  <2>2. \A i \in 1..Len(paperOrder) : paperBets'[paperOrder[i]].pnl = paperBets[paperOrder[i]].pnl
    BY <1>2, <2>1
  <2>3. EquityPath(paperBets', paperOrder) = EquityPath(paperBets, paperOrder)
    <3>1. ASSUME NEW i \in 0..Len(paperOrder)
          PROVE  [j \in 1..i |-> paperBets'[paperOrder[j]].pnl]
                   = [j \in 1..i |-> paperBets[paperOrder[j]].pnl]
      <4>1. \A j \in 1..i : j \in 1..Len(paperOrder)
        BY <1>6
      <4>2. QED
        BY <2>2, <4>1
    <3>2. QED
      BY <3>1 DEF EquityPath
  <2>4. QED
    BY <1>4, <2>3 DEF PeakNow, PeakEquity
<1>12. QED
  BY <1>2, <1>3, <1>4, <1>7, <1>8, <1>10, <1>11

\* A leg of its own adds its stake once to a set of exposures.
LEMMA OneExposure ==
  ASSUME NEW table, NEW exposures, IsFiniteSet(exposures), NEW b, NEW leg, table[b].stake \in Nat,
         \A x \in exposures : x.bet # b /\ table[x.bet].stake \in Nat
  PROVE  ExposedStake(table, exposures \cup LegsOf(b, {leg}))
           = ExposedStake(table, exposures) + table[b].stake
<1> DEFINE new == [bet |-> b, leg |-> leg]
           all == exposures \cup {new}
           w == [x \in all |-> table[x.bet].stake]
           v == [x \in exposures |-> table[x.bet].stake]
<1>1. LegsOf(b, {leg}) = {new} /\ new \notin exposures
  BY DEF LegsOf
<1>2. (\A x \in all : w[x] \in Int) /\ w[new] = table[b].stake
  OBVIOUS
<1>3. \A x \in exposures : w[x] = v[x] /\ v[x] \in Int
  OBVIOUS
<1> HIDE DEF w, v, new
<1>4. Total(w, all) = w[new] + Total(w, exposures)
  BY <1>1, <1>2, TotalInsert
<1>5. Total(w, exposures) = Total(v, exposures) /\ Total(v, exposures) \in Int
  BY <1>3, TotalAgree, TotalInt
<1>6. Total(w, all) = Total(v, exposures) + table[b].stake
  BY <1>2, <1>4, <1>5
<1>7. QED
  BY <1>1, <1>6 DEF ExposedStake, w, v

\* Approving a straight moves its stake from what is recommended to what is open: what
\* is used stays the same, in every group and on the slate.
LEMMA Approves ==
  ASSUME TableSound, NEW c \in Recommended, stakes[c] <= paperCash,
         NEW b, b \notin DOMAIN paperBets, Open(StraightRow(c), b), UNCHANGED <<port, paperOrder>>,
         stakes' = [d \in Recommended \ {c} |-> stakes[d]]
  PROVE  /\ TableSound'
         /\ Recommended' = Recommended \ {c}
         /\ \A d \in Recommended' : stakes'[d] = stakes[d]
         /\ EquityNow' = EquityNow /\ PeakNow' = PeakNow
         /\ OpenExposures(paperBets, port)'
              = OpenExposures(paperBets, port) \cup LegsOf(b, {c.leg})
         /\ paperCash' = paperCash - stakes[c]
         /\ RecommendedStake(Recommended) = RecommendedStake(Recommended)' + stakes[c]
         /\ UsedToday' = UsedToday /\ UsedByParlays' = UsedByParlays
         /\ \A G : UsedIn(G)' = UsedIn(G) /\ RecommendedIn(G)' \subseteq RecommendedIn(G)
<1> DEFINE row == StraightRow(c)
           new == LegsOf(b, {c.leg})
           s == stakes[c]
<1>1. /\ row.port = port /\ row.kind = "straight" /\ row.stake = s /\ row.slate = Slate
      /\ row.legs = {c.leg}
  BY DEF StraightRow
<1>2. /\ IsFiniteSet(Recommended) /\ Recommended \subseteq Candidate
      /\ \A d \in Recommended : stakes[d] \in Nat
  BY DEF TableSound, RecommendedSound
<1>3. s \in Nat /\ row.legs # {} /\ IsFiniteSet(row.legs) /\ row.legs \subseteq EngineLeg
  BY <1>1, <1>2, FS_Singleton DEF EngineLeg
<1> HIDE DEF row
<1>4. /\ HoldingSound'
      /\ \A x \in DOMAIN paperBets : paperBets'[x] = paperBets[x]
      /\ paperBets'[b].stake = s /\ paperBets'[b].slate = Slate /\ paperBets'[b].kind = "straight"
      /\ OpenExposures(paperBets, port)' = OpenExposures(paperBets, port) \cup new
      /\ paperCash' = paperCash - s
      /\ EquityNow' = EquityNow /\ PeakNow' = PeakNow
  BY <1>1, <1>3, Opens DEF TableSound, row
<1>5. Recommended' = Recommended \ {c} /\ \A d \in Recommended \ {c} : stakes'[d] = stakes[d]
  BY DEF Recommended
<1>6. RecommendedSound'
  <2>1. IsFiniteSet(Recommended \ {c})
    BY <1>2, FS_Subset
  <2>2. QED
    BY <1>2, <1>5, <2>1 DEF RecommendedSound
<1>7. ASSUME NEW some \in SUBSET Recommended
      PROVE  /\ Total(stakes', some \ {c}) = Total(stakes, some \ {c})
             /\ c \in some => Total(stakes, some) = Total(stakes', some \ {c}) + s
             /\ Total(stakes', some \ {c}) \in Nat
  <2>1. IsFiniteSet(some) /\ IsFiniteSet(some \ {c}) /\ \A d \in some : stakes[d] \in Nat
    BY <1>2, FS_Subset
  <2>2. Total(stakes', some \ {c}) = Total(stakes, some \ {c})
    BY <1>5, <2>1, TotalAgree
  <2>3. Total(stakes, some \ {c}) \in Nat
    BY <2>1, TotalNat
  <2>4. c \in some => Total(stakes, some) = s + Total(stakes, some \ {c})
    BY <2>1, TotalRemove
  <2>5. QED
    BY <1>3, <2>2, <2>3, <2>4
<1>8. \A x \in OpenExposures(paperBets, port) :
         /\ x.bet \in DOMAIN paperBets /\ x.bet # b
         /\ paperBets'[x.bet] = paperBets[x.bet] /\ paperBets[x.bet].stake \in Nat
  BY <1>4, HeldTyped
<1>9. \A x \in new : x.bet = b /\ x.leg = c.leg
  BY DEF LegsOf
<1> HIDE DEF new
<1>10. ASSUME NEW part \in SUBSET OpenExposures(paperBets, port)
       PROVE  /\ ExposedStake(paperBets', part) = ExposedStake(paperBets, part)
              /\ ExposedStake(paperBets', part \cup new) = ExposedStake(paperBets, part) + s
  <2>1. IsFiniteSet(part) /\ \A x \in part : x.bet # b /\ paperBets'[x.bet].stake \in Nat
    BY <1>8, HeldTyped, FS_Subset
  <2>2. ExposedStake(paperBets', part) = ExposedStake(paperBets, part)
    BY <1>8, ExposedAgree
  <2> DEFINE table == paperBets'
             leg == c.leg
  <2>3. ExposedStake(table, part \cup LegsOf(b, {leg}))
          = ExposedStake(table, part) + table[b].stake
    <3>1. table[b].stake \in Nat
      BY <1>3, <1>4
    <3> HIDE DEF table, leg
    <3>2. IsFiniteSet(part) /\ \A x \in part : x.bet # b /\ table[x.bet].stake \in Nat
      BY <2>1 DEF table
    <3>3. QED
      BY <3>1, <3>2, OneExposure
  <2>4. QED
    BY <1>4, <2>2, <2>3 DEF new
<1>11. RecommendedStake(Recommended) = RecommendedStake(Recommended)' + s
  BY <1>5, <1>7 DEF RecommendedStake
<1>12. UsedToday' = UsedToday
  <2>1. HeldToday' = HeldToday \cup new
    BY <1>4, <1>8, <1>9 DEF HeldToday
  <2>2. HeldToday \in SUBSET OpenExposures(paperBets, port)
    BY DEF HeldToday
  <2>3. ExposedStake(paperBets', HeldToday') = ExposedStake(paperBets, HeldToday) + s
    BY <1>10, <2>1, <2>2
  <2>4. /\ UsedToday = ExposedStake(paperBets, HeldToday) + RecommendedStake(Recommended)
        /\ UsedToday' = ExposedStake(paperBets', HeldToday') + RecommendedStake(Recommended)'
    BY DEF UsedToday, HeldToday
  <2>5. ExposedStake(paperBets, HeldToday) \in Nat /\ RecommendedStake(Recommended)' \in Nat
    BY <1>5, <1>7, UsedTyped DEF RecommendedStake
  <2>6. QED
    BY <1>3, <1>11, <2>3, <2>4, <2>5
<1>13. UsedByParlays' = UsedByParlays
  <2> DEFINE held == {x \in OpenExposures(paperBets, port) :
                        paperBets[x.bet].slate = Slate /\ paperBets[x.bet].kind = "parlay"}
  <2>1. held' = held
    BY <1>4, <1>8, <1>9
  <2>2. ExposedStake(paperBets', held) = ExposedStake(paperBets, held)
    BY <1>10
  <2>3. QED
    BY <2>1, <2>2 DEF UsedByParlays
<1>14. ASSUME NEW G PROVE UsedIn(G)' = UsedIn(G) /\ RecommendedIn(G)' \subseteq RecommendedIn(G)
  <2>1. HeldIn(G) \in SUBSET OpenExposures(paperBets, port) /\ RecommendedIn(G) \in SUBSET Recommended
    BY DEF HeldIn, RecommendedIn
  <2>2. RecommendedIn(G)' = RecommendedIn(G) \ {c}
    BY <1>5 DEF RecommendedIn
  <2>3. /\ UsedIn(G) = ExposedStake(paperBets, HeldIn(G)) + Total(stakes, RecommendedIn(G))
        /\ UsedIn(G)' = ExposedStake(paperBets', HeldIn(G)') + Total(stakes', RecommendedIn(G)')
    BY DEF UsedIn, RecommendedStake
  <2>4. ExposedStake(paperBets, HeldIn(G)) \in Nat
    BY UsedTyped
  <2>5. CASE c.leg \in G
    <3>1. HeldIn(G)' = HeldIn(G) \cup new
      BY <1>4, <1>9, <2>5 DEF HeldIn
    <3>2. c \in RecommendedIn(G)
      BY <2>5 DEF RecommendedIn
    <3>3. Total(stakes, RecommendedIn(G)) = Total(stakes', RecommendedIn(G)') + s
          /\ Total(stakes', RecommendedIn(G)') \in Nat
      BY <1>7, <2>1, <2>2, <3>2
    <3>4. ExposedStake(paperBets', HeldIn(G)') = ExposedStake(paperBets, HeldIn(G)) + s
      BY <1>10, <2>1, <3>1
    <3>5. QED
      BY <1>3, <2>2, <2>3, <2>4, <3>3, <3>4
  <2>6. CASE c.leg \notin G
    <3>1. HeldIn(G)' = HeldIn(G)
      BY <1>4, <1>9, <2>6 DEF HeldIn
    <3>2. RecommendedIn(G) \ {c} = RecommendedIn(G)
      BY <2>6 DEF RecommendedIn
    <3>3. Total(stakes', RecommendedIn(G)') = Total(stakes, RecommendedIn(G))
      BY <1>7, <2>1, <2>2, <3>2
    <3>4. ExposedStake(paperBets', HeldIn(G)') = ExposedStake(paperBets, HeldIn(G))
      BY <1>10, <2>1, <3>1
    <3>5. QED
      BY <2>2, <2>3, <3>3, <3>4
  <2>7. QED
    BY <2>5, <2>6
<1>15. QED
  BY <1>4, <1>5, <1>6, <1>11, <1>12, <1>13, <1>14 DEF TableSound, new

------------------------------------------------------------------------------
(* What the engine recommends stays approvable *)

\* A run begins with nothing recommended.
LEMMA EngineInitSound == EngineInit => EngineSound
<1> SUFFICES ASSUME EngineInit PROVE EngineSound
  OBVIOUS
<1>1. PICK k \in Book : port = k.port /\ paperBets = k.bets /\ paperOrder = k.order /\ paperCash = k.cash
  BY DEF EngineInit
<1>2. /\ phase = "sizing" /\ considered = {} /\ offer = NoOffer /\ parlayStake = 0
      /\ Recommended = {}
  BY DEF EngineInit, Recommended
<1>3. \A b \in DOMAIN paperBets : paperBets[b].legs \subseteq EngineLeg
  BY <1>1 DEF EngineLeg
<1>4. HoldingSound
  BY <1>1, <1>3, BookAssumption DEF HoldingSound
<1>5. RecommendedSound
  BY <1>2, FS_EmptySet DEF RecommendedSound
<1>6. EngineTypeOK
  <2>1. DOMAIN paperBets \subseteq BetSlot /\ paperCash \in Nat /\ port \in {k2.port : k2 \in Book}
    BY <1>1, BookAssumption
  <2>2. QED
    BY <1>2, <2>1 DEF EngineTypeOK
<1>7. RecommendedStake(Recommended) = 0
  BY <1>2, TotalEmpty DEF RecommendedStake
<1>8. StraightsFit
  <2>1. \A G : RecommendedIn(G) = {}
    BY <1>2 DEF RecommendedIn
  <2>2. paperCash \in Nat
    BY <1>4 DEF HoldingSound
  <2>3. QED
    BY <1>2, <1>7, <2>1, <2>2 DEF StraightsFit
<1>9. QED
  BY <1>2, <1>4, <1>5, <1>6, <1>8 DEF EngineSound, TableSound, ParlayProposed

\* Sizing one more candidate keeps the recommended straights fitting together.
LEMMA SizeSound ==
  ASSUME EngineSound, NEW c \in Candidate, Size(c)
  PROVE  EngineSound'
<1>1. /\ EngineTypeOK /\ TableSound /\ phase = "sizing" /\ phase' = phase
      /\ c \notin considered /\ considered' = considered \cup {c}
      /\ UNCHANGED <<port, paperBets, paperOrder, paperCash, offer, parlayStake>>
      /\ offer = NoOffer /\ parlayStake = 0 /\ StraightsFit
  BY DEF EngineSound, Size, ParlayApproved
<1>2. CASE ~Selectable(c)
  <2>1. stakes' = stakes
    BY <1>2 DEF Size
  <2>2. TableSound'
    BY <1>1, <2>1 DEF TableSound, HoldingSound, RecommendedSound, Recommended
  <2>3. StraightsFit'
    BY <1>1, <2>1
       DEF StraightsFit, Unopposed, UsedIn, UsedToday, HeldIn, RecommendedIn, RecommendedStake,
           Recommended, EquityNow, PeakNow
  <2>4. EngineTypeOK'
    BY <1>1, <2>1 DEF EngineTypeOK, Recommended
  <2>5. QED
    BY <1>1, <2>2, <2>3, <2>4 DEF EngineSound, ParlayApproved, ParlayProposed
<1>3. CASE Selectable(c)
  <2> DEFINE s == StakeFor(c)
  <2>1. stakes' = [d \in Recommended \cup {c} |-> IF d = c THEN s ELSE stakes[d]]
    BY <1>3 DEF Size
  <2>2. c \notin Recommended
    BY <1>1 DEF EngineTypeOK
  <2>3. /\ s \in Int /\ s <= Policy.maxStake
        /\ ~Exceeds(s, EquityNow, PerBetFraction(c))
        /\ s + RecommendedStake(Recommended) <= paperCash
        /\ ~Exceeds(UsedToday + s, EquityNow, Policy.daily)
        /\ \A g \in EngineGroups :
              c.leg \in g.legs => ~Exceeds(UsedIn(g.legs) + s, EquityNow, g.cap)
    BY <1>1, SizedWithin
  <2>4. ~Paused(EquityNow, PeakNow) /\ ~Opposed(c) /\ s >= Policy.minStake
    BY <1>3 DEF Selectable
  <2>5. s \in Nat
    BY <2>3, <2>4, FractionsTyped
  <2> HIDE DEF s
  <2>6. /\ TableSound'
        /\ Recommended' = Recommended \cup {c}
        /\ EquityNow' = EquityNow /\ PeakNow' = PeakNow
        /\ OpenExposures(paperBets, port)' = OpenExposures(paperBets, port)
        /\ RecommendedStake(Recommended)' = RecommendedStake(Recommended) + s
        /\ UsedToday' = UsedToday + s
        /\ \A G : c.leg \in G => UsedIn(G)' = UsedIn(G) + s
        /\ \A G : c.leg \notin G => UsedIn(G)' = UsedIn(G) /\ RecommendedIn(G)' = RecommendedIn(G)
    BY <1>1, <2>1, <2>2, <2>5, Recommends
  <2>7. stakes'[c] = s /\ \A d \in Recommended : stakes'[d] = stakes[d]
    BY <2>1, <2>2
  <2>8. \A d \in Recommended' : Unopposed(d.leg)'
    <3>1. /\ \A x \in OpenExposures(paperBets, port) : ~OpposedTo(x.leg, c.leg)
          /\ \A d \in Recommended : ~OpposedTo(d.leg, c.leg)
      BY <2>4 DEF Opposed
    <3>2. \A d \in Recommended : Unopposed(d.leg)
      BY <1>1 DEF StraightsFit
    <3>3. ~OpposedTo(c.leg, c.leg) /\ \A d \in Recommended : ~OpposedTo(c.leg, d.leg)
      BY <3>1 DEF OpposedTo
    <3>4. QED
      BY <2>6, <3>1, <3>2, <3>3 DEF Unopposed
  <2>9. StraightsFit'
    <3>1. RecommendedStake(Recommended)' <= paperCash'
      <4>1. RecommendedStake(Recommended) \in Nat
        BY <1>1, UsedTyped
      <4>2. QED
        BY <1>1, <2>3, <2>5, <2>6, <4>1
    <3>2. ~Paused(EquityNow, PeakNow)' /\ ~Exceeds(UsedToday, EquityNow, Policy.daily)'
      BY <2>3, <2>4, <2>6
    <3>3. ASSUME NEW d \in Recommended'
          PROVE  stakes'[d] <= Policy.maxStake /\ ~Exceeds(stakes'[d], EquityNow', PerBetFraction(d))
      BY <1>1, <2>3, <2>6, <2>7 DEF StraightsFit
    <3>4. ASSUME NEW g \in EngineGroups, RecommendedIn(g.legs)' # {}
          PROVE  ~Exceeds(UsedIn(g.legs)', EquityNow', g.cap)
      BY <1>1, <2>3, <2>6, <3>4 DEF StraightsFit
    <3>5. QED
      BY <2>8, <3>1, <3>2, <3>3, <3>4 DEF StraightsFit
  <2>10. EngineTypeOK'
    BY <1>1, <2>4, <2>6, <2>7 DEF EngineTypeOK
  <2>11. QED
    BY <1>1, <2>6, <2>9, <2>10 DEF EngineSound, ParlayApproved, ParlayProposed
<1>4. QED
  BY <1>2, <1>3

\* The parlay is chosen within what is left besides the straights.
LEMMA ChooseSound ==
  ASSUME EngineSound, ChooseParlay
  PROVE  EngineSound'
<1>1. /\ EngineTypeOK /\ TableSound /\ phase = "parlay" /\ phase' = "review"
      /\ UNCHANGED <<port, paperBets, paperOrder, paperCash, considered, stakes>>
      /\ offer = NoOffer /\ parlayStake = 0 /\ StraightsFit
  BY DEF EngineSound, ChooseParlay, ParlayApproved
<1>2. /\ TableSound' /\ Recommended' = Recommended /\ EquityNow' = EquityNow
      /\ UsedToday' = UsedToday /\ UsedByParlays' = UsedByParlays
      /\ \A G : UsedIn(G)' = UsedIn(G)
      /\ \A leg : Unopposed(leg) => Unopposed(leg)'
  BY <1>1 DEF TableSound, HoldingSound, RecommendedSound, Recommended, EquityNow, UsedToday,
              UsedByParlays, UsedIn, HeldIn, RecommendedIn, RecommendedStake, Unopposed
<1>3. StraightsFit'
  BY <1>1 DEF StraightsFit, Unopposed, UsedIn, UsedToday, HeldIn, RecommendedIn, RecommendedStake,
              Recommended, EquityNow, PeakNow
<1>4. CASE UNCHANGED <<offer, parlayStake>>
  <2>1. EngineTypeOK'
    BY <1>1, <1>4 DEF EngineTypeOK, Recommended
  <2>2. QED
    BY <1>1, <1>2, <1>3, <1>4, <2>1 DEF EngineSound, ParlayProposed
<1>5. ASSUME NEW o \in Offer, Eligible(o), offer' = o, parlayStake' = ParlayStake(o)
      PROVE  EngineSound'
  <2>1. /\ o.legs \subseteq Recommended /\ Cardinality(o.legs) \in 2..3
        /\ \A c, d \in o.legs :
              c # d => c.leg.event # d.leg.event /\ c.leg.teams \cap d.leg.teams = {}
        /\ ParlayStake(o) >= Policy.minStake
    BY <1>5 DEF Eligible
  <2>2. o.legs \subseteq Candidate /\ IsFiniteSet(o.legs)
    BY <1>1, <2>1, FS_Subset DEF TableSound, RecommendedSound
  <2>3. o.legs # {}
    <3>1. Cardinality({}) = 0
      BY FS_EmptySet
    <3>2. QED
      BY <2>1, <3>1
  <2>4. /\ parlayStake' \in Nat /\ parlayStake' > 0
        /\ ~Exceeds(parlayStake', EquityNow, Policy.parlay)
        /\ ~Exceeds(UsedToday + parlayStake', EquityNow, Policy.daily)
        /\ ~Exceeds(UsedByParlays + parlayStake', EquityNow, Policy.dailyParlay)
        /\ \A g \in ParlayGroups, c \in o.legs :
              c.leg \in g.legs => ~Exceeds(UsedIn(g.legs) + parlayStake', EquityNow, g.cap)
    BY <1>1, <1>5, <2>1, <2>2, ParlaySizedWithin
  <2>5. \A c \in o.legs : Unopposed(c.leg)'
    BY <1>1, <1>2, <2>1 DEF StraightsFit
  <2>6. ParlayFits'
    <3>1. /\ ~Exceeds(parlayStake', EquityNow', Policy.parlay)
          /\ ~Exceeds(UsedToday' + parlayStake', EquityNow', Policy.daily)
          /\ ~Exceeds(UsedByParlays' + parlayStake', EquityNow', Policy.dailyParlay)
      BY <1>2, <2>4
    <3>2. \A g \in ParlayGroups :
             (\E c \in o.legs : c.leg \in g.legs) =>
                 ~Exceeds(UsedIn(g.legs)' + parlayStake', EquityNow', g.cap)
      BY <1>2, <2>4
    <3>3. QED
      BY <1>5, <2>1, <2>2, <2>3, <2>5, <3>1, <3>2 DEF ParlayFits
  <2>7. EngineTypeOK'
    BY <1>1, <1>5, <2>4 DEF EngineTypeOK, Recommended
  <2>8. QED
    BY <1>1, <1>2, <1>3, <2>6, <2>7 DEF EngineSound
<1>6. QED
  BY <1>4, <1>5 DEF ChooseParlay

\* Approving a straight leaves the others, and the parlay, what they were sized for.
LEMMA ApproveStraightSound ==
  ASSUME EngineSound, NEW c \in Candidate, NEW b \in BetSlot, ApproveStraight(c, b)
  PROVE  EngineSound'
<1>1. /\ EngineTypeOK /\ TableSound /\ phase = "review" /\ c \in Recommended
      /\ UNCHANGED <<port, paperOrder, phase, considered, offer, parlayStake>>
      /\ b \notin DOMAIN paperBets /\ Open(StraightRow(c), b)
      /\ stakes' = [d \in Recommended \ {c} |-> stakes[d]]
  BY DEF EngineSound, ApproveStraight
<1>2. stakes[c] \in Nat /\ paperCash \in Nat /\ stakes[c] <= paperCash
  <2>1. stakes[c] \in Nat /\ paperCash \in Nat
    BY <1>1 DEF TableSound, HoldingSound, RecommendedSound
  <2>2. paperCash >= StraightRow(c).stake
    BY DEF ApproveStraight, Approvable
  <2>3. QED
    BY <2>1, <2>2 DEF StraightRow
<1>3. /\ TableSound'
      /\ Recommended' = Recommended \ {c}
      /\ \A d \in Recommended' : stakes'[d] = stakes[d]
      /\ EquityNow' = EquityNow /\ PeakNow' = PeakNow
      /\ OpenExposures(paperBets, port)'
           = OpenExposures(paperBets, port) \cup LegsOf(b, {c.leg})
      /\ paperCash' = paperCash - stakes[c]
      /\ RecommendedStake(Recommended) = RecommendedStake(Recommended)' + stakes[c]
      /\ UsedToday' = UsedToday /\ UsedByParlays' = UsedByParlays
      /\ \A G : UsedIn(G)' = UsedIn(G) /\ RecommendedIn(G)' \subseteq RecommendedIn(G)
  BY <1>1, <1>2, Approves
<1>4. EngineTypeOK'
  <2>1. DOMAIN paperBets' \subseteq BetSlot /\ paperCash' \in Nat
    BY <1>1, <1>2, <1>3 DEF EngineTypeOK, Open
  <2>2. QED
    BY <1>1, <1>3, <2>1 DEF EngineTypeOK
<1>5. ASSUME NEW leg, Unopposed(leg) PROVE Unopposed(leg)'
  <2>1. \A x \in LegsOf(b, {c.leg}) : x.leg = c.leg
    BY DEF LegsOf
  <2>2. QED
    BY <1>1, <1>3, <1>5, <2>1 DEF Unopposed
<1>6. ASSUME StraightsFit PROVE StraightsFit'
  <2>1. RecommendedStake(Recommended)' <= paperCash'
    <3>1. RecommendedStake(Recommended) <= paperCash
      BY <1>6 DEF StraightsFit
    <3>2. RecommendedStake(Recommended)' \in Nat
      <4>1. RecommendedSound'
        BY <1>3 DEF TableSound
      <4>2. QED
        BY <4>1, TotalNat DEF RecommendedSound, RecommendedStake
    <3>3. QED
      BY <1>2, <1>3, <3>1, <3>2
  <2>2. ~Paused(EquityNow', PeakNow') /\ ~Exceeds(UsedToday', EquityNow', Policy.daily)
    BY <1>1, <1>3, <1>6 DEF StraightsFit
  <2>3. ASSUME NEW d \in Recommended'
        PROVE  /\ stakes'[d] <= Policy.maxStake /\ ~Exceeds(stakes'[d], EquityNow', PerBetFraction(d))
               /\ Unopposed(d.leg)'
    BY <1>3, <1>5, <1>6 DEF StraightsFit
  <2>4. ASSUME NEW g \in EngineGroups, RecommendedIn(g.legs)' # {}
        PROVE  ~Exceeds(UsedIn(g.legs)', EquityNow', g.cap)
    BY <1>3, <1>6, <2>4 DEF StraightsFit
  <2>5. QED
    BY <2>1, <2>2, <2>3, <2>4 DEF StraightsFit
<1>7. ASSUME ParlayFits PROVE ParlayFits'
  BY <1>1, <1>3, <1>5, <1>7 DEF ParlayFits
<1>8. QED
  BY <1>1, <1>3, <1>4, <1>6, <1>7 DEF EngineSound, ParlayApproved, ParlayProposed

\* Approving the parlay ends what the run promises.
LEMMA ApproveParlaySound ==
  ASSUME EngineSound, NEW b \in BetSlot, ApproveParlay(b)
  PROVE  EngineSound'
<1>1. /\ EngineTypeOK /\ TableSound /\ phase = "review" /\ ParlayFits
      /\ UNCHANGED <<port, paperOrder, phase, considered, stakes, offer>>
      /\ parlayStake \in Nat /\ parlayStake' = 0
      /\ b \notin DOMAIN paperBets /\ Open(ParlayRow, b)
  BY DEF EngineSound, EngineTypeOK, ApproveParlay, ParlayProposed
<1>2. /\ ParlayRow.port = port /\ ParlayRow.stake = parlayStake
      /\ ParlayRow.legs = {c.leg : c \in offer.legs}
  BY DEF ParlayRow
<1>3. parlayStake <= paperCash /\ paperCash \in Nat
  BY <1>1, <1>2 DEF ApproveParlay, Approvable, TableSound, HoldingSound
<1>4. ParlayRow.legs # {} /\ ParlayRow.legs \subseteq EngineLeg
  BY <1>1, <1>2 DEF ParlayFits, EngineLeg
<1>5. IsFiniteSet(ParlayRow.legs)
  <2> DEFINE f == [c \in offer.legs |-> c.leg]
             legs == {c.leg : c \in offer.legs}
  <2>1. f \in Surjection(offer.legs, legs)
    BY DEF Surjection
  <2> HIDE DEF f, legs
  <2>2. IsFiniteSet(legs)
    BY <1>1, <2>1, FS_Surjection DEF ParlayFits
  <2>3. QED
    BY <1>2, <2>2 DEF legs
<1>6. HoldingSound' /\ DOMAIN paperBets' = DOMAIN paperBets \cup {b} /\ paperCash' = paperCash - parlayStake
  BY <1>1, <1>2, <1>3, <1>4, <1>5, Opens DEF TableSound
<1>7. TableSound'
  BY <1>1, <1>6 DEF TableSound, RecommendedSound, Recommended
<1>8. EngineTypeOK'
  <2>1. paperCash' \in Nat
    BY <1>1, <1>3, <1>6
  <2>2. QED
    BY <1>1, <1>6, <2>1 DEF EngineTypeOK, Recommended
<1>9. ParlayApproved' /\ ~ParlayProposed'
  BY <1>1, OfferAssumption DEF ParlayApproved, ParlayProposed, ParlayFits
<1>10. QED
  BY <1>1, <1>7, <1>8, <1>9 DEF EngineSound

\* Every step keeps the invariant.
LEMMA EngineStep == EngineSound /\ [EngineNext]_engineVars => EngineSound'
<1> SUFFICES ASSUME EngineSound, [EngineNext]_engineVars PROVE EngineSound'
  OBVIOUS
<1>1. CASE UNCHANGED engineVars \/ EndSizing
  <2>1. UNCHANGED <<port, paperBets, paperOrder, paperCash, considered, stakes, offer, parlayStake>>
    BY <1>1 DEF engineVars, EndSizing
  <2>2. /\ phase' \in {"sizing", "parlay", "review"}
        /\ phase' = "review" <=> phase = "review"
    BY <1>1 DEF EngineSound, EngineTypeOK, engineVars, EndSizing
  <2>3. EngineTypeOK' /\ TableSound'
    BY <2>1, <2>2
       DEF EngineSound, EngineTypeOK, TableSound, HoldingSound, RecommendedSound, Recommended
  <2>4. (StraightsFit => StraightsFit') /\ (ParlayFits => ParlayFits')
    BY <2>1
       DEF StraightsFit, ParlayFits, Unopposed, UsedIn, UsedToday, UsedByParlays, HeldIn,
           RecommendedIn, RecommendedStake, Recommended, EquityNow, PeakNow
  <2>5. QED
    BY <2>1, <2>2, <2>3, <2>4 DEF EngineSound, ParlayApproved, ParlayProposed
<1>2. QED
  BY <1>1, SizeSound, ChooseSound, ApproveStraightSound, ApproveParlaySound DEF EngineNext

\* A bet counts its stake at least once among its exposures: the recheck, which sums
\* bets, never sees more than the engine, which sums legs.
LEMMA StakesWithinExposures ==
  ASSUME HoldingSound, NEW ids \in SUBSET OpenBets(paperBets, port)
  PROVE  StakeOf(paperBets, ids) <= ExposedStake(paperBets, ExposuresOf(paperBets, ids))
<1> DEFINE Fewer(U) == StakeOf(paperBets, U) <= ExposedStake(paperBets, ExposuresOf(paperBets, U))
           B == {U \in SUBSET ids : ~Fewer(U)}
<1>1. /\ IsFiniteSet(ids)
      /\ \A b \in ids : /\ paperBets[b].stake \in Nat /\ paperBets[b].legs # {}
                        /\ IsFiniteSet(paperBets[b].legs)
  <2>1. ids \subseteq DOMAIN paperBets
    BY DEF OpenBets, BetsWith
  <2>2. QED
    BY <2>1, FS_Subset DEF HoldingSound
<1>2. ASSUME B # {} PROVE FALSE
  <2>1. PICK U \in B : \A t \in SUBSET U : t # U => t \notin B
    <3>1. B \subseteq SUBSET ids
      OBVIOUS
    <3> HIDE DEF B
    <3>2. QED
      BY <1>1, <1>2, <3>1, Minimal
  <2>2. U \in SUBSET ids /\ ~Fewer(U)
    BY <2>1
  <2>3. U # {}
    <3>1. ASSUME U = {} PROVE Fewer(U)
      <4>1. ExposuresOf(paperBets, {}) = {}
        BY DEF ExposuresOf
      <4>2. StakeOf(paperBets, {}) = 0 /\ ExposedStake(paperBets, {}) = 0
        BY TotalEmpty DEF StakeOf, ExposedStake
      <4>3. QED
        BY <3>1, <4>1, <4>2
    <3>2. QED
      BY <2>2, <3>1
  <2>4. PICK b \in U : TRUE
    BY <2>3
  <2> DEFINE V == U \ {b}
             held == ExposuresOf(paperBets, V)
             legs == paperBets[b].legs
  <2>5. V \in SUBSET ids /\ V # U /\ V \in SUBSET U /\ b \in ids /\ b \notin V /\ U = V \cup {b}
    BY <2>2, <2>4
  <2>6. Fewer(V)
    BY <2>1, <2>5
  <2> HIDE DEF V
  <2>7. IsFiniteSet(V) /\ \A x \in V : paperBets[x].stake \in Nat /\ IsFiniteSet(paperBets[x].legs)
    BY <1>1, <2>5, FS_Subset
  <2>8. StakeOf(paperBets, U) = paperBets[b].stake + StakeOf(paperBets, V)
        /\ StakeOf(paperBets, V) \in Nat
    <3>1. \A x \in V \cup {b} : paperBets[x].stake \in Int
      BY <1>1, <2>5
    <3>2. StakeOf(paperBets, V \cup {b}) = paperBets[b].stake + StakeOf(paperBets, V)
      BY <2>5, <2>7, <3>1, StakeOfInsert
    <3>3. StakeOf(paperBets, V) \in Nat
      BY <2>7, StakeOfNat
    <3>4. QED
      BY <2>5, <3>2, <3>3
  <2>9. PICK l \in legs : TRUE
    BY <1>1, <2>5
  <2> DEFINE part == held \cup LegsOf(b, {l})
             all == ExposuresOf(paperBets, U)
  <2>10. part \in SUBSET all
    <3>1. \A x \in LegsOf(b, {l}) : x = [bet |-> b, leg |-> l]
      BY DEF LegsOf
    <3>2. held \subseteq all /\ [bet |-> b, leg |-> l] \in all
      BY <2>5, <2>9, ExposureOfLeg DEF ExposuresOf
    <3>3. QED
      BY <3>1, <3>2
  <2>11. IsFiniteSet(all) /\ \A x \in all : paperBets[x.bet].stake \in Nat
    <3>1. IsFiniteSet(U) /\ \A x \in U : IsFiniteSet(paperBets[x].legs) /\ paperBets[x].stake \in Nat
      BY <1>1, <2>2, FS_Subset
    <3>2. \A x \in all : x.bet \in U
      BY LegOfExposure
    <3>3. QED
      BY <3>1, <3>2, ExposuresFinite
  <2>12. IsFiniteSet(held) /\ \A x \in held : x.bet # b /\ paperBets[x.bet].stake \in Nat
    <3>1. IsFiniteSet(held)
      BY <2>7, ExposuresFinite
    <3>2. \A x \in held : x.bet \in V
      BY LegOfExposure
    <3>3. QED
      BY <2>5, <2>7, <3>1, <3>2
  <2>13. paperBets[b].stake \in Nat
    BY <1>1, <2>5
  <2> HIDE DEF held, all
  <2>14. ExposedStake(paperBets, part) = ExposedStake(paperBets, held) + paperBets[b].stake
    BY <2>12, <2>13, OneExposure
  <2> HIDE DEF part
  <2>15. ExposedStake(paperBets, part) <= ExposedStake(paperBets, all)
    BY <2>10, <2>11, ExposedMonotone
  <2>16. ExposedStake(paperBets, held) \in Nat /\ ExposedStake(paperBets, all) \in Nat
    BY <2>11, <2>12, ExposedNat
  <2>17. Fewer(U)
    <3>1. StakeOf(paperBets, V) <= ExposedStake(paperBets, held)
      BY <2>6 DEF held
    <3>2. StakeOf(paperBets, U) <= ExposedStake(paperBets, all)
      BY <2>8, <2>13, <2>14, <2>15, <2>16, <3>1
    <3>3. QED
      BY <3>2 DEF all
  <2>18. QED
    BY <2>2, <2>17
<1>3. QED
  BY <1>2

\* What the recheck sums for the slate is part of what the engine summed.
LEMMA RecheckSeesLess ==
  ASSUME TableSound
  PROVE  LET sameDay == {b \in OpenBets(paperBets, port) : paperBets[b].slate = Slate}
             parlays == {b \in sameDay : paperBets[b].kind = "parlay"}
         IN  /\ StakeOf(paperBets, sameDay) \in Nat /\ StakeOf(paperBets, parlays) \in Nat
             /\ StakeOf(paperBets, sameDay) <= ExposedStake(paperBets, HeldToday)
             /\ StakeOf(paperBets, parlays) <= UsedByParlays
<1> DEFINE sameDay == {b \in OpenBets(paperBets, port) : paperBets[b].slate = Slate}
           parlays == {b \in sameDay : paperBets[b].kind = "parlay"}
           byParlays == {x \in OpenExposures(paperBets, port) :
                           paperBets[x.bet].slate = Slate /\ paperBets[x.bet].kind = "parlay"}
<1>1. sameDay \in SUBSET OpenBets(paperBets, port) /\ parlays \in SUBSET OpenBets(paperBets, port)
  OBVIOUS
<1>2. ASSUME NEW ids \in SUBSET OpenBets(paperBets, port) PROVE StakeOf(paperBets, ids) \in Nat
  <2>1. ids \subseteq DOMAIN paperBets /\ IsFiniteSet(ids)
    BY HeldTyped, FS_Subset
  <2>2. \A b \in ids : paperBets[b].stake \in Nat
    BY <2>1 DEF TableSound, HoldingSound
  <2>3. QED
    BY <2>1, <2>2, StakeOfNat
<1>3. ExposuresOf(paperBets, sameDay) = HeldToday
  BY DEF ExposuresOf, OpenExposures, HeldToday
<1>4. ExposuresOf(paperBets, parlays) = byParlays
  BY DEF ExposuresOf, OpenExposures
<1> HIDE DEF sameDay, parlays, byParlays
<1>5. /\ StakeOf(paperBets, sameDay) <= ExposedStake(paperBets, HeldToday)
      /\ StakeOf(paperBets, parlays) <= ExposedStake(paperBets, byParlays)
  BY <1>1, <1>3, <1>4, StakesWithinExposures DEF TableSound
<1>6. QED
  BY <1>1, <1>2, <1>5 DEF UsedByParlays, sameDay, parlays, byParlays

\* One leg of a proposal in a group: the stake counts once there.
LEMMA OnceInGroup ==
  ASSUME NEW stake \in Nat, NEW leg
  PROVE  stake * Cardinality({leg}) = stake
<1>1. Cardinality({leg}) = 1
  BY FS_Singleton
<1>2. stake * 1 = stake
  OBVIOUS
<1>3. QED
  BY <1>1, <1>2

\* What the recheck grants for a group given by its legs.
GrantedIn(row, G, cap) ==
    ~Exceeds(ExposedStake(paperBets, HeldIn(G)) + row.stake * Cardinality({l \in row.legs : l \in G}),
             EquityNow, cap)

\* The groups the recheck sums are those of the known legs too.
LEMMA GroupsRechecked ==
  ASSUME TableSound, NEW row, row.port = port, row.legs \subseteq EngineLeg, NEW m
  PROVE  /\ {x \in OpenExposures(paperBets, row.port) : x.leg.event = m.event} = HeldIn(EventLegs(m))
         /\ {x \in OpenExposures(paperBets, row.port) : x.leg.market = m.market} = HeldIn(MarketLegs(m))
         /\ \A t : {x \in OpenExposures(paperBets, row.port) : t \in x.leg.teams} = HeldIn(TeamLegs(t))
         /\ {l \in row.legs : l.event = m.event} = {l \in row.legs : l \in EventLegs(m)}
         /\ {l \in row.legs : l.market = m.market} = {l \in row.legs : l \in MarketLegs(m)}
         /\ \A t : {l \in row.legs : t \in l.teams} = {l \in row.legs : l \in TeamLegs(t)}
<1>1. \A x \in OpenExposures(paperBets, port) : x.leg \in EngineLeg
  BY HeldTyped
<1>2. QED
  BY <1>1 DEF HeldIn, EventLegs, MarketLegs, TeamLegs

\* A proposal that is granted the groups of its legs passes the caps of the recheck.
LEMMA GrantsLegs ==
  ASSUME TableSound, NEW row, row.port = port, row.legs \subseteq EngineLeg,
         \A target \in row.legs :
            /\ GrantedIn(row, EventLegs(target), Policy.game)
            /\ GrantedIn(row, EventLegs(target), Policy.correlated)
            /\ GrantedIn(row, MarketLegs(target), Policy.market)
            /\ \A t \in target.teams : GrantedIn(row, TeamLegs(t), Policy.team)
  PROVE  LegCapsHold(row, paperBets, EquityNow)
<1>1. ASSUME NEW target \in row.legs
      PROVE  /\ GroupWithin(LAMBDA l : l.event = target.event, Policy.game, row, paperBets, EquityNow)
             /\ GroupWithin(LAMBDA l : l.event = target.event, Policy.correlated, row, paperBets, EquityNow)
             /\ GroupWithin(LAMBDA l : l.market = target.market, Policy.market, row, paperBets, EquityNow)
             /\ \A t \in target.teams :
                   GroupWithin(LAMBDA l : t \in l.teams, Policy.team, row, paperBets, EquityNow)
  <2>1. GroupWithin(LAMBDA l : l.event = target.event, Policy.game, row, paperBets, EquityNow)
    <3>1. GrantedIn(row, EventLegs(target), Policy.game)
      OBVIOUS
    <3>2. {x \in OpenExposures(paperBets, row.port) : x.leg.event = target.event} = HeldIn(EventLegs(target))
      BY GroupsRechecked
    <3>3. {l \in row.legs : l.event = target.event} = {l \in row.legs : l \in EventLegs(target)}
      BY GroupsRechecked
    <3>4. QED
      BY <3>1, <3>2, <3>3 DEF GrantedIn, GroupWithin
  <2>2. GroupWithin(LAMBDA l : l.event = target.event, Policy.correlated, row, paperBets, EquityNow)
    <3>1. GrantedIn(row, EventLegs(target), Policy.correlated)
      OBVIOUS
    <3>2. {x \in OpenExposures(paperBets, row.port) : x.leg.event = target.event} = HeldIn(EventLegs(target))
      BY GroupsRechecked
    <3>3. {l \in row.legs : l.event = target.event} = {l \in row.legs : l \in EventLegs(target)}
      BY GroupsRechecked
    <3>4. QED
      BY <3>1, <3>2, <3>3 DEF GrantedIn, GroupWithin
  <2>3. GroupWithin(LAMBDA l : l.market = target.market, Policy.market, row, paperBets, EquityNow)
    <3>1. GrantedIn(row, MarketLegs(target), Policy.market)
      OBVIOUS
    <3>2. {x \in OpenExposures(paperBets, row.port) : x.leg.market = target.market}
            = HeldIn(MarketLegs(target))
      BY GroupsRechecked
    <3>3. {l \in row.legs : l.market = target.market} = {l \in row.legs : l \in MarketLegs(target)}
      BY GroupsRechecked
    <3>4. QED
      BY <3>1, <3>2, <3>3 DEF GrantedIn, GroupWithin
  <2>4. ASSUME NEW t \in target.teams
        PROVE  GroupWithin(LAMBDA l : t \in l.teams, Policy.team, row, paperBets, EquityNow)
    <3>1. GrantedIn(row, TeamLegs(t), Policy.team)
      OBVIOUS
    <3>2. {x \in OpenExposures(paperBets, row.port) : t \in x.leg.teams} = HeldIn(TeamLegs(t))
      BY GroupsRechecked
    <3>3. {l \in row.legs : t \in l.teams} = {l \in row.legs : l \in TeamLegs(t)}
      BY GroupsRechecked
    <3>4. QED
      BY <3>1, <3>2, <3>3 DEF GrantedIn, GroupWithin
  <2>5. QED
    BY <2>1, <2>2, <2>3, <2>4
<1>2. QED
  BY <1>1 DEF LegCapsHold

\* A proposal with one leg in a group is granted it by what is used and the stake.
LEMMA OnceGranted ==
  ASSUME TableSound, NEW row, row.stake \in Nat, NEW G, NEW only, {l \in row.legs : l \in G} = {only},
         NEW cap \in Nat, NEW used \in Nat, ~Exceeds(used, EquityNow, cap),
         ExposedStake(paperBets, HeldIn(G)) + row.stake <= used
  PROVE  GrantedIn(row, G, cap)
<1>1. row.stake * Cardinality({l \in row.legs : l \in G}) = row.stake
  BY OnceInGroup
<1>2. ExposedStake(paperBets, HeldIn(G)) + row.stake \in Nat /\ EquityNow \in Nat
  BY UsedTyped, HeldTyped
<1> DEFINE less == ExposedStake(paperBets, HeldIn(G)) + row.stake
<1>3. less \in Int /\ used \in Int /\ EquityNow \in Int /\ less <= used
  BY <1>2
<1> HIDE DEF less
<1>4. ~Exceeds(less, EquityNow, cap)
  BY <1>2, <1>3, WithinGrows
<1>5. QED
  BY <1>1, <1>4 DEF GrantedIn, less

\* Every recommended straight passes the recheck.
LEMMA StraightsPass ==
  ASSUME TableSound, StraightsFit, NEW c \in Recommended
  PROVE  Approvable(StraightRow(c))
<1> DEFINE row == StraightRow(c)
           s == stakes[c]
<1>1. /\ row.port = port /\ row.kind = "straight" /\ row.stake = s /\ row.slate = Slate
      /\ row.legs = {c.leg} /\ row.class = c.class
  BY DEF StraightRow
<1> HIDE DEF row
<1>2. s \in Nat /\ paperCash \in Nat /\ c \in Candidate /\ EquityNow \in Nat
  BY HeldTyped DEF TableSound, HoldingSound, RecommendedSound
<1>3. paperCash >= row.stake
  <2>1. s <= RecommendedStake(Recommended) /\ RecommendedStake(Recommended) <= paperCash
    BY RecommendedTyped DEF StraightsFit
  <2>2. RecommendedStake(Recommended) \in Nat
    BY UsedTyped
  <2>3. QED
    BY <1>1, <1>2, <2>1, <2>2
<1>4. ~Paused(EquityNow, PeakNow) /\ ~Exceeds(UsedToday, EquityNow, Policy.daily)
  BY DEF StraightsFit
<1>5. StakeCapsHold(row, paperBets, EquityNow)
  <2> DEFINE sameDay == {b \in OpenBets(paperBets, port) : paperBets[b].slate = Slate}
  <2>1. /\ StakeOf(paperBets, sameDay) \in Nat
        /\ StakeOf(paperBets, sameDay) <= ExposedStake(paperBets, HeldToday)
    BY RecheckSeesLess
  <2>2. /\ ExposedStake(paperBets, HeldToday) \in Nat /\ RecommendedStake(Recommended) \in Nat
        /\ UsedToday \in Nat
    BY UsedTyped
  <2>3. s <= RecommendedStake(Recommended)
    BY RecommendedTyped
  <2>4. UsedToday = ExposedStake(paperBets, HeldToday) + RecommendedStake(Recommended)
    BY DEF UsedToday, HeldToday
  <2> HIDE DEF sameDay
  <2>5. StakeOf(paperBets, sameDay) + s <= UsedToday
    BY <1>2, <2>1, <2>2, <2>3, <2>4
  <2>6. ~Exceeds(StakeOf(paperBets, sameDay) + s, EquityNow, Policy.daily)
    <3>1. StakeOf(paperBets, sameDay) + s \in Nat
      BY <1>2, <2>1
    <3>2. QED
      BY <1>2, <1>4, <2>2, <2>5, <3>1, PolicyTyped, WithinGrows
  <2>7. s <= Policy.maxStake /\ ~Exceeds(s, EquityNow, PerBetFraction(row))
    BY <1>1 DEF StraightsFit, PerBetFraction
  <2>8. QED
    BY <1>1, <2>6, <2>7 DEF StakeCapsHold, sameDay
<1>6. c.leg \in EngineLeg /\ row.legs \subseteq EngineLeg
  BY <1>1, <1>2 DEF EngineLeg
<1>7. ASSUME NEW g \in EngineGroups, c.leg \in g.legs
      PROVE  GrantedIn(row, g.legs, g.cap)
  <2>1. {l \in row.legs : l \in g.legs} = {c.leg}
    BY <1>1, <1>7
  <2>2. c \in RecommendedIn(g.legs) /\ RecommendedIn(g.legs) \in SUBSET Recommended
    BY <1>7 DEF RecommendedIn
  <2>3. s <= RecommendedStake(RecommendedIn(g.legs))
    BY <2>2, RecommendedTyped
  <2>4. /\ ExposedStake(paperBets, HeldIn(g.legs)) \in Nat
        /\ RecommendedStake(RecommendedIn(g.legs)) \in Nat /\ UsedIn(g.legs) \in Nat
    BY UsedTyped
  <2>5. ExposedStake(paperBets, HeldIn(g.legs)) + row.stake <= UsedIn(g.legs)
    BY <1>1, <1>2, <2>3, <2>4 DEF UsedIn
  <2>6. ~Exceeds(UsedIn(g.legs), EquityNow, g.cap)
    BY <2>2 DEF StraightsFit
  <2>7. g.cap \in Nat /\ row.stake \in Nat
    BY <1>1, <1>2, EngineCapsTyped
  <2>8. QED
    BY <2>1, <2>4, <2>5, <2>6, <2>7, OnceGranted
<1>8. LegCapsHold(row, paperBets, EquityNow)
  <2>1. /\ GrantedIn(row, EventLegs(c.leg), Policy.game)
        /\ GrantedIn(row, EventLegs(c.leg), Policy.correlated)
        /\ GrantedIn(row, MarketLegs(c.leg), Policy.market)
        /\ \A t \in c.leg.teams : GrantedIn(row, TeamLegs(t), Policy.team)
    <3>1. ASSUME NEW G, NEW cap, [legs |-> G, cap |-> cap] \in EngineGroups, c.leg \in G
          PROVE  GrantedIn(row, G, cap)
      BY <1>7, <3>1
    <3>2. QED
      BY <1>6, <3>1, LegsGroups
  <2>2. QED
    BY <1>1, <1>6, <2>1, GrantsLegs
<1>9. NoOpposingPosition(row, paperBets)
  BY <1>1 DEF StraightsFit, Unopposed, NoOpposingPosition
<1>10. QED
  BY <1>1, <1>3, <1>4, <1>5, <1>8, <1>9 DEF Approvable, WithinRiskLimits, EquityNow, PeakNow, row

\* While the parlay is proposed it still has the room it was sized for.
LEMMA ParlayPasses ==
  ASSUME TableSound, ParlayFits, ParlayProposed, parlayStake \in Nat
  PROVE  /\ StakeCapsHold(ParlayRow, paperBets, EquityNow)
         /\ NoOpposingPosition(ParlayRow, paperBets)
         /\ \A l \in ParlayRow.legs :
               /\ GroupWithin(LAMBDA m : m.event = l.event, Policy.game, ParlayRow, paperBets, EquityNow)
               /\ \A t \in l.teams :
                     GroupWithin(LAMBDA m : t \in m.teams, Policy.team, ParlayRow, paperBets, EquityNow)
<1> DEFINE row == ParlayRow
<1>1. /\ row.port = port /\ row.kind = "parlay" /\ row.stake = parlayStake /\ row.slate = Slate
      /\ row.legs = {c.leg : c \in offer.legs}
  BY DEF ParlayRow
<1> HIDE DEF row
<1>2. EquityNow \in Nat /\ row.legs \subseteq EngineLeg /\ row.stake \in Nat
  BY <1>1, HeldTyped DEF ParlayFits, EngineLeg
<1>3. StakeCapsHold(row, paperBets, EquityNow)
  <2> DEFINE sameDay == {b \in OpenBets(paperBets, port) : paperBets[b].slate = Slate}
             parlays == {b \in sameDay : paperBets[b].kind = "parlay"}
  <2>1. /\ StakeOf(paperBets, sameDay) \in Nat /\ StakeOf(paperBets, parlays) \in Nat
        /\ StakeOf(paperBets, sameDay) <= ExposedStake(paperBets, HeldToday)
        /\ StakeOf(paperBets, parlays) <= UsedByParlays
    BY RecheckSeesLess
  <2>2. /\ ExposedStake(paperBets, HeldToday) \in Nat /\ RecommendedStake(Recommended) \in Nat
        /\ UsedToday \in Nat /\ UsedByParlays \in Nat
    BY UsedTyped
  <2>3. UsedToday = ExposedStake(paperBets, HeldToday) + RecommendedStake(Recommended)
    BY DEF UsedToday, HeldToday
  <2>4. /\ ~Exceeds(UsedToday + parlayStake, EquityNow, Policy.daily)
        /\ ~Exceeds(UsedByParlays + parlayStake, EquityNow, Policy.dailyParlay)
        /\ ~Exceeds(parlayStake, EquityNow, Policy.parlay)
    BY DEF ParlayFits
  <2>5. ~Exceeds(StakeOf(paperBets, sameDay) + parlayStake, EquityNow, Policy.daily)
    <3> HIDE DEF sameDay, parlays
    <3>1. /\ StakeOf(paperBets, sameDay) + parlayStake <= UsedToday + parlayStake
          /\ StakeOf(paperBets, sameDay) + parlayStake \in Int /\ UsedToday + parlayStake \in Int
      BY <2>1, <2>2, <2>3
    <3>2. QED
      BY <1>2, <2>4, <3>1, PolicyTyped, WithinGrows
  <2>6. ~Exceeds(StakeOf(paperBets, parlays) + parlayStake, EquityNow, Policy.dailyParlay)
    <3> HIDE DEF sameDay, parlays
    <3>1. /\ StakeOf(paperBets, parlays) + parlayStake <= UsedByParlays + parlayStake
          /\ StakeOf(paperBets, parlays) + parlayStake \in Int /\ UsedByParlays + parlayStake \in Int
      BY <2>1, <2>2
    <3>2. QED
      BY <1>2, <2>4, <3>1, PolicyTyped, WithinGrows
  <2>7. QED
    BY <1>1, <2>4, <2>5, <2>6 DEF StakeCapsHold
<1>4. NoOpposingPosition(row, paperBets)
  BY <1>1 DEF ParlayFits, Unopposed, NoOpposingPosition
<1>5. ASSUME NEW c \in offer.legs, NEW g \in ParlayGroups, c.leg \in g.legs,
             \A d \in offer.legs : d.leg \in g.legs => d = c
      PROVE  GrantedIn(row, g.legs, g.cap)
  <2>1. {l \in row.legs : l \in g.legs} = {c.leg}
    BY <1>1, <1>5
  <2>2. ~Exceeds(UsedIn(g.legs) + parlayStake, EquityNow, g.cap)
    BY <1>5 DEF ParlayFits
  <2>3. /\ ExposedStake(paperBets, HeldIn(g.legs)) \in Nat
        /\ RecommendedStake(RecommendedIn(g.legs)) \in Nat /\ UsedIn(g.legs) \in Nat
    BY UsedTyped
  <2>4. /\ ExposedStake(paperBets, HeldIn(g.legs)) + row.stake <= UsedIn(g.legs) + parlayStake
        /\ UsedIn(g.legs) + parlayStake \in Nat
    BY <1>1, <2>3 DEF UsedIn
  <2>5. g \in EngineGroups
    BY DEF EngineGroups
  <2>6. QED
    BY <1>2, <2>1, <2>2, <2>4, <2>5, EngineCapsTyped, OnceGranted
<1>6. ASSUME NEW l \in row.legs
      PROVE  /\ GrantedIn(row, EventLegs(l), Policy.game)
             /\ \A t \in l.teams : GrantedIn(row, TeamLegs(t), Policy.team)
  <2>1. PICK c \in offer.legs : l = c.leg
    BY <1>1
  <2>2. \A d \in offer.legs : d # c => d.leg.event # l.event /\ d.leg.teams \cap l.teams = {}
    BY <2>1 DEF ParlayFits
  <2>3. l \in EngineLeg
    BY <1>2
  <2>4. ASSUME NEW G, NEW cap, [legs |-> G, cap |-> cap] \in ParlayGroups, l \in G,
               \A d \in offer.legs : d.leg \in G => d = c
        PROVE  GrantedIn(row, G, cap)
    BY <1>5, <2>1, <2>4
  <2>5. GrantedIn(row, EventLegs(l), Policy.game)
    <3>1. \A d \in offer.legs : d.leg \in EventLegs(l) => d = c
      BY <2>2 DEF EventLegs
    <3>2. QED
      BY <2>3, <2>4, <3>1, LegsGroups
  <2>6. ASSUME NEW t \in l.teams PROVE GrantedIn(row, TeamLegs(t), Policy.team)
    <3>1. \A d \in offer.legs : d.leg \in TeamLegs(t) => d = c
      BY <2>2 DEF TeamLegs
    <3>2. QED
      BY <2>3, <2>4, <3>1, LegsGroups
  <2>7. QED
    BY <2>5, <2>6
<1>7. ASSUME NEW l \in row.legs
      PROVE  /\ GroupWithin(LAMBDA m : m.event = l.event, Policy.game, row, paperBets, EquityNow)
             /\ \A t \in l.teams :
                   GroupWithin(LAMBDA m : t \in m.teams, Policy.team, row, paperBets, EquityNow)
  <2>1. GroupWithin(LAMBDA m : m.event = l.event, Policy.game, row, paperBets, EquityNow)
    <3>1. {x \in OpenExposures(paperBets, row.port) : x.leg.event = l.event} = HeldIn(EventLegs(l))
      BY <1>1, <1>2, GroupsRechecked
    <3>2. {m \in row.legs : m.event = l.event} = {m \in row.legs : m \in EventLegs(l)}
      BY <1>1, <1>2, GroupsRechecked
    <3>3. QED
      BY <1>6, <3>1, <3>2 DEF GrantedIn, GroupWithin
  <2>2. ASSUME NEW t \in l.teams
        PROVE  GroupWithin(LAMBDA m : t \in m.teams, Policy.team, row, paperBets, EquityNow)
    <3>1. {x \in OpenExposures(paperBets, row.port) : t \in x.leg.teams} = HeldIn(TeamLegs(t))
      BY <1>1, <1>2, GroupsRechecked
    <3>2. {m \in row.legs : t \in m.teams} = {m \in row.legs : m \in TeamLegs(t)}
      BY <1>1, <1>2, GroupsRechecked
    <3>3. QED
      BY <1>6, <3>1, <3>2 DEF GrantedIn, GroupWithin
  <2>3. QED
    BY <2>1, <2>2
<1>8. QED
  BY <1>3, <1>4, <1>7 DEF row

\* Whatever portfolio a run starts from and whichever candidates and quotes it sees: what
\* it recommends, approve still accepts piece by piece, in any order. The engine sums legs
\* (_size_candidate), the recheck sums bets (_validate_approval_risk), and the two agree.
THEOREM RunsStayApprovable == EngineSpec => []RunApprovable
<1>1. EngineSound => RunApprovable
  <2> SUFFICES ASSUME EngineSound PROVE RunApprovable
    OBVIOUS
  <2>1. EngineTypeOK /\ TableSound /\ parlayStake \in Nat
    BY DEF EngineSound, EngineTypeOK
  <2>2. StraightsApprovable
    BY <2>1, StraightsPass DEF EngineSound, StraightsApprovable
  <2>3. ParlayRoomKept
    <3>1. SUFFICES ASSUME ParlayProposed PROVE ParlayRoomKept
      BY DEF ParlayRoomKept
    <3>2. ParlayFits
      BY <3>1 DEF EngineSound
    <3>3. QED
      BY <2>1, <3>1, <3>2, ParlayPasses DEF ParlayRoomKept
  <2>4. QED
    BY <2>1, <2>2, <2>3 DEF RunApprovable
<1>2. QED
  BY <1>1, EngineInitSound, EngineStep, PTL DEF EngineSpec
=============================================================================
