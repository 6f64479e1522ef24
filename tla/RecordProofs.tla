---------------------------- MODULE RecordProofs -----------------------------
(* What is written once and read again, for every value of the constants.         *)
(* Pricing: a settled cutoff has one answer for ever, whatever is ingested,        *)
(* committed or lost later, and from cutoff to cutoff no superseded line returns.   *)
(* NCAAF history: a corpus is whole, known and chronological, and its runs heal.    *)
(* Legacy portfolios: imports leave a ledger that tells of the bets, however often  *)
(* they run and however the portfolios are used in between.                        *)
(* Features: a row has seen the games available at its cutoff and no other.         *)
EXTENDS PricingReplay, NcaafHistory, JsonImport, FeatureChronology, SumProofs

-----------------------------------------------------------------------------
(* Pricing runs over stored market states. *)
\* Times are natural numbers.
Times ==
    /\ now \in Nat
    /\ \A x \in underway : x.ingested \in Nat
    /\ \A a \in answers : a.cutoff \in Nat

\* What a settled answer rests on does not change: its cutoff is settled still, and
\* the query would return the same states now.
AnswersStand ==
    \A a \in answers : a.settled =>
        /\ Settled(a.cutoff)
        /\ a.state = [f \in Family |-> Latest(f, a.cutoff)]

ReplayInv == Times /\ AnswersStand

\* A commit adds nothing that a settled cutoff knows.
LEMMA LateCommitIsUnknown ==
    ASSUME Times, NEW c \in Nat, Settled(c), NEW x \in underway, Commit(x)
    PROVE  [f \in Family |-> Latest(f, c)]' = [f \in Family |-> Latest(f, c)]
<1>1. x.ingested \in Nat /\ ~(x.ingested <= c)
  BY DEF Times, Settled
<1>2. ASSUME NEW f \in Family
      PROVE  KnownStates(f, c)' = KnownStates(f, c)
  BY <1>1 DEF Commit, KnownStates, Known
<1>3. ASSUME NEW f \in Family PROVE Latest(f, c)' = Latest(f, c)
  BY <1>2 DEF Latest
<1>4. QED
  BY <1>3

\* The steps that store nothing leave every answer as it is.
LEMMA StoredAlone ==
    ASSUME UNCHANGED stored, NEW c
    PROVE  [f \in Family |-> Latest(f, c)]' = [f \in Family |-> Latest(f, c)]
BY DEF Latest, KnownStates

\* A settled cutoff stays settled: whoever starts later takes a later time.
LEMMA SettledForever ==
    ASSUME Times, [ReplayNext]_replayVars, NEW c \in Nat, Settled(c)
    PROVE  Settled(c)'
<1> USE DEF Times, Settled
<1>1. CASE Tick
  BY <1>1 DEF Tick
<1>2. ASSUME NEW id, NEW families, NEW requested, NEW observed,
             Ingest(id, families, requested, observed)
      PROVE  Settled(c)'
  BY <1>2 DEF Ingest
<1>3. ASSUME NEW x \in underway, Commit(x) \/ Fail(x) PROVE Settled(c)'
  BY <1>3 DEF Commit, Fail
<1>4. ASSUME NEW cutoff, Price(cutoff) PROVE Settled(c)'
  BY <1>4 DEF Price
<1>5. CASE UNCHANGED replayVars
  BY <1>5 DEF replayVars
<1>6. QED
  BY <1>1, <1>2, <1>3, <1>4, <1>5 DEF ReplayNext

\* Times stay natural numbers.
LEMMA TimesKept == ASSUME Times, [ReplayNext]_replayVars PROVE Times'
<1> USE ReplayAssumption DEF Times
<1>1. CASE Tick
  BY <1>1 DEF Tick
<1>2. ASSUME NEW id, NEW families, NEW requested, NEW observed,
             Ingest(id, families, requested, observed)
      PROVE  Times'
  BY <1>2 DEF Ingest
<1>3. ASSUME NEW x \in underway, Commit(x) \/ Fail(x) PROVE Times'
  BY <1>3 DEF Commit, Fail
<1>4. ASSUME NEW cutoff \in 1..MaxTime, Price(cutoff) PROVE Times'
  BY <1>4 DEF Price
<1>5. CASE UNCHANGED replayVars
  BY <1>5 DEF replayVars
<1>6. QED
  BY <1>1, <1>2, <1>3, <1>4, <1>5 DEF ReplayNext

\* Every step leaves what settled answers rest on.
LEMMA AnswersKept == ASSUME ReplayInv, [ReplayNext]_replayVars PROVE AnswersStand'
<1> USE DEF ReplayInv
<1>1. ASSUME UNCHANGED answers, NEW a \in answers, a.settled,
             UNCHANGED stored \/ \E x \in underway : Commit(x)
      PROVE  Settled(a.cutoff)' /\ a.state = [f \in Family |-> Latest(f, a.cutoff)]'
  <2>1. a.cutoff \in Nat /\ Settled(a.cutoff)
    BY <1>1 DEF AnswersStand, Times
  <2>2. Settled(a.cutoff)'
    BY <2>1, SettledForever
  <2>3. [f \in Family |-> Latest(f, a.cutoff)]' = [f \in Family |-> Latest(f, a.cutoff)]
    BY <1>1, <2>1, StoredAlone, LateCommitIsUnknown
  <2>4. QED
    BY <1>1, <2>2, <2>3 DEF AnswersStand
<1>2. CASE UNCHANGED answers /\ (UNCHANGED stored \/ \E x \in underway : Commit(x))
  BY <1>1, <1>2 DEF AnswersStand
<1>3. ASSUME NEW cutoff \in 1..MaxTime, Price(cutoff) PROVE AnswersStand'
  <2>1. UNCHANGED <<now, underway, stored>>
    BY <1>3 DEF Price
  <2>2. ASSUME NEW a \in answers', a.settled
        PROVE  Settled(a.cutoff) /\ a.state = [f \in Family |-> Latest(f, a.cutoff)]
    BY <1>3, <2>2 DEF Price, AnswersStand
  <2>3. ASSUME NEW a \in answers', a.settled
        PROVE  Settled(a.cutoff)' /\ a.state = [f \in Family |-> Latest(f, a.cutoff)]'
    BY <2>1, <2>2, <2>3, StoredAlone DEF Settled
  <2>4. QED
    BY <2>3 DEF AnswersStand
<1>4. CASE Tick
  BY <1>4, <1>2 DEF Tick
<1>5. ASSUME NEW id, NEW families, NEW requested, NEW observed,
             Ingest(id, families, requested, observed)
      PROVE  AnswersStand'
  BY <1>5, <1>2 DEF Ingest
<1>6. ASSUME NEW x \in underway, Commit(x) \/ Fail(x) PROVE AnswersStand'
  BY <1>6, <1>2 DEF Commit, Fail
<1>7. CASE UNCHANGED replayVars
  BY <1>7, <1>2 DEF replayVars
<1>8. QED
  BY <1>3, <1>4, <1>5, <1>6, <1>7 DEF ReplayNext

\* A settled answer is what the query still returns: the invariant of the replay.
THEOREM SettledAnswersStand == ReplaySpec => []ReplayInv
<1>1. ReplayInit => ReplayInv
  BY DEF ReplayInit, ReplayInv, Times, AnswersStand
<1>2. ReplayInv /\ [ReplayNext]_replayVars => ReplayInv'
  BY TimesKept, AnswersKept DEF ReplayInv
<1>3. QED
  BY <1>1, <1>2, PTL DEF ReplaySpec

\* Two settled answers at one cutoff agree, whatever happened in between: no later
\* snapshot, late commit or backdated quote leaks into a replay.
THEOREM SettledReplaysNeverDiffer == ReplaySpec => []SettledReplaysAgree
<1>1. ReplayInv => SettledReplaysAgree
  BY DEF ReplayInv, AnswersStand, SettledReplaysAgree
<1>2. QED
  BY <1>1, SettledAnswersStand, PTL

------------------------------------------------------------------------------
(* From cutoff to cutoff *)

\* Snapshots are finitely many, and each has an id of its own.
StoreSound ==
    /\ now \in 1..MaxTime
    /\ underway \cup stored \subseteq State
    /\ IsFiniteSet(stored)
    /\ \A x, y \in underway \cup stored : x.id = y.id => x = y

\* The order of the window function is total on stored snapshots, so that the query
\* returns one of those it knows, and none of them is newer.
LEMMA NewestIsNewest ==
    ASSUME StoreSound, NEW states \in SUBSET stored, states # {}
    PROVE  /\ Newest(states) \in states
           /\ \A y \in states : Newest(states).requested >= y.requested
<1> DEFINE R == {p \in states \X states : p[1] = p[2] \/ Newer(p[1], p[2])}
<1>1. IsFiniteSet(states)
  BY FS_Subset DEF StoreSound
<1>2. \A x \in states : x \in State
  BY DEF StoreSound
<1>3. \A x \in State : x.id \in Int /\ x.requested \in Int /\ x.observed \in Int /\ x.ingested \in Int
  BY DEF State
<1>4. \A x, y \in states : <<x, y>> \in R <=> x = y \/ Newer(x, y)
  OBVIOUS
<1>5. \A x, y \in states : x = y \/ Newer(x, y) \/ Newer(y, x)
  BY <1>2, <1>3 DEF Newer, StoreSound
<1>6. \A x, y, z \in states : Newer(x, y) /\ Newer(y, z) => Newer(x, z)
  BY <1>2, <1>3 DEF Newer
<1> HIDE DEF R
<1>7. \A x, y \in states : <<x, y>> \in R \/ <<y, x>> \in R
  BY <1>4, <1>5
<1>8. \A x, y, z \in states : <<x, y>> \in R /\ <<y, z>> \in R => <<x, z>> \in R
  BY <1>4, <1>6
<1>9. PICK x \in states : \A y \in states : <<x, y>> \in R
  BY <1>1, <1>7, <1>8, Greatest
<1>10. \A y \in states \ {x} : Newer(x, y)
  BY <1>4, <1>9
<1>11. /\ Newest(states) \in states
       /\ \A y \in states \ {Newest(states)} : Newer(Newest(states), y)
  BY <1>10 DEF Newest
<1>12. QED
  BY <1>2, <1>3, <1>11 DEF Newer

\* Every step keeps snapshots finitely many and apart.
LEMMA StoreKept == ASSUME StoreSound, [ReplayNext]_replayVars PROVE StoreSound'
<1> USE ReplayAssumption DEF StoreSound
<1>1. CASE Tick
  BY <1>1 DEF Tick
<1>2. ASSUME NEW id \in 1..MaxCalls, NEW families \in SUBSET Family,
             NEW requested \in 1..MaxTime, NEW observed \in 1..MaxTime,
             Ingest(id, families, requested, observed)
      PROVE  StoreSound'
  <2>1. PICK new : new = [id |-> id, families |-> families, requested |-> requested,
                          observed |-> observed, ingested |-> now]
    OBVIOUS
  <2>2. new \in State /\ new.id = id /\ \A x \in underway \cup stored : x.id # new.id
    BY <1>2, <2>1 DEF Ingest, State
  <2>3. underway' = underway \cup {new} /\ UNCHANGED <<now, stored>>
    BY <1>2, <2>1 DEF Ingest
  <2>4. QED
    BY <2>2, <2>3
<1>3. ASSUME NEW x \in underway, Commit(x) PROVE StoreSound'
  <2>1. IsFiniteSet(stored')
    BY <1>3, FS_AddElement DEF Commit
  <2>2. underway' \cup stored' \subseteq underway \cup stored /\ now' = now
    BY <1>3 DEF Commit
  <2>3. QED
    BY <2>1, <2>2
<1>4. ASSUME NEW x \in underway, Fail(x) PROVE StoreSound'
  BY <1>4 DEF Fail
<1>5. ASSUME NEW cutoff \in 1..MaxTime, Price(cutoff) PROVE StoreSound'
  BY <1>5 DEF Price
<1>6. CASE UNCHANGED replayVars
  BY <1>6 DEF replayVars
<1>7. QED
  BY <1>1, <1>2, <1>3, <1>4, <1>5, <1>6 DEF ReplayNext

\* A line that was superseded at one cutoff is not taken up again at a later one, now
\* or in a replay: the snapshot used never goes back to an older request.
THEOREM SupersededLinesNeverReturn == ReplaySpec => []LinesNeverReturn
<1>1. ReplayInit => StoreSound
  BY ReplayAssumption, FS_EmptySet DEF ReplayInit, StoreSound
<1>2. StoreSound /\ [ReplayNext]_replayVars => StoreSound'
  BY StoreKept
<1>3. ASSUME StoreSound, ReplayInv PROVE LinesNeverReturn
  <2> SUFFICES ASSUME NEW a \in answers, NEW b \in answers, a.settled, b.settled,
                      a.cutoff <= b.cutoff, NEW f \in Family, a.state[f] # NoState
               PROVE  b.state[f] # NoState /\ b.state[f].requested >= a.state[f].requested
    BY DEF LinesNeverReturn
  <2>1. a.state[f] = Latest(f, a.cutoff) /\ b.state[f] = Latest(f, b.cutoff)
    BY <1>3 DEF ReplayInv, AnswersStand
  <2>2. KnownStates(f, a.cutoff) # {}
    BY <2>1 DEF Latest, Newest
  <2>3. KnownStates(f, a.cutoff) \subseteq KnownStates(f, b.cutoff)
    <3>1. a.cutoff \in Int /\ b.cutoff \in Int
      BY <1>3 DEF ReplayInv, Times
    <3>2. \A x \in stored : x.observed \in Int /\ x.ingested \in Int /\ x.requested \in Int
      BY <1>3 DEF StoreSound, State
    <3>3. QED
      BY <3>1, <3>2 DEF KnownStates, Known
  <2>4. KnownStates(f, a.cutoff) \in SUBSET stored /\ KnownStates(f, b.cutoff) \in SUBSET stored
    BY DEF KnownStates
  <2>5. Latest(f, a.cutoff) \in KnownStates(f, a.cutoff)
    BY <1>3, <2>2, <2>4, NewestIsNewest DEF Latest
  <2>6. /\ Latest(f, b.cutoff) \in KnownStates(f, b.cutoff)
        /\ Latest(f, b.cutoff).requested >= Latest(f, a.cutoff).requested
    BY <1>3, <2>2, <2>3, <2>4, <2>5, NewestIsNewest DEF Latest
  <2>7. Latest(f, b.cutoff) # NoState
    BY <1>3, <2>4, <2>6, ReplayAssumption DEF StoreSound
  <2>8. QED
    BY <2>1, <2>6, <2>7
<1>4. QED
  BY <1>1, <1>2, <1>3, SettledAnswersStand, PTL DEF ReplaySpec


-----------------------------------------------------------------------------
(* The rank of a number in a finite set. *)

Below(S, x) == {y \in S : y < x}

\* A greater member has more members below it.
LEMMA RankGrows ==
  ASSUME NEW S \in SUBSET Int, IsFiniteSet(S), NEW x \in S, NEW y \in S, x < y
  PROVE  Cardinality(Below(S, x)) < Cardinality(Below(S, y))
<1>1. Below(S, y) \subseteq S /\ Below(S, x) \subseteq Below(S, y)
  <2>1. \A z \in S : z < x => z < y
    <3> TAKE z \in S
    <3>1. x \in Int /\ y \in Int /\ z \in Int
      OBVIOUS
    <3>2. QED
      BY <3>1
  <2>2. QED
    BY <2>1 DEF Below
<1>2. x \in Below(S, y) /\ x \notin Below(S, x)
  <2>1. x \in Int
    OBVIOUS
  <2>2. QED
    BY <2>1 DEF Below
<1>3. IsFiniteSet(Below(S, y))
  BY <1>1, FS_Subset
<1>4. IsFiniteSet(Below(S, x)) /\ Cardinality(Below(S, x)) <= Cardinality(Below(S, y))
      /\ (Cardinality(Below(S, x)) = Cardinality(Below(S, y)) => Below(S, x) = Below(S, y))
  BY <1>1, <1>3, FS_Subset
<1>5. Cardinality(Below(S, x)) \in Nat /\ Cardinality(Below(S, y)) \in Nat
  BY <1>3, <1>4, FS_CardinalityType
<1>6. QED
  BY <1>2, <1>4, <1>5

\* Every member has a rank below the size of the set, and no two have the same.
LEMMA RankIsOwn ==
  ASSUME NEW S \in SUBSET Int, IsFiniteSet(S), NEW x \in S
  PROVE  /\ Cardinality(Below(S, x)) \in 0 .. Cardinality(S) - 1
         /\ \A y \in S : Cardinality(Below(S, y)) = Cardinality(Below(S, x)) => y = x
<1>1. Below(S, x) \subseteq S /\ x \notin Below(S, x)
  BY DEF Below
<1>2. IsFiniteSet(Below(S, x)) /\ Cardinality(Below(S, x)) <= Cardinality(S)
      /\ (Cardinality(Below(S, x)) = Cardinality(S) => Below(S, x) = S)
  BY <1>1, FS_Subset
<1>3. Cardinality(Below(S, x)) \in Nat /\ Cardinality(S) \in Nat
  BY <1>2, FS_CardinalityType
<1>4. Cardinality(Below(S, x)) \in 0 .. Cardinality(S) - 1
  BY <1>1, <1>2, <1>3
<1>5. ASSUME NEW y \in S, Cardinality(Below(S, y)) = Cardinality(Below(S, x)) PROVE y = x
  <2>1. IsFiniteSet(Below(S, y))
    BY FS_Subset, Below(S, y) \subseteq S DEF Below
  <2>2. Cardinality(Below(S, y)) \in Nat
    BY <2>1, FS_CardinalityType
  <2>3. ~ (x < y) /\ ~ (y < x)
    BY <1>3, <1>5, <2>2, RankGrows
  <2>4. QED
    BY <2>3, x \in Int, y \in Int
<1>6. QED
  BY <1>4, <1>5

\* Every number below the size of the set is the rank of a member.
LEMMA RankTaken ==
  ASSUME NEW S \in SUBSET Int, IsFiniteSet(S)
  PROVE  \A k \in 0 .. Cardinality(S) - 1 : \E x \in S : Cardinality(Below(S, x)) = k
<1> DEFINE Full(U) == \A k \in 0 .. Cardinality(U) - 1 : \E x \in U : Cardinality(Below(U, x)) = k
           B == {U \in SUBSET S : ~ Full(U)}
<1> SUFFICES ASSUME B # {} PROVE FALSE
  OBVIOUS
<1> B \subseteq SUBSET S
  OBVIOUS
<1>1. PICK U \in B : \A V \in SUBSET U : V # U => V \notin B
  <2> HIDE DEF B
  <2> QED
    BY Minimal
<1>2. PICK k \in 0 .. Cardinality(U) - 1 : ~ \E x \in U : Cardinality(Below(U, x)) = k
  OBVIOUS
<1>3. IsFiniteSet(U) /\ U \subseteq Int
  <2>1. U \in SUBSET S
    BY <1>1
  <2>2. QED
    BY <2>1, FS_Subset
<1>4. Cardinality(U) \in Nat /\ Cardinality(U) # 0
  BY <1>2, <1>3, FS_CardinalityType
<1>5. U # {}
  BY <1>4, FS_EmptySet
<1>6. Max(U) \in U /\ \A y \in U : Max(U) >= y
  BY <1>3, <1>5, MaxIs
<1> DEFINE m == Max(U)
           V == U \ {m}
<1> HIDE DEF m
<1>7. m \in U /\ \A y \in U : m >= y
  BY <1>6 DEF m
<1>8. IsFiniteSet(V) /\ Cardinality(V) = Cardinality(U) - 1
  BY <1>3, <1>7, FS_RemoveElement
<1>9. V \in SUBSET U /\ V # U
  BY <1>7
<1>10. Full(V)
  BY <1>1, <1>9
<1>11. CASE k = Cardinality(U) - 1
  <2>1. \A y \in U : y < m <=> y # m
    BY <1>3, <1>7
  <2>2. Below(U, m) = V
    BY <2>1 DEF Below
  <2>3. QED
    BY <1>2, <1>7, <1>8, <1>11, <2>2
<1>12. CASE k # Cardinality(U) - 1
  <2>1. k \in 0 .. Cardinality(V) - 1
    BY <1>2, <1>4, <1>8, <1>12
  <2>2. PICK x \in V : Cardinality(Below(V, x)) = k
    BY <1>10, <2>1
  <2>3. \A y \in U : y < x => y # m
    BY <1>3, <1>7, x \in U
  <2>4. Below(U, x) = Below(V, x)
    BY <2>3 DEF Below
  <2>5. QED
    BY <1>2, <2>2, <2>4
<1>13. QED
  BY <1>11, <1>12

-----------------------------------------------------------------------------
(* The history of games. *)

Team == UNION TeamAnswers
Record == UNION {{a[g] : g \in DOMAIN a} : a \in GameAnswers}
EventId == (Game \X Nat) \cup {Unknown}
Verdict == [eligible : BOOLEAN,
            target : {r.homePoints - r.awayPoints : r \in Record} \cup {Unknown}]

ManifestRow == [product : {"teams", "games"}, content : TeamAnswers \cup GameAnswers]
FactRow == [manifest : Nat, game : Game, home : Team \cup {Unknown}, away : Team \cup {Unknown},
            verdict : Verdict, event : EventId]

\* The tables hold what their columns may.
HistoryTyping ==
    /\ manifests \in Seq(ManifestRow)
    /\ \A n \in DOMAIN manifests : manifests[n].content \in Answers(manifests[n].product)
    /\ facts \in Seq(FactRow)
    /\ programs \subseteq Team
    /\ event \in [Game -> EventId]

\* The record a fact was made from.
RecordOf(f) == manifests[f.manifest].content[f.game]

\* A fact is of a game its manifest lists.
FactsListed ==
    \A k \in DOMAIN facts :
        /\ facts[k].manifest \in Positions("games")
        /\ facts[k].game \in DOMAIN manifests[facts[k].manifest].content

\* Facts are created in the order of the manifests.
FactsOrdered == \A j, k \in DOMAIN facts : j < k => facts[j].manifest <= facts[k].manifest

\* The games of a manifest have their facts, from the transaction of the manifest on.
FactsComplete ==
    \A n \in Positions("games") : \A g \in DOMAIN manifests[n].content :
        \E k \in DOMAIN facts : facts[k].manifest = n /\ facts[k].game = g

\* An eligible fact has the margin of its record, both programs and an event.
EligibleSound(f) ==
    f.verdict.eligible =>
        /\ f.verdict.target = RecordOf(f).homePoints - RecordOf(f).awayPoints
        /\ ProgramOf(programs, RecordOf(f).home) # Unknown
        /\ ProgramOf(programs, RecordOf(f).away) # Unknown
        /\ f.event # Unknown

FactsEligible == \A k \in DOMAIN facts : EligibleSound(facts[k])

\* The event of a fact is the event its game is mapped to.
FactsMapped ==
    \A k \in DOMAIN facts : facts[k].event # Unknown => facts[k].event = event[facts[k].game]

FactsInv ==
    HistoryTyping /\ FactsListed /\ FactsOrdered /\ FactsComplete /\ FactsEligible /\ FactsMapped

\* An answer for the games lists games of the season, finitely many.
LEMMA AnswerLists ==
  ASSUME NEW content \in GameAnswers
  PROVE  DOMAIN content \in SUBSET Int /\ IsFiniteSet(DOMAIN content)
         /\ \A g \in DOMAIN content : g \in Game /\ content[g] \in Record
BY HistoryAssumption DEF Game, Record

\* A program that is known stays known.
LEMMA KnownStays ==
  ASSUME NEW known, NEW later, known \subseteq later, NEW team, ProgramOf(known, team) # Unknown
  PROVE  ProgramOf(later, team) # Unknown
BY DEF ProgramOf

\* What a new fact says of its game.
LEMMA FactSays ==
  ASSUME HistoryTyping, NEW n \in Nat, NEW content \in GameAnswers, NEW g \in DOMAIN content,
         NEW f, f = Fact(n, g, content[g], programs, event)
  PROVE  /\ f \in FactRow
         /\ f = [manifest |-> n, game |-> g, home |-> f.home, away |-> f.away,
                 verdict |-> f.verdict, event |-> f.event]
         /\ f.verdict = GameEligibility(content[g], programs)
         /\ f.event = EventFor(g, content[g], programs, event)
         /\ f.event # Unknown => event[g] \in {Unknown, f.event}
         /\ f.verdict.eligible =>
                /\ f.verdict.target = content[g].homePoints - content[g].awayPoints
                /\ ProgramOf(programs, content[g].home) # Unknown
                /\ ProgramOf(programs, content[g].away) # Unknown
                /\ f.event # Unknown
<1> DEFINE r == content[g]
<1>1. g \in Game /\ r \in Record
  BY AnswerLists
<1>2. ProgramOf(programs, r.home) \in Team \cup {Unknown}
      /\ ProgramOf(programs, r.away) \in Team \cup {Unknown}
  BY DEF ProgramOf, HistoryTyping
<1>3. GameEligibility(r, programs) \in Verdict
  BY <1>1 DEF GameEligibility, Verdict
<1>4. Len(manifests) \in Nat
  BY DEF HistoryTyping
<1>5. <<g, Len(manifests)>> \in Game \X Nat /\ <<g, Len(manifests)>> # Unknown
  BY <1>1, <1>4, HistoryAssumption
<1>6. event[g] \in EventId
  BY <1>1 DEF HistoryTyping
<1>7. EventFor(g, r, programs, event) \in EventId
      /\ (EventFor(g, r, programs, event) # Unknown =>
            event[g] \in {Unknown, EventFor(g, r, programs, event)})
      /\ (ProgramOf(programs, r.home) # Unknown /\ ProgramOf(programs, r.away) # Unknown =>
            EventFor(g, r, programs, event) # Unknown)
  BY <1>5, <1>6 DEF EventFor, EventId
<1>8. GameEligibility(r, programs).eligible =>
        /\ GameEligibility(r, programs).target = r.homePoints - r.awayPoints
        /\ ProgramOf(programs, r.home) # Unknown
        /\ ProgramOf(programs, r.away) # Unknown
  BY DEF GameEligibility
<1> HIDE DEF r
<1>9. f = [manifest |-> n, game |-> g, home |-> ProgramOf(programs, r.home),
           away |-> ProgramOf(programs, r.away), verdict |-> GameEligibility(r, programs),
           event |-> EventFor(g, r, programs, event)]
  BY DEF Fact, r
<1>10. f \in FactRow
  BY <1>1, <1>2, <1>3, <1>7, <1>9 DEF FactRow
<1>11. f.verdict = GameEligibility(r, programs) /\ f.event = EventFor(g, r, programs, event)
  BY <1>9
<1>12. f = [manifest |-> n, game |-> g, home |-> f.home, away |-> f.away,
            verdict |-> f.verdict, event |-> f.event]
  BY <1>9
<1>13. QED
  BY <1>7, <1>8, <1>10, <1>11, <1>12 DEF r

NewGames(n, content) ==
    {g \in DOMAIN content : ~\E k \in DOMAIN facts : facts[k].manifest = n /\ facts[k].game = g}

\* Each new game gets one new fact, and there are no others.
LEMMA AddedSays ==
  ASSUME HistoryTyping, NEW n \in Nat, NEW content \in GameAnswers,
         NEW added, added = AddedFacts(n, content)
  PROVE  /\ added \in Seq(FactRow)
         /\ \A k \in DOMAIN added : \E g \in NewGames(n, content) :
                added[k] = Fact(n, g, content[g], programs, event)
         /\ \A g \in NewGames(n, content) : \E k \in DOMAIN added :
                added[k] = Fact(n, g, content[g], programs, event)
<1> DEFINE new == NewGames(n, content)
           Nth(k) == CHOOSE x \in new : Cardinality(Below(new, x)) = k - 1
<1>1. new \subseteq DOMAIN content
  BY DEF NewGames
<1>2. new \in SUBSET Int /\ IsFiniteSet(new)
  BY <1>1, AnswerLists, FS_Subset
<1>3. Cardinality(new) \in Nat
  BY <1>2, FS_CardinalityType
<1>4. added = [k \in 1 .. Cardinality(new) |-> Fact(n, Nth(k), content[Nth(k)], programs, event)]
  BY DEF AddedFacts, NewGames, Below
<1> HIDE DEF new
<1>5. ASSUME NEW k \in 1 .. Cardinality(new)
      PROVE  Nth(k) \in new
  <2>1. k - 1 \in 0 .. Cardinality(new) - 1
    BY <1>3
  <2>2. \E x \in new : Cardinality(Below(new, x)) = k - 1
    BY <1>2, <2>1, RankTaken
  <2>3. QED
    BY <2>2
<1>6. ASSUME NEW g \in new
      PROVE  \E k \in 1 .. Cardinality(new) : Nth(k) = g
  <2> DEFINE k == Cardinality(Below(new, g)) + 1
  <2>1. Cardinality(Below(new, g)) \in 0 .. Cardinality(new) - 1
    BY <1>2, RankIsOwn
  <2>2. k \in 1 .. Cardinality(new) /\ k - 1 = Cardinality(Below(new, g))
    BY <1>3, <2>1
  <2> HIDE DEF k
  <2>3. Nth(k) \in new /\ Cardinality(Below(new, Nth(k))) = k - 1
    BY <2>2
  <2>4. Nth(k) = g
    <3> DEFINE x == Nth(k)
    <3>1. x \in new /\ Cardinality(Below(new, x)) = Cardinality(Below(new, g))
      BY <2>2, <2>3
    <3> HIDE DEF x
    <3>2. x = g
      BY <1>2, <3>1, RankIsOwn
    <3>3. QED
      BY <3>2 DEF x
  <2>5. QED
    BY <2>2, <2>4
<1> HIDE DEF Nth
<1>7. ASSUME NEW k \in 1 .. Cardinality(new)
      PROVE  Fact(n, Nth(k), content[Nth(k)], programs, event) \in FactRow
  <2>1. Nth(k) \in DOMAIN content
    BY <1>1, <1>5
  <2>2. QED
    BY <2>1, FactSays
<1>8. added \in Seq(FactRow) /\ DOMAIN added = 1 .. Cardinality(new)
  BY <1>3, <1>4, <1>7
<1>9. QED
  BY <1>4, <1>5, <1>6, <1>8 DEF new

\* Existing facts keep their place, manifest and game. Those of the manifest are computed anew,
\* except that an event that is known stays.
LEMMA RefreshedSays ==
  ASSUME HistoryTyping, NEW n \in Nat, NEW content \in GameAnswers,
         NEW again, again = Refreshed(n, content)
  PROVE  /\ again \in Seq(FactRow)
         /\ DOMAIN again = DOMAIN facts
         /\ \A k \in DOMAIN facts :
                /\ again[k].manifest = facts[k].manifest /\ again[k].game = facts[k].game
                /\ ~ (facts[k].manifest = n /\ facts[k].game \in DOMAIN content)
                        => again[k] = facts[k]
                /\ facts[k].manifest = n /\ facts[k].game \in DOMAIN content
                        => LET fresh == Fact(n, facts[k].game, content[facts[k].game], programs, event)
                           IN  /\ again[k].verdict = fresh.verdict
                               /\ again[k].event = IF facts[k].event = Unknown THEN fresh.event
                                                   ELSE facts[k].event
<1> DEFINE Fresh(k) == Fact(n, facts[k].game, content[facts[k].game], programs, event)
           Mine(k) == facts[k].manifest = n /\ facts[k].game \in DOMAIN content
           EventNow(k) == IF facts[k].event = Unknown THEN Fresh(k).event ELSE facts[k].event
<1>1. \A k \in DOMAIN facts : facts[k] \in FactRow
  BY DEF HistoryTyping
<1>2. ASSUME NEW k \in DOMAIN facts, Mine(k)
      PROVE  /\ Fresh(k) \in FactRow
             /\ Fresh(k).manifest = n /\ Fresh(k).game = facts[k].game
  <2> DEFINE f == Fresh(k)
  <2>1. f \in FactRow
        /\ f = [manifest |-> n, game |-> facts[k].game, home |-> f.home, away |-> f.away,
                verdict |-> f.verdict, event |-> f.event]
    BY <1>2, FactSays
  <2> HIDE DEF f
  <2>2. f.manifest = n /\ f.game = facts[k].game
    BY <2>1
  <2>3. QED
    BY <2>1, <2>2 DEF f
<1> HIDE DEF Fresh
<1>3. again = [k \in DOMAIN facts |-> IF Mine(k) THEN [Fresh(k) EXCEPT !.event = EventNow(k)] ELSE facts[k]]
  BY DEF Refreshed, Fresh
<1>4. ASSUME NEW k \in DOMAIN facts, Mine(k)
      PROVE  /\ again[k] \in FactRow
             /\ again[k].manifest = n /\ again[k].game = facts[k].game
             /\ again[k].verdict = Fresh(k).verdict
             /\ again[k].event = EventNow(k)
  <2>1. again[k] = [Fresh(k) EXCEPT !.event = EventNow(k)]
    BY <1>3, <1>4
  <2>2. EventNow(k) \in EventId
    BY <1>1, <1>2, <1>4 DEF FactRow
  <2>3. QED
    BY <1>2, <1>4, <2>1, <2>2 DEF FactRow
<1>5. ASSUME NEW k \in DOMAIN facts, ~ Mine(k)
      PROVE  again[k] = facts[k]
  BY <1>3, <1>5
<1>6. \A k \in DOMAIN facts : again[k] \in FactRow
  BY <1>1, <1>4, <1>5
<1>7. DOMAIN again = DOMAIN facts /\ again \in Seq(FactRow)
  <2>1. Len(facts) \in Nat /\ DOMAIN facts = 1 .. Len(facts)
    BY DEF HistoryTyping
  <2>2. again = [k \in 1 .. Len(facts) |-> again[k]]
    BY <1>3, <2>1
  <2>3. QED
    BY <1>6, <2>1, <2>2
<1>8. QED
  BY <1>4, <1>5, <1>7 DEF Fresh

\* Manifest n is, after the step, the manifest of an answer for p: an earlier one, or a new one.
AnswerManifest(p, n, content) ==
    \/ manifests' = manifests /\ n \in Positions(p) /\ manifests[n].content = content
    \/ /\ n = Len(manifests) + 1
       /\ manifests' = Append(manifests, [product |-> p, content |-> content])

\* The other manifests stay, and they are earlier than a new one.
ManifestAdded(p, n, content) ==
    /\ manifests' \in Seq(ManifestRow)
    /\ n \in Nat /\ n \in DOMAIN manifests' /\ manifests'[n].content = content
    /\ manifests'[n].product = p
    /\ DOMAIN manifests \subseteq DOMAIN manifests'
    /\ \A m \in DOMAIN manifests : manifests'[m] = manifests[m]
    /\ DOMAIN manifests' = DOMAIN manifests \cup {n}
    /\ \A m \in DOMAIN manifests' : manifests'[m].content \in Answers(manifests'[m].product)
    /\ n \notin DOMAIN manifests => \A m \in DOMAIN manifests : m < n

\* An answer adds one manifest at most.
LEMMA AnswerManifestSays ==
  ASSUME HistoryTyping, NEW p \in {"teams", "games"}, NEW content \in Answers(p),
         NEW n, AnswerManifest(p, n, content)
  PROVE  ManifestAdded(p, n, content)
<1>1. CASE manifests' = manifests /\ n \in Positions(p) /\ manifests[n].content = content
  <2>1. manifests \in Seq(ManifestRow) /\ DOMAIN manifests = 1 .. Len(manifests)
    BY DEF HistoryTyping
  <2>2. n \in DOMAIN manifests /\ n \in Nat /\ manifests[n].product = p
    BY <1>1, <2>1 DEF Positions
  <2>3. QED
    BY <1>1, <2>1, <2>2 DEF HistoryTyping, ManifestAdded
<1>2. CASE /\ n = Len(manifests) + 1
           /\ manifests' = Append(manifests, [product |-> p, content |-> content])
  <2>1. [product |-> p, content |-> content] \in ManifestRow
    BY DEF ManifestRow, Answers
  <2>2. manifests \in Seq(ManifestRow) /\ Len(manifests) \in Nat
    BY DEF HistoryTyping
  <2>3. manifests' \in Seq(ManifestRow) /\ DOMAIN manifests' = 1 .. n
        /\ DOMAIN manifests = 1 .. Len(manifests)
    BY <1>2, <2>1, <2>2
  <2>4. \A m \in DOMAIN manifests : m < n /\ manifests'[m] = manifests[m]
    BY <1>2, <2>2
  <2>5. manifests'[n] = [product |-> p, content |-> content]
    BY <1>2, <2>2
  <2>6. DOMAIN manifests' = DOMAIN manifests \cup {n}
    BY <1>2, <2>2, <2>3
  <2>7. \A m \in DOMAIN manifests' : manifests'[m].content \in Answers(manifests'[m].product)
    BY <2>4, <2>5, <2>6 DEF HistoryTyping
  <2>8. QED
    BY <1>2, <2>2, <2>3, <2>4, <2>5, <2>6, <2>7 DEF ManifestAdded
<1>3. QED
  BY <1>1, <1>2 DEF AnswerManifest

\* The manifests of one product grow by one at most, those of the others not at all.
LEMMA PositionsAfter ==
  ASSUME HistoryTyping, NEW p \in {"teams", "games"}, NEW content \in Answers(p),
         NEW n, AnswerManifest(p, n, content)
  PROVE  /\ Positions(p)' = Positions(p) \cup {n}
         /\ \A q : q # p => Positions(q)' = Positions(q)
<1>1. /\ n \in DOMAIN manifests' /\ manifests'[n].product = p
      /\ DOMAIN manifests' = DOMAIN manifests \cup {n}
      /\ \A m \in DOMAIN manifests : manifests'[m] = manifests[m]
  <2>1. ManifestAdded(p, n, content)
    BY AnswerManifestSays
  <2>2. QED
    BY <2>1 DEF ManifestAdded
<1>2. QED
  BY <1>1 DEF Positions

GamesManifest(n, content) == AnswerManifest("games", n, content)

\* An answer for the games adds one manifest at most.
LEMMA GamesManifestSays ==
  ASSUME HistoryTyping, NEW n, NEW content \in GameAnswers, GamesManifest(n, content)
  PROVE  /\ manifests' \in Seq(ManifestRow)
         /\ n \in Nat /\ n \in DOMAIN manifests' /\ manifests'[n].content = content
         /\ DOMAIN manifests \subseteq DOMAIN manifests'
         /\ \A m \in DOMAIN manifests : manifests'[m] = manifests[m]
         /\ Positions("games")' = Positions("games") \cup {n}
         /\ \A m \in DOMAIN manifests' : manifests'[m].content \in Answers(manifests'[m].product)
         /\ n \notin DOMAIN manifests => \A m \in DOMAIN manifests : m < n
<1>1. content \in Answers("games")
  BY DEF Answers
<1>2. Positions("games")' = Positions("games") \cup {n}
  BY <1>1, PositionsAfter DEF GamesManifest
<1>3. QED
  BY <1>1, <1>2, AnswerManifestSays DEF GamesManifest, ManifestAdded

\* The facts after an answer for the games: the old ones brought up to date, then the new ones.
LEMMA FactsAfter ==
  ASSUME FactsInv, NEW n, NEW content \in GameAnswers, GamesManifest(n, content),
         IngestGames(n, content)
  PROVE  /\ facts' \in Seq(FactRow)
         /\ DOMAIN facts \subseteq DOMAIN facts'
         /\ \A k \in DOMAIN facts :
                /\ facts'[k].manifest = facts[k].manifest /\ facts'[k].game = facts[k].game
                /\ facts[k].manifest # n => facts'[k] = facts[k]
                /\ facts[k].manifest = n =>
                      /\ facts'[k].game \in DOMAIN content
                      /\ LET fresh == Fact(n, facts[k].game, content[facts[k].game], programs, event)
                         IN  /\ facts'[k].verdict = fresh.verdict
                             /\ facts'[k].event = IF facts[k].event = Unknown THEN fresh.event
                                                  ELSE facts[k].event
         /\ \A k \in DOMAIN facts' \ DOMAIN facts :
                /\ n \notin DOMAIN manifests
                /\ \A j \in DOMAIN facts : j < k
                /\ \E g \in DOMAIN content : facts'[k] = Fact(n, g, content[g], programs, event)
         /\ n \notin DOMAIN manifests => \A g \in DOMAIN content :
                \E k \in DOMAIN facts' : facts'[k] = Fact(n, g, content[g], programs, event)
<1> DEFINE again == Refreshed(n, content)
           added == AddedFacts(n, content)
<1>1. HistoryTyping /\ FactsListed /\ FactsComplete
  BY DEF FactsInv
<1>2. n \in Nat
  BY <1>1, GamesManifestSays
<1>3. facts' = again \o added
  BY DEF IngestGames
<1>4. /\ again \in Seq(FactRow)
      /\ DOMAIN again = DOMAIN facts
      /\ \A k \in DOMAIN facts :
             /\ again[k].manifest = facts[k].manifest /\ again[k].game = facts[k].game
             /\ ~ (facts[k].manifest = n /\ facts[k].game \in DOMAIN content)
                     => again[k] = facts[k]
             /\ facts[k].manifest = n /\ facts[k].game \in DOMAIN content
                     => LET fresh == Fact(n, facts[k].game, content[facts[k].game], programs, event)
                        IN  /\ again[k].verdict = fresh.verdict
                            /\ again[k].event = IF facts[k].event = Unknown THEN fresh.event
                                                ELSE facts[k].event
  BY <1>1, <1>2, RefreshedSays
<1>5. /\ added \in Seq(FactRow)
      /\ \A k \in DOMAIN added : \E g \in NewGames(n, content) :
             added[k] = Fact(n, g, content[g], programs, event)
      /\ \A g \in NewGames(n, content) : \E k \in DOMAIN added :
             added[k] = Fact(n, g, content[g], programs, event)
  BY <1>1, <1>2, AddedSays
<1> HIDE DEF again, added
<1>6. Len(again) \in Nat /\ Len(added) \in Nat /\ Len(again) = Len(facts)
      /\ DOMAIN again = 1 .. Len(again) /\ DOMAIN added = 1 .. Len(added)
  BY <1>1, <1>4, <1>5 DEF HistoryTyping
<1>7. facts' \in Seq(FactRow) /\ DOMAIN facts' = 1 .. Len(again) + Len(added)
  <2>1. facts' \in Seq(FactRow) /\ Len(facts') = Len(again) + Len(added)
    BY <1>3, <1>4, <1>5
  <2>2. DOMAIN facts' = 1 .. Len(facts')
    BY <2>1
  <2>3. QED
    BY <2>1, <2>2
<1>8. \A k \in DOMAIN facts : k \in DOMAIN facts' /\ facts'[k] = again[k]
  BY <1>3, <1>4, <1>6, <1>7
<1>9. ASSUME NEW k \in DOMAIN facts' \ DOMAIN facts
      PROVE  /\ \A j \in DOMAIN facts : j < k
             /\ k - Len(again) \in DOMAIN added
             /\ facts'[k] = added[k - Len(again)]
  BY <1>3, <1>4, <1>6, <1>7
<1>10. \A k \in DOMAIN facts : facts[k].manifest = n => facts[k].game \in DOMAIN content
  <2> SUFFICES ASSUME NEW k \in DOMAIN facts, facts[k].manifest = n
               PROVE  facts[k].game \in DOMAIN content
    OBVIOUS
  <2>1. n \in DOMAIN manifests /\ facts[k].game \in DOMAIN manifests[n].content
    BY <1>1 DEF FactsListed, Positions
  <2>2. manifests[n].content = content
    BY <1>1, <2>1, GamesManifestSays
  <2>3. QED
    BY <2>1, <2>2
<1>11. n \in DOMAIN manifests => NewGames(n, content) = {}
  <2> SUFFICES ASSUME n \in DOMAIN manifests, NEW g \in NewGames(n, content) PROVE FALSE
    OBVIOUS
  <2>1. n \in Positions("games") /\ manifests[n].content = content
    <3>1. manifests' = manifests /\ n \in Positions("games") /\ manifests[n].content = content
      BY <1>1, Len(manifests) \in Nat, Len(manifests) + 1 \notin 1 .. Len(manifests)
         DEF GamesManifest, AnswerManifest, HistoryTyping
    <3>2. QED
      BY <3>1
  <2>2. g \in DOMAIN content
    BY DEF NewGames
  <2>3. QED
    BY <1>1, <2>1, <2>2 DEF FactsComplete, NewGames
<1>12. n \notin DOMAIN manifests => NewGames(n, content) = DOMAIN content
  BY <1>1 DEF FactsListed, Positions, NewGames
<1>13. NewGames(n, content) \subseteq DOMAIN content
  BY DEF NewGames
<1>14. ASSUME NEW k \in DOMAIN facts' \ DOMAIN facts
       PROVE  /\ n \notin DOMAIN manifests
              /\ \E g \in DOMAIN content : facts'[k] = Fact(n, g, content[g], programs, event)
  <2>1. PICK g \in NewGames(n, content) : facts'[k] = Fact(n, g, content[g], programs, event)
    BY <1>5, <1>9
  <2>2. QED
    BY <1>11, <1>13, <2>1
<1>15. ASSUME n \notin DOMAIN manifests, NEW g \in DOMAIN content
       PROVE  \E k \in DOMAIN facts' : facts'[k] = Fact(n, g, content[g], programs, event)
  <2>1. PICK k \in DOMAIN added : added[k] = Fact(n, g, content[g], programs, event)
    BY <1>5, <1>12, <1>15
  <2>2. Len(again) + k \in DOMAIN facts' /\ facts'[Len(again) + k] = added[k]
    BY <1>3, <1>4, <1>5, <1>6, <1>7
  <2>3. QED
    BY <2>1, <2>2
<1>16. QED
  BY <1>4, <1>7, <1>8, <1>9, <1>10, <1>14, <1>15

\* An answer for the games leaves the facts in order, and those of its manifest as they would be
\* computed now (ingest_games).
LEMMA IngestKeepsFacts ==
  ASSUME FactsInv, NEW n, NEW content \in GameAnswers, GamesManifest(n, content),
         IngestGames(n, content)
  PROVE  /\ FactsInv'
         /\ \A k \in DOMAIN facts' : facts'[k].manifest = n =>
                facts'[k].verdict = GameEligibility(content[facts'[k].game], programs)
<1>1. HistoryTyping /\ FactsListed /\ FactsOrdered /\ FactsComplete /\ FactsEligible /\ FactsMapped
  BY DEF FactsInv
<1>2. /\ manifests' \in Seq(ManifestRow)
      /\ n \in Nat /\ n \in DOMAIN manifests' /\ manifests'[n].content = content
      /\ DOMAIN manifests \subseteq DOMAIN manifests'
      /\ \A m \in DOMAIN manifests : manifests'[m] = manifests[m]
      /\ Positions("games")' = Positions("games") \cup {n}
      /\ \A m \in DOMAIN manifests' : manifests'[m].content \in Answers(manifests'[m].product)
      /\ n \notin DOMAIN manifests => \A m \in DOMAIN manifests : m < n
  BY <1>1, GamesManifestSays
<1>3. /\ facts' \in Seq(FactRow)
      /\ DOMAIN facts \subseteq DOMAIN facts'
      /\ \A k \in DOMAIN facts :
             /\ facts'[k].manifest = facts[k].manifest /\ facts'[k].game = facts[k].game
             /\ facts[k].manifest # n => facts'[k] = facts[k]
             /\ facts[k].manifest = n =>
                   /\ facts'[k].game \in DOMAIN content
                   /\ LET fresh == Fact(n, facts[k].game, content[facts[k].game], programs, event)
                      IN  /\ facts'[k].verdict = fresh.verdict
                          /\ facts'[k].event = IF facts[k].event = Unknown THEN fresh.event
                                               ELSE facts[k].event
      /\ \A k \in DOMAIN facts' \ DOMAIN facts :
             /\ n \notin DOMAIN manifests
             /\ \A j \in DOMAIN facts : j < k
             /\ \E g \in DOMAIN content : facts'[k] = Fact(n, g, content[g], programs, event)
      /\ n \notin DOMAIN manifests => \A g \in DOMAIN content :
             \E k \in DOMAIN facts' : facts'[k] = Fact(n, g, content[g], programs, event)
  BY FactsAfter
<1>4. programs' = programs
      /\ event' = [g \in Game |-> IF g \in DOMAIN content
                                  THEN EventFor(g, content[g], programs, event) ELSE event[g]]
  BY DEF IngestGames
<1> DEFINE F(g) == Fact(n, g, content[g], programs, event)
<1>5. ASSUME NEW g \in DOMAIN content
      PROVE  /\ F(g) \in FactRow
             /\ F(g).manifest = n /\ F(g).game = g
             /\ F(g).verdict = GameEligibility(content[g], programs)
             /\ F(g).event = EventFor(g, content[g], programs, event)
             /\ F(g).event # Unknown => event[g] \in {Unknown, F(g).event}
             /\ F(g).verdict.eligible =>
                    /\ F(g).verdict.target = content[g].homePoints - content[g].awayPoints
                    /\ ProgramOf(programs, content[g].home) # Unknown
                    /\ ProgramOf(programs, content[g].away) # Unknown
                    /\ F(g).event # Unknown
  <2> DEFINE f == F(g)
  <2>1. /\ f \in FactRow
        /\ f = [manifest |-> n, game |-> g, home |-> f.home, away |-> f.away,
                verdict |-> f.verdict, event |-> f.event]
        /\ f.verdict = GameEligibility(content[g], programs)
        /\ f.event = EventFor(g, content[g], programs, event)
        /\ f.event # Unknown => event[g] \in {Unknown, f.event}
        /\ f.verdict.eligible =>
               /\ f.verdict.target = content[g].homePoints - content[g].awayPoints
               /\ ProgramOf(programs, content[g].home) # Unknown
               /\ ProgramOf(programs, content[g].away) # Unknown
               /\ f.event # Unknown
    BY <1>1, <1>2, FactSays
  <2> HIDE DEF f
  <2>2. f.manifest = n /\ f.game = g
    BY <2>1
  <2>3. QED
    BY <2>1, <2>2 DEF f
<1> HIDE DEF F
<1>6. \A g \in DOMAIN content : g \in Game
  BY AnswerLists
<1>7. \A k \in DOMAIN facts : facts[k] \in FactRow /\ facts[k].manifest \in DOMAIN manifests
                              /\ facts[k].game \in Game
  <2> TAKE k \in DOMAIN facts
  <2>1. facts[k] \in FactRow
    BY <1>1 DEF HistoryTyping
  <2>2. facts[k].manifest \in DOMAIN manifests
    BY <1>1 DEF FactsListed, Positions
  <2>3. QED
    BY <2>1, <2>2 DEF FactRow
<1>8. ASSUME NEW k \in DOMAIN facts', facts'[k].manifest = n
      PROVE  /\ facts'[k].game \in DOMAIN content
             /\ facts'[k].verdict = F(facts'[k].game).verdict
             /\ facts'[k].event = F(facts'[k].game).event
  <2>1. CASE k \in DOMAIN facts
    <3> DEFINE g == facts[k].game
    <3>1. facts[k].manifest = n /\ facts'[k].game = g
      BY <1>3, <1>8, <2>1
    <3>2. g \in DOMAIN content
      BY <1>3, <2>1, <3>1
    <3>3. facts'[k].verdict = F(g).verdict
          /\ facts'[k].event = IF facts[k].event = Unknown THEN F(g).event ELSE facts[k].event
      BY <1>3, <2>1, <3>1 DEF F
    <3>4. facts[k].event # Unknown => facts[k].event = event[g]
      BY <1>1, <2>1 DEF FactsMapped
    <3>5. facts[k].event # Unknown => F(g).event = facts[k].event
      BY <1>5, <3>2, <3>4 DEF EventFor
    <3>6. QED
      BY <3>1, <3>2, <3>3, <3>5
  <2>2. CASE k \notin DOMAIN facts
    <3>1. PICK g \in DOMAIN content : facts'[k] = F(g)
      BY <1>3, <2>2 DEF F
    <3>2. QED
      BY <1>5, <3>1
  <2>3. QED
    BY <2>1, <2>2
<1>9. ASSUME NEW k \in DOMAIN facts', facts'[k].manifest # n
      PROVE  k \in DOMAIN facts /\ facts'[k] = facts[k]
  <2>1. k \in DOMAIN facts
    BY <1>3, <1>5, <1>9 DEF F
  <2>2. QED
    BY <1>3, <1>9, <2>1
<1>10. HistoryTyping'
  <2>1. \A g \in Game : event'[g] \in EventId
    BY <1>1, <1>4, <1>5 DEF HistoryTyping, FactRow
  <2>2. event' \in [Game -> EventId]
    BY <1>4, <2>1
  <2>3. programs' \subseteq Team
    BY <1>1, <1>4 DEF HistoryTyping
  <2>4. QED
    BY <1>2, <1>3, <2>2, <2>3 DEF HistoryTyping
<1>11. FactsListed'
  <2> SUFFICES ASSUME NEW k \in DOMAIN facts'
               PROVE  /\ facts'[k].manifest \in Positions("games")'
                      /\ facts'[k].game \in DOMAIN manifests'[facts'[k].manifest].content
    BY DEF FactsListed
  <2>1. CASE facts'[k].manifest = n
    BY <1>2, <1>8, <2>1
  <2>2. CASE facts'[k].manifest # n
    BY <1>1, <1>2, <1>7, <1>9, <2>2 DEF FactsListed
  <2>3. QED
    BY <2>1, <2>2
<1>12. FactsOrdered'
  <2> SUFFICES ASSUME NEW j \in DOMAIN facts', NEW k \in DOMAIN facts', j < k
               PROVE  facts'[j].manifest <= facts'[k].manifest
    BY DEF FactsOrdered
  <2>1. CASE k \in DOMAIN facts
    <3>1. j \in DOMAIN facts
      <4>1. DOMAIN facts = 1 .. Len(facts) /\ Len(facts) \in Nat
            /\ DOMAIN facts' = 1 .. Len(facts') /\ Len(facts') \in Nat
        BY <1>1, <1>3 DEF HistoryTyping
      <4>2. QED
        BY <2>1, <4>1
    <3>2. QED
      BY <1>1, <1>3, <2>1, <3>1 DEF FactsOrdered
  <2>2. CASE k \notin DOMAIN facts
    <3>1. n \notin DOMAIN manifests /\ facts'[k].manifest = n
      BY <1>3, <1>5, <2>2 DEF F
    <3>2. facts'[j].manifest = n \/ facts'[j].manifest \in DOMAIN manifests
      BY <1>7, <1>9
    <3>3. QED
      BY <1>2, <3>1, <3>2, DOMAIN manifests \subseteq Nat DEF HistoryTyping
  <2>3. QED
    BY <2>1, <2>2
<1>13. FactsComplete'
  <2> SUFFICES ASSUME NEW m \in Positions("games")', NEW g \in DOMAIN manifests'[m].content
               PROVE  \E k \in DOMAIN facts' : facts'[k].manifest = m /\ facts'[k].game = g
    BY DEF FactsComplete
  <2>1. CASE m \in Positions("games")
    <3>1. m \in DOMAIN manifests /\ g \in DOMAIN manifests[m].content
      BY <1>2, <2>1 DEF Positions
    <3>2. PICK k \in DOMAIN facts : facts[k].manifest = m /\ facts[k].game = g
      BY <1>1, <2>1, <3>1 DEF FactsComplete
    <3>3. QED
      BY <1>3, <3>2
  <2>2. CASE m \notin Positions("games")
    <3>1. m = n /\ g \in DOMAIN content
      BY <1>2, <2>2
    <3>2. n \notin DOMAIN manifests
      <4> SUFFICES ASSUME n \in DOMAIN manifests PROVE FALSE
        OBVIOUS
      <4>1. manifests[n].product = "games"
        BY <1>2 DEF Positions
      <4>2. QED
        BY <2>2, <3>1, <4>1 DEF Positions
    <3>3. PICK k \in DOMAIN facts' : facts'[k] = F(g)
      BY <1>3, <3>1, <3>2 DEF F
    <3>4. QED
      BY <1>5, <3>1, <3>3
  <2>3. QED
    BY <2>1, <2>2
<1>14. FactsEligible'
  <2> SUFFICES ASSUME NEW k \in DOMAIN facts' PROVE EligibleSound(facts[k])'
    BY DEF FactsEligible
  <2>1. CASE facts'[k].manifest = n
    <3> DEFINE g == facts'[k].game
    <3>1. g \in DOMAIN content /\ facts'[k].verdict = F(g).verdict /\ facts'[k].event = F(g).event
      BY <1>8, <2>1
    <3>2. RecordOf(facts[k])' = content[g]
      BY <1>2, <2>1 DEF RecordOf
    <3> HIDE DEF g
    <3>3. QED
      BY <1>4, <1>5, <3>1, <3>2 DEF EligibleSound
  <2>2. CASE facts'[k].manifest # n
    <3>1. k \in DOMAIN facts /\ facts'[k] = facts[k]
      BY <1>9, <2>2
    <3>2. EligibleSound(facts[k])
      BY <1>1, <3>1 DEF FactsEligible
    <3>3. RecordOf(facts[k])' = RecordOf(facts[k])
      BY <1>2, <1>7, <3>1 DEF RecordOf
    <3>4. QED
      BY <1>4, <3>1, <3>2, <3>3 DEF EligibleSound
  <2>3. QED
    BY <2>1, <2>2
<1>15. FactsMapped'
  <2> SUFFICES ASSUME NEW k \in DOMAIN facts', facts'[k].event # Unknown
               PROVE  facts'[k].event = event'[facts'[k].game]
    BY DEF FactsMapped
  <2>1. CASE facts'[k].manifest = n
    BY <1>4, <1>5, <1>6, <1>8, <2>1
  <2>2. CASE facts'[k].manifest # n
    <3> DEFINE g == facts[k].game
    <3>1. k \in DOMAIN facts /\ facts'[k] = facts[k] /\ g \in Game
      BY <1>7, <1>9, <2>2
    <3>2. facts[k].event = event[g] /\ event[g] # Unknown
      BY <1>1, <3>1 DEF FactsMapped
    <3>3. event'[g] = event[g]
      BY <1>4, <3>1, <3>2 DEF EventFor
    <3>4. QED
      BY <3>1, <3>2, <3>3
  <2>3. QED
    BY <2>1, <2>2
<1>16. ASSUME NEW k \in DOMAIN facts', facts'[k].manifest = n
       PROVE  facts'[k].verdict = GameEligibility(content[facts'[k].game], programs)
  BY <1>5, <1>8, <1>16
<1>17. QED
  BY <1>10, <1>11, <1>12, <1>13, <1>14, <1>15, <1>16 DEF FactsInv

\* An answer for the teams adds programs and no facts (_upsert_program).
LEMMA TeamsKeepFacts ==
  ASSUME FactsInv, NEW n, NEW content \in TeamAnswers, AnswerManifest("teams", n, content),
         UpsertPrograms(content)
  PROVE  FactsInv'
<1>1. HistoryTyping /\ FactsListed /\ FactsOrdered /\ FactsComplete /\ FactsEligible /\ FactsMapped
  BY DEF FactsInv
<1>2. content \in Answers("teams")
  BY DEF Answers
<1>3. /\ manifests' \in Seq(ManifestRow)
      /\ \A m \in DOMAIN manifests : manifests'[m] = manifests[m]
      /\ \A m \in DOMAIN manifests' : manifests'[m].content \in Answers(manifests'[m].product)
  BY <1>1, <1>2, AnswerManifestSays DEF ManifestAdded
<1>4. Positions("games")' = Positions("games") /\ Positions("games") \subseteq DOMAIN manifests
  BY <1>1, <1>2, PositionsAfter DEF Positions
<1>5. facts' = facts /\ event' = event /\ programs' = programs \cup content
  BY DEF UpsertPrograms
<1>6. HistoryTyping'
  BY <1>1, <1>3, <1>5 DEF HistoryTyping, Team
<1>7. FactsListed' /\ FactsOrdered' /\ FactsComplete' /\ FactsMapped'
  <2>1. FactsListed'
    BY <1>1, <1>3, <1>4, <1>5 DEF FactsListed
  <2>2. FactsComplete'
    BY <1>1, <1>3, <1>4, <1>5 DEF FactsComplete
  <2>3. FactsOrdered' /\ FactsMapped'
    BY <1>1, <1>5 DEF FactsOrdered, FactsMapped
  <2>4. QED
    BY <2>1, <2>2, <2>3
<1>8. FactsEligible'
  <2> SUFFICES ASSUME NEW k \in DOMAIN facts, facts[k].verdict.eligible
               PROVE  EligibleSound(facts[k])'
    BY <1>5 DEF FactsEligible, EligibleSound
  <2>1. EligibleSound(facts[k])
    BY <1>1 DEF FactsEligible
  <2>2. RecordOf(facts[k])' = RecordOf(facts[k])
    BY <1>1, <1>3, <1>4, <1>5 DEF RecordOf, FactsListed
  <2>3. programs \subseteq programs'
    BY <1>5
  <2>4. QED
    BY <1>5, <2>1, <2>2, <2>3, KnownStays DEF EligibleSound
<1>9. QED
  BY <1>6, <1>7, <1>8 DEF FactsInv

\* The facts rest on five variables.
LEMMA FactsStay ==
  ASSUME FactsInv, UNCHANGED <<manifests, programs, event, facts>>
  PROVE  FactsInv'
<1>1. Positions("games")' = Positions("games")
  BY DEF Positions
<1>2. \A k \in DOMAIN facts : RecordOf(facts[k])' = RecordOf(facts[k])
  BY DEF RecordOf
<1>3. QED
  BY <1>1, <1>2 DEF FactsInv, HistoryTyping, FactsListed, FactsOrdered, FactsComplete,
                    FactsEligible, EligibleSound, FactsMapped

-----------------------------------------------------------------------------
(* The command. *)

RunRow == [pc : {"asking", "answered", "stored"}, todo : {Products, <<"games">>},
           refresh : BOOLEAN, got : SUBSET Nat, content : TeamAnswers \cup GameAnswers \cup {Unknown}]

\* A run has the manifests of the products it is past, and their files; an answer it has
\* stored has its file.
InRun ==
    /\ ingestion \in RunRow
    /\ returned = {}
    /\ ingestion.todo = Products => ingestion.got = {}
    /\ ingestion.got \subseteq Positions("teams")
    /\ \A n \in ingestion.got : Readable(n)
    /\ ingestion.pc \in {"answered", "stored"} => ingestion.content \in Answers(Head(ingestion.todo))
    /\ ingestion.pc = "stored" => <<Head(ingestion.todo), ingestion.content>> \in archive

\* Between runs, the last complete one has left its answers and the facts of today.
Healed ==
    \A n \in returned : \A k \in DOMAIN facts :
        facts[k].manifest = n =>
            facts[k].verdict = GameEligibility(manifests[n].content[facts[k].game], programs)

Resting ==
    /\ ingestion = AtRest
    /\ returned \subseteq DOMAIN manifests
    /\ AnswersReadable
    /\ Healed

HistoryInv == FactsInv /\ (Resting \/ InRun) /\ RowsTellOneStory

\* The two products, in their order.
LEMMA ProductOrder ==
    /\ Head(Products) = "teams" /\ Tail(Products) = <<"games">>
    /\ Head(<<"games">>) = "games" /\ Tail(<<"games">>) = <<>>
    /\ Products # <<"games">> /\ <<"games">> # <<>>
BY DEF Products

\* An answer is normalised and the run goes on, or ends (ingest).
LEMMA AnswerKeepsHistory ==
  ASSUME HistoryInv, InRun, NEW p, p = Head(ingestion.todo), NEW content \in Answers(p), NEW n,
         AnswerManifest(p, n, content), Normalize(n, p, content), Proceed(n),
         <<p, content>> \in archive, UNCHANGED <<archive, rowsBuilt>>
  PROVE  HistoryInv'
<1>1. FactsInv /\ HistoryTyping /\ FactsListed
  BY DEF HistoryInv, FactsInv
<1>2. /\ ingestion \in RunRow
      /\ returned = {}
      /\ ingestion.todo \in {Products, <<"games">>}
      /\ ingestion.todo = Products => ingestion.got = {}
      /\ ingestion.got \subseteq Positions("teams")
      /\ \A m \in ingestion.got : Readable(m)
  BY DEF InRun, RunRow
<1>3. p \in {"teams", "games"}
  BY <1>2, ProductOrder
<1>4. /\ n \in Nat /\ n \in DOMAIN manifests' /\ manifests'[n].content = content
      /\ manifests'[n].product = p
      /\ DOMAIN manifests \subseteq DOMAIN manifests'
      /\ \A m \in DOMAIN manifests : manifests'[m] = manifests[m]
  <2>1. ManifestAdded(p, n, content)
    BY <1>1, <1>3, AnswerManifestSays
  <2>2. QED
    BY <2>1 DEF ManifestAdded
<1>5. Positions("teams")' = IF p = "teams" THEN Positions("teams") \cup {n} ELSE Positions("teams")
  BY <1>1, <1>3, PositionsAfter
<1>6. Readable(n)' /\ \A m \in ingestion.got : Readable(m)'
  <2>1. \A m \in ingestion.got : m \in DOMAIN manifests
    BY <1>2 DEF Positions
  <2>2. QED
    BY <1>2, <1>4, <2>1 DEF Readable
<1>7. RowsTellOneStory'
  BY DEF HistoryInv, RowsTellOneStory
<1>8. CASE p = "teams"
  <2>1. ingestion.todo = Products /\ ingestion.got = {}
    BY <1>2, <1>8, ProductOrder
  <2>2. ingestion' = [ingestion EXCEPT !.pc = "asking", !.todo = <<"games">>, !.got = {n},
                                       !.content = Unknown]
        /\ returned' = {}
    BY <1>2, <2>1, ProductOrder DEF Proceed
  <2>3. ingestion' \in RunRow /\ ingestion'.pc = "asking" /\ ingestion'.todo = <<"games">>
        /\ ingestion'.got = {n}
    BY <1>2, <1>4, <2>2 DEF RunRow
  <2>4. InRun'
    BY <1>5, <1>6, <1>8, <2>2, <2>3, ProductOrder DEF InRun
  <2>5. FactsInv'
    <3>1. content \in TeamAnswers
      BY <1>8 DEF Answers
    <3>2. UpsertPrograms(content)
      BY <1>8 DEF Normalize
    <3>3. QED
      BY <1>1, <1>8, <3>1, <3>2, TeamsKeepFacts
  <2>6. QED
    BY <1>7, <2>4, <2>5 DEF HistoryInv
<1>9. CASE p = "games"
  <2>1. ingestion.todo = <<"games">>
    BY <1>2, <1>9, ProductOrder
  <2>2. ingestion' = AtRest /\ returned' = ingestion.got \cup {n}
    BY <2>1, ProductOrder DEF Proceed
  <2>3. content \in GameAnswers
    BY <1>9 DEF Answers
  <2>4. IngestGames(n, content)
    BY <1>9 DEF Normalize
  <2>5. GamesManifest(n, content)
    BY <1>9 DEF GamesManifest
  <2>6. FactsInv' /\ \A k \in DOMAIN facts' : facts'[k].manifest = n =>
                        facts'[k].verdict = GameEligibility(content[facts'[k].game], programs)
    BY <1>1, <2>3, <2>4, <2>5, IngestKeepsFacts
  <2>7. programs' = programs
    BY <2>4 DEF IngestGames
  <2>8. \A k \in DOMAIN facts' : facts'[k].manifest \in Positions("games")'
    BY <2>6 DEF FactsInv, FactsListed
  <2>9. returned' \subseteq DOMAIN manifests'
    BY <1>2, <1>4, <2>2 DEF Positions
  <2>10. AnswersReadable'
    BY <1>6, <2>2 DEF AnswersReadable
  <2>11. Healed'
    <3> SUFFICES ASSUME NEW m \in returned', NEW k \in DOMAIN facts', facts'[k].manifest = m
                 PROVE  facts'[k].verdict =
                            GameEligibility(manifests'[m].content[facts'[k].game], programs')
      BY DEF Healed
    <3>1. m = n
      <4> SUFFICES ASSUME m \in ingestion.got PROVE FALSE
        BY <2>2
      <4>1. m \in DOMAIN manifests /\ manifests[m].product = "teams"
        BY <1>2 DEF Positions
      <4>2. manifests'[m].product = "teams"
        BY <1>4, <4>1
      <4>3. manifests'[m].product = "games"
        BY <2>8 DEF Positions
      <4>4. QED
        BY <4>2, <4>3
    <3>2. QED
      BY <1>4, <2>6, <2>7, <3>1
  <2>12. Resting'
    BY <2>2, <2>9, <2>10, <2>11 DEF Resting, AtRest
  <2>13. QED
    BY <1>7, <2>6, <2>12 DEF HistoryInv
<1>10. QED
  BY <1>3, <1>8, <1>9

-----------------------------------------------------------------------------
(* The build. *)

\* The newest fact of a game is the fact of the newest file that lists it (_latest_game_facts).
LEMMA NewestFact ==
  ASSUME FactsInv, NEW n, HasManifest("games"), n = LatestManifest("games"),
         NEW g \in DOMAIN manifests[n].content
  PROVE  /\ LatestFact(g) \in DOMAIN facts /\ LatestFact(g) # Unknown
         /\ facts[LatestFact(g)].manifest = n /\ facts[LatestFact(g)].game = g
<1> DEFINE mine == {k \in DOMAIN facts : facts[k].game = g}
           k1 == Max(mine)
<1>1. HistoryTyping /\ FactsListed /\ FactsOrdered /\ FactsComplete
  BY DEF FactsInv
<1>2. /\ Positions("games") \in SUBSET Int /\ IsFiniteSet(Positions("games"))
      /\ Positions("games") # {}
  <2>1. DOMAIN manifests = 1 .. Len(manifests) /\ Len(manifests) \in Nat
    BY <1>1 DEF HistoryTyping
  <2>2. IsFiniteSet(1 .. Len(manifests))
    BY <2>1, FS_Interval
  <2>3. Positions("games") \subseteq 1 .. Len(manifests)
    BY <2>1 DEF Positions
  <2>4. QED
    BY <2>1, <2>2, <2>3, FS_Subset DEF HasManifest
<1>3. n \in Positions("games") /\ \A m \in Positions("games") : n >= m
  BY <1>2, MaxIs DEF LatestManifest
<1>4. PICK k0 \in DOMAIN facts : facts[k0].manifest = n /\ facts[k0].game = g
  BY <1>1, <1>3 DEF FactsComplete
<1>5. mine \in SUBSET Int /\ IsFiniteSet(mine) /\ k0 \in mine
  <2>1. DOMAIN facts = 1 .. Len(facts) /\ Len(facts) \in Nat
    BY <1>1 DEF HistoryTyping
  <2>2. IsFiniteSet(1 .. Len(facts))
    BY <2>1, FS_Interval
  <2>3. QED
    BY <1>4, <2>1, <2>2, FS_Subset
<1>6. k1 \in mine /\ \A k \in mine : k1 >= k
  <2> HIDE DEF mine
  <2>1. QED
    BY <1>5, MaxIs
<1>7. LatestFact(g) = k1
  BY <1>5 DEF LatestFact
<1> HIDE DEF k1
<1>8. k1 \in DOMAIN facts /\ facts[k1].game = g
  BY <1>6
<1>9. facts[k1].manifest \in Positions("games")
  BY <1>1, <1>8 DEF FactsListed
<1>10. n <= facts[k1].manifest
  <2>1. k1 >= k0 /\ k1 \in Int /\ k0 \in Int
    BY <1>5, <1>6
  <2>2. CASE k0 < k1
    BY <1>1, <1>4, <1>8, <2>2 DEF FactsOrdered
  <2>3. CASE k0 = k1
    BY <1>2, <1>3, <1>4, <2>3
  <2>4. QED
    BY <2>1, <2>2, <2>3
<1>11. facts[k1].manifest = n
  BY <1>2, <1>3, <1>9, <1>10
<1>12. k1 # Unknown
  <2>1. k1 \in Int
    BY <1>5, <1>6
  <2>2. QED
    BY <2>1, HistoryAssumption
<1>13. QED
  BY <1>7, <1>8, <1>11, <1>12

\* A build makes rows of one story.
LEMMA BuildTellsOneStory ==
  ASSUME HistoryInv, BuildCorpus
  PROVE  HistoryInv'
<1>1. FactsInv /\ HasManifest("games") /\ Resting
  BY DEF HistoryInv, BuildCorpus, InRun, RunRow
<1>2. UNCHANGED <<manifests, archive, programs, event, facts, ingestion, returned>>
  BY DEF BuildCorpus
<1> DEFINE n == LatestManifest("games")
           r(g) == manifests[n].content[g]
<1>3. rowsBuilt'.rows \subseteq {GameRow(g, r(g)) : g \in DOMAIN manifests[n].content}
  BY DEF BuildCorpus
<1>4. ASSUME NEW g \in DOMAIN manifests[n].content, GameRow(g, r(g)).verdict.eligible
      PROVE  /\ GameRow(g, r(g)).verdict.target = r(g).homePoints - r(g).awayPoints
             /\ GameRow(g, r(g)).record = r(g)
             /\ GameRow(g, r(g)).home # Unknown /\ GameRow(g, r(g)).away # Unknown
             /\ GameRow(g, r(g)).event # Unknown
  <2> DEFINE k == LatestFact(g)
  <2>1. k \in DOMAIN facts /\ k # Unknown /\ facts[k].manifest = n /\ facts[k].game = g
    BY <1>1, <1>4, NewestFact
  <2>2. RecordOf(facts[k]) = r(g)
    BY <2>1 DEF RecordOf
  <2>3. EligibleSound(facts[k])
    BY <1>1, <2>1 DEF FactsInv, FactsEligible
  <2> HIDE DEF k, r, n
  <2>4. GameRow(g, r(g)) = [game |-> g, record |-> r(g),
             home |-> ProgramOf(programs, r(g).home), away |-> ProgramOf(programs, r(g).away),
             event |-> facts[k].event, verdict |-> facts[k].verdict]
    BY <2>1 DEF GameRow, k
  <2>5. QED
    BY <1>4, <2>2, <2>3, <2>4 DEF EligibleSound
<1> HIDE DEF r, n
<1>5. RowsTellOneStory'
  <2> SUFFICES ASSUME NEW row \in rowsBuilt'.rows, row.verdict.eligible
               PROVE  /\ row.verdict.target = row.record.homePoints - row.record.awayPoints
                      /\ row.home # Unknown /\ row.away # Unknown
                      /\ row.event # Unknown
    BY DEF RowsTellOneStory
  <2>1. PICK g \in DOMAIN manifests[n].content : row = GameRow(g, r(g))
    BY <1>3
  <2>2. QED
    BY <1>4, <2>1
<1>6. FactsInv'
  BY <1>1, <1>2, FactsStay
<1>7. Resting'
  BY <1>1, <1>2 DEF Resting, AnswersReadable, Healed, Readable
<1>8. QED
  BY <1>5, <1>6, <1>7 DEF HistoryInv

-----------------------------------------------------------------------------
(* Every step. *)

\* A run that starts, asks, stores an answer or stops disturbs no fact.
LEMMA RunKeepsHistory ==
  ASSUME HistoryInv, StartIngestion \/ AskProvider \/ StoreAnswer \/ StopIngestion
  PROVE  HistoryInv'
<1>1. FactsInv /\ RowsTellOneStory /\ HistoryTyping
  BY DEF HistoryInv, FactsInv
<1>2. UNCHANGED <<manifests, programs, event, facts, rowsBuilt>>
  BY DEF StartIngestion, AskProvider, StoreAnswer, StopIngestion
<1>3. FactsInv' /\ RowsTellOneStory'
  BY <1>1, <1>2, FactsStay DEF RowsTellOneStory
<1>4. ingestion.pc # "idle" => InRun
  BY DEF HistoryInv, Resting, AtRest
<1>5. Positions("teams")' = Positions("teams")
  BY <1>2 DEF Positions
<1>6. archive \subseteq archive' => \A n \in Positions("teams") : Readable(n) => Readable(n)'
  BY <1>2 DEF Readable
<1>7. CASE StartIngestion
  <2>1. PICK refresh \in BOOLEAN :
            ingestion' = [pc |-> "asking", todo |-> Products, refresh |-> refresh, got |-> {},
                          content |-> Unknown]
    BY <1>7 DEF StartIngestion
  <2>2. ingestion' \in RunRow
    BY <2>1 DEF RunRow
  <2>3. InRun'
    BY <1>7, <2>1, <2>2 DEF InRun, StartIngestion
  <2>4. QED
    BY <1>3, <2>3 DEF HistoryInv
<1>8. CASE AskProvider
  <2>1. InRun /\ ingestion.pc = "asking"
    BY <1>4, <1>8 DEF AskProvider
  <2>2. PICK content \in Answers(Head(ingestion.todo)) :
            ingestion' = [ingestion EXCEPT !.pc = "answered", !.content = content]
    BY <1>8 DEF AskProvider
  <2>3. content \in TeamAnswers \cup GameAnswers
    BY <2>2 DEF Answers
  <2>4. ingestion' \in RunRow /\ ingestion'.todo = ingestion.todo /\ ingestion'.got = ingestion.got
        /\ ingestion'.pc = "answered" /\ ingestion'.content = content
    BY <2>1, <2>2, <2>3 DEF RunRow, InRun
  <2>5. UNCHANGED <<archive, returned>>
    BY <1>8 DEF AskProvider
  <2>6. InRun'
    BY <1>5, <1>6, <2>1, <2>2, <2>4, <2>5 DEF InRun
  <2>7. QED
    BY <1>3, <2>6 DEF HistoryInv
<1>9. CASE StoreAnswer
  <2>1. InRun /\ ingestion.pc = "answered"
    BY <1>4, <1>9 DEF StoreAnswer
  <2>2. ingestion' \in RunRow /\ ingestion'.todo = ingestion.todo /\ ingestion'.got = ingestion.got
        /\ ingestion'.pc = "stored" /\ ingestion'.content = ingestion.content
    BY <1>9, <2>1 DEF RunRow, InRun, StoreAnswer
  <2>3. archive \subseteq archive' /\ <<Head(ingestion.todo), ingestion.content>> \in archive'
        /\ UNCHANGED returned
    BY <1>9 DEF StoreAnswer, Kept
  <2>4. InRun'
    BY <1>5, <1>6, <2>1, <2>2, <2>3 DEF InRun
  <2>5. QED
    BY <1>3, <2>4 DEF HistoryInv
<1>10. CASE StopIngestion
  <2>1. InRun /\ ingestion' = AtRest /\ returned' = returned
    BY <1>4, <1>10 DEF StopIngestion
  <2>2. returned' = {}
    BY <2>1 DEF InRun
  <2>3. Resting'
    BY <2>1, <2>2 DEF Resting, AnswersReadable, Healed
  <2>4. QED
    BY <1>3, <2>3 DEF HistoryInv
<1>11. QED
  BY <1>7, <1>8, <1>9, <1>10

\* An answer out of the files.
LEMMA FromFileKeepsHistory ==
  ASSUME HistoryInv, AnswerFromFile
  PROVE  HistoryInv'
<1> DEFINE p == Head(ingestion.todo)
           n == LatestManifest(p)
<1>1. InRun /\ HistoryTyping
  BY DEF HistoryInv, FactsInv, Resting, AtRest, AnswerFromFile
<1>2. HasManifest(p) /\ Readable(n)
  BY DEF AnswerFromFile, FromFile
<1>3. Normalize(n, p, manifests[n].content) /\ Proceed(n)
      /\ UNCHANGED <<manifests, archive, rowsBuilt>>
  BY DEF AnswerFromFile
<1>4. n \in Positions(p)
  <2>1. DOMAIN manifests = 1 .. Len(manifests) /\ Len(manifests) \in Nat
    BY <1>1 DEF HistoryTyping
  <2>2. IsFiniteSet(1 .. Len(manifests))
    BY <2>1, FS_Interval
  <2>3. Positions(p) \subseteq 1 .. Len(manifests)
    BY <2>1 DEF Positions
  <2>4. Positions(p) \in SUBSET Int /\ IsFiniteSet(Positions(p)) /\ Positions(p) # {}
    BY <1>2, <2>1, <2>2, <2>3, FS_Subset DEF HasManifest
  <2>5. QED
    BY <2>4, MaxIs DEF LatestManifest
<1>5. manifests[n].product = p /\ n \in DOMAIN manifests
  BY <1>4 DEF Positions
<1>6. manifests[n].content \in Answers(p)
  BY <1>1, <1>5 DEF HistoryTyping
<1>7. AnswerManifest(p, n, manifests[n].content)
  BY <1>3, <1>4 DEF AnswerManifest
<1>8. <<p, manifests[n].content>> \in archive
  BY <1>2, <1>5 DEF Readable
<1> HIDE DEF p, n
<1>9. QED
  BY <1>1, <1>3, <1>6, <1>7, <1>8, AnswerKeepsHistory DEF p

\* An answer of the provider.
LEMMA CommitKeepsHistory ==
  ASSUME HistoryInv, CommitAnswer
  PROVE  HistoryInv'
<1> DEFINE p == Head(ingestion.todo)
           content == ingestion.content
           same == SameManifest(p, content)
           n == IF same # {} THEN Max(same) ELSE Len(manifests) + 1
<1>1. InRun /\ HistoryTyping /\ ingestion.pc = "stored"
  BY DEF HistoryInv, FactsInv, Resting, AtRest, CommitAnswer
<1>2. content \in Answers(p) /\ <<p, content>> \in archive
  BY <1>1 DEF InRun
<1>3. /\ manifests' = IF same # {} THEN manifests
                      ELSE Append(manifests, [product |-> p, content |-> content])
      /\ Normalize(n, p, content) /\ Proceed(n)
      /\ UNCHANGED <<archive, rowsBuilt>>
  BY DEF CommitAnswer
<1>4. same # {} => n \in Positions(p) /\ manifests[n].content = content
  <2>1. DOMAIN manifests = 1 .. Len(manifests) /\ Len(manifests) \in Nat
    BY <1>1 DEF HistoryTyping
  <2>2. IsFiniteSet(1 .. Len(manifests))
    BY <2>1, FS_Interval
  <2>3. same \subseteq 1 .. Len(manifests)
    BY <2>1 DEF SameManifest, Positions
  <2>4. same \in SUBSET Int /\ IsFiniteSet(same)
    BY <2>1, <2>2, <2>3, FS_Subset
  <2>5. same # {} => Max(same) \in same
    BY <2>4, MaxIs
  <2>6. QED
    BY <2>5 DEF SameManifest
<1>5. AnswerManifest(p, n, content)
  BY <1>3, <1>4 DEF AnswerManifest
<1> HIDE DEF p, n, content, same
<1>6. QED
  BY <1>1, <1>2, <1>3, <1>5, AnswerKeepsHistory DEF p

\* A lost file is taken from what the last run can still show (LoseFile).
LEMMA LossKeepsHistory ==
  ASSUME HistoryInv, LoseFile
  PROVE  HistoryInv'
<1>1. FactsInv /\ RowsTellOneStory /\ Resting
  BY DEF HistoryInv, LoseFile, InRun, RunRow
<1>2. UNCHANGED <<manifests, programs, event, facts, ingestion, rowsBuilt>>
  BY DEF LoseFile
<1>3. PICK file \in archive :
        /\ archive' = archive \ {file}
        /\ returned' = {n \in returned : <<manifests[n].product, manifests[n].content>> # file}
  BY DEF LoseFile
<1>4. FactsInv' /\ RowsTellOneStory'
  BY <1>1, <1>2, FactsStay DEF RowsTellOneStory
<1>5. returned' \subseteq returned
  BY <1>3
<1>6. AnswersReadable'
  BY <1>1, <1>2, <1>3 DEF Resting, AnswersReadable, Readable
<1>7. Healed'
  BY <1>1, <1>2, <1>5 DEF Resting, Healed
<1>8. Resting'
  BY <1>1, <1>2, <1>5, <1>6, <1>7 DEF Resting
<1>9. QED
  BY <1>4, <1>8 DEF HistoryInv

\* The invariant of the history holds in every behaviour.
LEMMA HistoryInvariant == HistorySpec => []HistoryInv
<1>1. HistoryInit => HistoryInv
  <2> SUFFICES ASSUME HistoryInit PROVE HistoryInv
    OBVIOUS
  <2>1. manifests = <<>> /\ facts = <<>> /\ programs = {} /\ event = [g \in Game |-> Unknown]
        /\ ingestion = AtRest /\ returned = {} /\ rowsBuilt = NoTable
    BY DEF HistoryInit
  <2>2. DOMAIN manifests = {} /\ DOMAIN facts = {} /\ manifests \in Seq(ManifestRow)
        /\ facts \in Seq(FactRow)
    BY <2>1
  <2>3. HistoryTyping
    BY <2>1, <2>2 DEF HistoryTyping, EventId
  <2>4. FactsInv
    BY <2>2, <2>3 DEF FactsInv, FactsListed, FactsOrdered, FactsComplete, FactsEligible,
                      FactsMapped, Positions
  <2>5. Resting
    BY <2>1 DEF Resting, AnswersReadable, Healed
  <2>6. RowsTellOneStory
    BY <2>1 DEF RowsTellOneStory, NoTable
  <2>7. QED
    BY <2>4, <2>5, <2>6 DEF HistoryInv
<1>2. HistoryInv /\ [HistoryNext]_historyVars => HistoryInv'
  <2> SUFFICES ASSUME HistoryInv, [HistoryNext]_historyVars PROVE HistoryInv'
    OBVIOUS
  <2>1. CASE StartIngestion \/ AskProvider \/ StoreAnswer \/ StopIngestion
    BY <2>1, RunKeepsHistory
  <2>2. CASE AnswerFromFile
    BY <2>2, FromFileKeepsHistory
  <2>3. CASE CommitAnswer
    BY <2>3, CommitKeepsHistory
  <2>4. CASE LoseFile
    BY <2>4, LossKeepsHistory
  <2>5. CASE BuildCorpus
    BY <2>5, BuildTellsOneStory
  <2>6. CASE UNCHANGED historyVars
    <3>1. FactsInv'
      BY <2>6, FactsStay DEF HistoryInv, historyVars
    <3>2. QED
      BY <2>6, <3>1 DEF HistoryInv, historyVars, Resting, InRun, RowsTellOneStory, AnswersReadable,
                        Healed, Readable, Positions
  <2>7. QED
    BY <2>1, <2>2, <2>3, <2>4, <2>5, <2>6 DEF HistoryNext
<1>3. QED
  BY <1>1, <1>2, PTL DEF HistorySpec

\* A row of the corpus tells one story although its score comes from the newest file and its
\* target from the newest fact, and a game is one event for good: through corrections, reverts,
\* answers before their programs, runs that stop half way and lost files.
THEOREM CorpusStaysSound == HistorySpec => []CorpusSound
<1>1. HistoryInv => CorpusSound
  BY DEF HistoryInv, FactsInv, FactsMapped, CorpusSound, OneEventPerGame
<1>2. QED
  BY <1>1, HistoryInvariant, PTL

\* A complete run leaves nothing to be done again: what it answered with can be read, and the
\* facts of it are those of today's identities.
THEOREM CompleteRunsHeal == HistorySpec => []RunsHeal
<1>1. HistoryInv => RunsHeal
  BY DEF HistoryInv, Resting, InRun, RunRow, RunsHeal, AnswersReadable, RerunHeals, Healed
<1>2. QED
  BY <1>1, HistoryInvariant, PTL

-----------------------------------------------------------------------------
(* The import of legacy portfolios: cash. *)

Funding == <<"funding">>
Ref == {Funding, Reconciliation} \cup ({"stake", "settlement"} \X Ids)
Entry == [ref : Ref, amount : Int]

\* Entries that tell of a bet.
OfBet(e) == e.ref[1] \in {"stake", "settlement"}

\* No reference occurs twice.
RefsOnce(entries) == \A e, f \in entries : e.ref = f.ref => e = f

\* The cash of some entries and one more.
LEMMA CashInsert ==
  ASSUME NEW S, IsFiniteSet(S), \A e \in S : e.amount \in Int, NEW x, x \notin S, x.amount \in Int
  PROVE  CashOf(S \cup {x}) = CashOf(S) + x.amount
<1> DEFINE all == [e \in S \cup {x} |-> e.amount]
<1>1. Total(all, S \cup {x}) = all[x] + Total(all, S)
  <2>1. \A y \in S \cup {x} : all[y] \in Int
    OBVIOUS
  <2> HIDE DEF all
  <2>2. QED
    BY <2>1, TotalInsert
<1>2. Total(all, S) = Total([e \in S |-> e.amount], S)
  <2>1. \A y \in S : all[y] = [e \in S |-> e.amount][y]
    OBVIOUS
  <2> HIDE DEF all
  <2>2. QED
    BY <2>1, TotalAgree
<1>3. Total([e \in S |-> e.amount], S) \in Int
  <2>1. \A y \in S : [e \in S |-> e.amount][y] \in Int
    OBVIOUS
  <2>2. QED
    BY <2>1, TotalInt
<1>4. QED
  BY <1>1, <1>2, <1>3 DEF CashOf

\* Cash is a number.
LEMMA CashInt ==
  ASSUME NEW S, IsFiniteSet(S), \A e \in S : e.amount \in Int
  PROVE  CashOf(S) \in Int
<1>1. \A y \in S : [e \in S |-> e.amount][y] \in Int
  OBVIOUS
<1>2. QED
  BY <1>1, TotalInt DEF CashOf

\* There are as many references as entries when none occurs twice.
LEMMA RefsCount ==
  ASSUME NEW S, IsFiniteSet(S), RefsOnce(S)
  PROVE  Cardinality(Refs(S)) = Cardinality(S)
<1> DEFINE f == [e \in S |-> e.ref]
<1>1. f \in Surjection(S, Refs(S))
  BY DEF Surjection, Refs
<1>2. f \in Injection(S, Refs(S))
  BY DEF Injection, IsInjective, Refs, RefsOnce
<1>3. QED
  BY <1>1, <1>2, FS_Surjection

\* What the entries of a bet are.
LEMMA EntriesSay ==
  ASSUME NEW i \in Ids, NEW b, b.stake \in Int, b.payout \in Int
  PROVE  /\ IsFiniteSet(EntriesOf(i, b))
         /\ RefsOnce(EntriesOf(i, b))
         /\ \A e \in EntriesOf(i, b) :
                e \in Entry /\ OfBet(e) /\ e.ref \in {<<"stake", i>>, <<"settlement", i>>}
                /\ e.ref # Funding /\ e.ref # Reconciliation
<1>1. EntriesOf(i, b) = IF b.result = Unset THEN {StakeEntry(i, b.stake)}
          ELSE {StakeEntry(i, b.stake), SettlementEntry(i, b.stake + b.payout)}
  BY DEF EntriesOf
<1>2. IsFiniteSet({StakeEntry(i, b.stake)})
  BY FS_Singleton
<1>3. IsFiniteSet({StakeEntry(i, b.stake)} \cup {SettlementEntry(i, b.stake + b.payout)})
  BY <1>2, FS_AddElement
<1>4. IsFiniteSet(EntriesOf(i, b))
  BY <1>2, <1>3 DEF EntriesOf
<1>5. StakeEntry(i, b.stake) \in Entry /\ SettlementEntry(i, b.stake + b.payout) \in Entry
  BY DEF StakeEntry, SettlementEntry, Entry, Ref
<1>6. <<"stake", i>> # <<"settlement", i>> /\ <<"stake", i>>[1] = "stake"
      /\ <<"settlement", i>>[1] = "settlement" /\ <<"stake", i>> # Funding
      /\ <<"settlement", i>> # Funding /\ <<"stake", i>> # Reconciliation
      /\ <<"settlement", i>> # Reconciliation
  BY DEF Funding, Reconciliation
<1>7. StakeEntry(i, b.stake).ref = <<"stake", i>>
      /\ SettlementEntry(i, b.stake + b.payout).ref = <<"settlement", i>>
  BY DEF StakeEntry, SettlementEntry
<1>8. RefsOnce(EntriesOf(i, b))
  BY <1>1, <1>6, <1>7 DEF RefsOnce
<1>9. \A e \in EntriesOf(i, b) :
          e \in Entry /\ OfBet(e) /\ e.ref \in {<<"stake", i>>, <<"settlement", i>>}
          /\ e.ref # Funding /\ e.ref # Reconciliation
  BY <1>1, <1>5, <1>6, <1>7 DEF OfBet
<1>10. QED
  BY <1>4, <1>8, <1>9

\* Entries of two bets have different references.
LEMMA EntriesApart ==
  ASSUME NEW i \in Ids, NEW j \in Ids, i # j, NEW b, NEW c,
         b.stake \in Int, b.payout \in Int, c.stake \in Int, c.payout \in Int,
         NEW e \in EntriesOf(i, b), NEW f \in EntriesOf(j, c)
  PROVE  e.ref # f.ref
<1>1. e.ref \in {<<"stake", i>>, <<"settlement", i>>} /\ f.ref \in {<<"stake", j>>, <<"settlement", j>>}
  BY EntriesSay
<1>2. QED
  BY <1>1

-----------------------------------------------------------------------------
(* The ledger that imports and the application share. *)

ImportTyping ==
    /\ owned \in [Portfolio -> Owner \cup {Unset}]
    /\ bets \in [Ids -> BetRow \cup {Unset}]
    /\ ledger \in [Portfolio -> SUBSET Entry]
    /\ \A p \in Portfolio : IsFiniteSet(ledger[p])
    /\ DOMAIN imported = Portfolio
    /\ lives \in Nat

\* A portfolio is funded when it is opened, and an unopened one has no entries.
FundedOnce ==
    \A p \in Portfolio :
        IF owned[p] = Unset THEN ledger[p] = {} ELSE Funding \in Refs(ledger[p])

\* No reference occurs twice, every bet has its entries, and every entry of a bet its bet.
BetsTold ==
    /\ \A p \in Portfolio : RefsOnce(ledger[p])
    /\ \A j \in Ids : bets[j] # Unset => EntriesOf(j, bets[j]) \subseteq ledger[bets[j].of]
    /\ \A p \in Portfolio : \A e \in ledger[p] : OfBet(e) =>
          \E j \in Ids : bets[j] # Unset /\ bets[j].of = p /\ e \in EntriesOf(j, bets[j])

LedgerInv == ImportTyping /\ FundedOnce /\ BetsTold

\* What an import is about to write for one portfolio: bets with identifiers of their own, and
\* their entries.
RowsShaped(rows) ==
    /\ rows.ids \subseteq Ids /\ rows.bets \subseteq LegacyBet
    /\ rows.ids = {b.id : b \in rows.bets}
    /\ \A b, c \in rows.bets : b.id = c.id => b = c
    /\ rows.entries \subseteq Entry /\ IsFiniteSet(rows.entries) /\ RefsOnce(rows.entries)
    /\ \A b \in rows.bets : EntriesOf(b.id, b) \subseteq rows.entries
    /\ \A e \in rows.entries : OfBet(e) => \E b \in rows.bets : e \in EntriesOf(b.id, b)

\* At the moment it is read: the bets are new, a portfolio is opened once and reconciled once.
RowsNew(p, rows, bankroll) ==
    /\ \A i \in rows.ids : bets[i] = Unset
    /\ owned[p] = Unset <=> Funding \in Refs(rows.entries)
    /\ Reconciliation \in Refs(rows.entries) => Reconciliation \notin Refs(ledger[p])
    /\ Reconciliation \notin Refs(ledger[p]) => CashOf(ledger[p] \cup rows.entries) = bankroll

\* What can be said of a bet row.
LEMMA BetRowSays ==
  ASSUME ImportTyping, NEW j \in Ids, bets[j] # Unset
  PROVE  bets[j] \in BetRow /\ bets[j].of \in Portfolio
         /\ bets[j].stake \in Int /\ bets[j].payout \in Int
<1>1. bets[j] \in BetRow
  BY DEF ImportTyping
<1>2. QED
  BY <1>1 DEF BetRow

\* The invariant says what the property says.
LEMMA ToldIsTold ==
  ASSUME LedgerInv
  PROVE  LedgerTellsBets
<1> SUFFICES ASSUME NEW p \in Portfolio
             PROVE  /\ Cardinality(Refs(ledger[p])) = Cardinality(ledger[p])
                    /\ {e \in ledger[p] : e.ref[1] \in {"stake", "settlement"}}
                         = UNION {EntriesOf(i, bets[i]) :
                                    i \in {j \in Ids : bets[j] # Unset /\ bets[j].of = p}}
  BY DEF LedgerTellsBets
<1>1. ImportTyping /\ BetsTold
  BY DEF LedgerInv
<1>2. Cardinality(Refs(ledger[p])) = Cardinality(ledger[p])
  BY <1>1, RefsCount DEF ImportTyping, BetsTold
<1>3. ASSUME NEW e \in ledger[p], OfBet(e)
      PROVE  \E i \in {j \in Ids : bets[j] # Unset /\ bets[j].of = p} : e \in EntriesOf(i, bets[i])
  BY <1>1, <1>3 DEF BetsTold
<1>4. ASSUME NEW i \in Ids, bets[i] # Unset, bets[i].of = p, NEW e \in EntriesOf(i, bets[i])
      PROVE  e \in ledger[p] /\ OfBet(e)
  <2>1. e \in ledger[p]
    BY <1>1, <1>4 DEF BetsTold
  <2>2. bets[i].stake \in Int /\ bets[i].payout \in Int
    BY <1>1, <1>4, BetRowSays
  <2>3. QED
    BY <2>1, <2>2, EntriesSay
<1>5. QED
  BY <1>2, <1>3, <1>4 DEF OfBet

\* An identifier that no bet has is in no reference of a bet.
LEMMA UnusedRef ==
  ASSUME LedgerInv, NEW i \in Ids, bets[i] = Unset, NEW p \in Portfolio
  PROVE  <<"stake", i>> \notin Refs(ledger[p]) /\ <<"settlement", i>> \notin Refs(ledger[p])
<1> SUFFICES ASSUME NEW e \in ledger[p], e.ref \in {<<"stake", i>>, <<"settlement", i>>} PROVE FALSE
  BY DEF Refs
<1>1. OfBet(e)
  BY DEF OfBet
<1>2. PICK j \in Ids : bets[j] # Unset /\ e \in EntriesOf(j, bets[j])
  BY <1>1 DEF LedgerInv, BetsTold
<1>3. bets[j].stake \in Int /\ bets[j].payout \in Int
  BY <1>2, BetRowSays DEF LedgerInv
<1>4. e.ref \in {<<"stake", j>>, <<"settlement", j>>}
  BY <1>2, <1>3, EntriesSay
<1>5. j = i
  BY <1>4
<1>6. QED
  BY <1>2, <1>5

\* The rows of one portfolio are bets that are new, with their entries and what is missing.
LEMMA RowsSay ==
  ASSUME LedgerInv, NEW p \in Portfolio, NEW version, version.bankroll \in Int,
         version.bets \in Seq(LegacyBet), NEW taken, NEW rows, rows = BetRows(p, version, taken)
  PROVE  /\ RowsShaped(rows)
         /\ RowsNew(p, rows, version.bankroll)
         /\ \A i \in rows.ids : i \notin taken /\ \E k \in DOMAIN version.bets :
                version.bets[k].stake > 0 /\ version.bets[k].id = i
         /\ \A k \in DOMAIN version.bets : version.bets[k].stake > 0 =>
                \/ version.bets[k].id \in taken
                \/ bets[version.bets[k].id] # Unset
                \/ version.bets[k].id \in rows.ids
         /\ (/\ owned[p] # Unset
             /\ \A k \in DOMAIN version.bets :
                    version.bets[k].stake > 0 => bets[version.bets[k].id] # Unset
             /\ CashOf(ledger[p]) = version.bankroll \/ Reconciliation \in Refs(ledger[p]))
            => rows.entries = {}
<1> DEFINE legacy == version.bets
           new == New(bets, legacy, taken)
           told == BetEntries(legacy, new)
           first == [ref |-> <<"funding">>, amount |-> Starting]
           funding == IF owned[p] = Unset THEN {first} ELSE {}
           added == funding \cup told
           adjusted == Adjustment(ledger[p], added, version.bankroll)
           base == ledger[p] \cup added
           rest == [ref |-> Reconciliation, amount |-> version.bankroll - CashOf(base)]
<1>1. rows = [ids |-> {legacy[i].id : i \in new}, bets |-> {legacy[i] : i \in new},
              entries |-> added \cup adjusted]
  BY DEF BetRows
<1>2. ImportTyping /\ FundedOnce
  BY DEF LedgerInv
<1>3. DOMAIN legacy = 1 .. Len(legacy) /\ Len(legacy) \in Nat
      /\ \A i \in DOMAIN legacy : /\ legacy[i] \in LegacyBet /\ legacy[i].id \in Ids
                                  /\ legacy[i].stake \in Int /\ legacy[i].payout \in Int
  <2>1. legacy \in Seq(LegacyBet)
    OBVIOUS
  <2> HIDE DEF legacy
  <2>2. DOMAIN legacy = 1 .. Len(legacy) /\ Len(legacy) \in Nat
        /\ \A i \in DOMAIN legacy : legacy[i] \in LegacyBet
    BY <2>1
  <2>3. QED
    BY <2>2 DEF LegacyBet
<1>4. /\ new \subseteq DOMAIN legacy
      /\ \A i \in new : /\ legacy[i].stake > 0 /\ bets[legacy[i].id] = Unset
                        /\ legacy[i].id \notin taken
                        /\ \A j \in 1 .. (i - 1) : legacy[j].stake > 0 => legacy[j].id # legacy[i].id
      /\ \A i \in DOMAIN legacy :
            (/\ legacy[i].stake > 0 /\ bets[legacy[i].id] = Unset /\ legacy[i].id \notin taken
             /\ \A j \in 1 .. (i - 1) : legacy[j].stake > 0 => legacy[j].id # legacy[i].id)
            => i \in new
  BY DEF New
<1>5. IsFiniteSet(new)
  <2>1. IsFiniteSet(1 .. Len(legacy))
    BY <1>3, FS_Interval
  <2> HIDE DEF new
  <2>2. QED
    BY <1>3, <1>4, <2>1, FS_Subset
<1> HIDE DEF new
<1>6. \A i, j \in new : legacy[i].id = legacy[j].id => i = j
  <2> SUFFICES ASSUME NEW i \in new, NEW j \in new, legacy[i].id = legacy[j].id, i < j PROVE FALSE
    BY <1>3, <1>4
  <2>1. i \in 1 .. (j - 1)
    BY <1>3, <1>4
  <2>2. QED
    BY <1>4, <2>1
<1>7. \A i \in new : /\ IsFiniteSet(EntriesOf(legacy[i].id, legacy[i]))
                     /\ RefsOnce(EntriesOf(legacy[i].id, legacy[i]))
                     /\ \A e \in EntriesOf(legacy[i].id, legacy[i]) :
                            e \in Entry /\ OfBet(e) /\ e.ref # Funding /\ e.ref # Reconciliation
  BY <1>3, <1>4, EntriesSay
<1>8. told = UNION {EntriesOf(legacy[i].id, legacy[i]) : i \in new}
  BY DEF BetEntries
<1>9. IsFiniteSet(told)
  <2> DEFINE f == [i \in new |-> EntriesOf(legacy[i].id, legacy[i])]
             family == {EntriesOf(legacy[i].id, legacy[i]) : i \in new}
  <2>1. f \in Surjection(new, family)
    BY DEF Surjection
  <2>2. IsFiniteSet(family)
    BY <1>5, <2>1, FS_Surjection
  <2>3. \A x \in family : IsFiniteSet(x)
    BY <1>7
  <2> HIDE DEF family
  <2>4. IsFiniteSet(UNION family)
    BY <2>2, <2>3, FS_UNION
  <2>5. QED
    BY <1>8, <2>4 DEF family
<1>10. \A e \in told : e \in Entry /\ OfBet(e) /\ e.ref # Funding /\ e.ref # Reconciliation
  BY <1>7, <1>8
<1>11. RefsOnce(told)
  <2> SUFFICES ASSUME NEW e \in told, NEW f \in told, e.ref = f.ref PROVE e = f
    BY DEF RefsOnce
  <2>1. PICK i \in new : e \in EntriesOf(legacy[i].id, legacy[i])
    BY <1>8
  <2>2. PICK j \in new : f \in EntriesOf(legacy[j].id, legacy[j])
    BY <1>8
  <2>3. legacy[i].id = legacy[j].id
    BY <1>3, <1>4, <2>1, <2>2, EntriesApart
  <2>4. i = j
    BY <1>6, <2>3
  <2>5. QED
    BY <1>7, <2>1, <2>2, <2>4 DEF RefsOnce
<1> HIDE DEF told
<1>12. first \in Entry /\ first.ref = Funding /\ first.ref # Reconciliation /\ ~OfBet(first)
  BY ImportAssumption DEF Entry, Ref, Funding, Reconciliation, OfBet
<1> HIDE DEF first
<1>13. added \subseteq Entry /\ IsFiniteSet(added) /\ Reconciliation \notin Refs(added)
       /\ (Funding \in Refs(added) <=> owned[p] = Unset)
  <2>1. IsFiniteSet(funding)
    BY FS_EmptySet, FS_Singleton
  <2>2. IsFiniteSet(added)
    BY <1>9, <2>1, FS_Union
  <2>3. added \subseteq Entry
    BY <1>10, <1>12
  <2>4. Reconciliation \notin Refs(added)
    BY <1>10, <1>12 DEF Refs
  <2>5. Funding \in Refs(added) <=> owned[p] = Unset
    BY <1>10, <1>12 DEF Refs
  <2>6. QED
    BY <2>2, <2>3, <2>4, <2>5
<1>14. RefsOnce(added)
  BY <1>10, <1>11, <1>12 DEF RefsOnce
<1>15. \A e \in added : OfBet(e) <=> e \in told
  BY <1>10, <1>12
<1> HIDE DEF added
<1>16. base \subseteq Entry /\ IsFiniteSet(base) /\ CashOf(base) \in Int
  <2>1. base \subseteq Entry /\ IsFiniteSet(base)
    BY <1>2, <1>13, FS_Union DEF ImportTyping
  <2>2. \A e \in base : e.amount \in Int
    BY <2>1 DEF Entry
  <2> HIDE DEF base
  <2>3. QED
    BY <2>1, <2>2, CashInt
<1>17. rest \in Entry /\ rest.ref = Reconciliation /\ rest.amount = version.bankroll - CashOf(base)
       /\ ~OfBet(rest) /\ Reconciliation # Funding
  BY <1>16 DEF Entry, Ref, OfBet, Reconciliation, Funding
<1>18. adjusted = IF version.bankroll - CashOf(base) = 0 \/ Reconciliation \in Refs(ledger[p])
                  THEN {} ELSE {rest}
  BY DEF Adjustment, Refs
<1> HIDE DEF rest, adjusted, base
<1>19. rows.entries = added \cup adjusted /\ rows.ids = {legacy[i].id : i \in new}
       /\ rows.bets = {legacy[i] : i \in new}
  BY <1>1
<1>20. RowsShaped(rows)
  <2>1. rows.ids \subseteq Ids /\ rows.bets \subseteq LegacyBet
    BY <1>3, <1>4, <1>19
  <2>2. rows.ids = {b.id : b \in rows.bets}
    BY <1>19
  <2>3. \A b, c \in rows.bets : b.id = c.id => b = c
    BY <1>6, <1>19
  <2>4. rows.entries \subseteq Entry
    BY <1>13, <1>17, <1>18, <1>19
  <2>5. IsFiniteSet(rows.entries)
    <3>1. CASE adjusted = {}
      <4>1. rows.entries = added
        BY <1>19, <3>1
      <4>2. QED
        BY <1>13, <4>1
    <3>2. CASE adjusted = {rest}
      <4>1. IsFiniteSet(added \cup {rest})
        BY <1>13, FS_AddElement
      <4>2. QED
        BY <1>19, <3>2, <4>1
    <3>3. QED
      BY <1>18, <3>1, <3>2
  <2>6. RefsOnce(rows.entries)
    BY <1>13, <1>14, <1>17, <1>18, <1>19 DEF RefsOnce, Refs
  <2>7. told \subseteq rows.entries
    BY <1>19 DEF added
  <2>8. \A b \in rows.bets : EntriesOf(b.id, b) \subseteq rows.entries
    BY <1>8, <1>19, <2>7
  <2>9. \A e \in rows.entries : OfBet(e) => \E b \in rows.bets : e \in EntriesOf(b.id, b)
    BY <1>8, <1>15, <1>17, <1>18, <1>19
  <2>10. QED
    BY <2>1, <2>2, <2>3, <2>4, <2>5, <2>6, <2>8, <2>9 DEF RowsShaped
<1>21. Reconciliation \notin Refs(ledger[p]) => CashOf(ledger[p] \cup rows.entries) = version.bankroll
  <2> SUFFICES ASSUME Reconciliation \notin Refs(ledger[p])
               PROVE  CashOf(ledger[p] \cup rows.entries) = version.bankroll
    OBVIOUS
  <2>1. ledger[p] \cup rows.entries = base \cup adjusted
    BY <1>19 DEF base
  <2>2. CASE version.bankroll - CashOf(base) = 0
    <3>1. adjusted = {}
      BY <1>18, <2>2
    <3>2. ledger[p] \cup rows.entries = base
      BY <2>1, <3>1
    <3>3. CashOf(ledger[p] \cup rows.entries) = CashOf(base)
      BY <3>2
    <3>4. CashOf(base) = version.bankroll
      BY <1>16, <2>2
    <3>5. QED
      BY <3>3, <3>4
  <2>3. CASE version.bankroll - CashOf(base) # 0
    <3>1. adjusted = {rest}
      BY <1>18, <2>3
    <3>2. rest \notin base
      BY <1>13, <1>17 DEF Refs, base
    <3>3. CashOf(base \cup {rest}) = CashOf(base) + rest.amount
      BY <1>16, <1>17, <3>2, CashInsert DEF Entry
    <3>4. ledger[p] \cup rows.entries = base \cup {rest}
      BY <2>1, <3>1
    <3>5. CashOf(ledger[p] \cup rows.entries) = CashOf(base) + rest.amount
      BY <3>3, <3>4
    <3>6. CashOf(base) + rest.amount = version.bankroll
      BY <1>16, <1>17
    <3>7. QED
      BY <3>5, <3>6
  <2>4. QED
    BY <2>2, <2>3
<1>22. RowsNew(p, rows, version.bankroll)
  <2>1. \A i \in rows.ids : bets[i] = Unset
    BY <1>4, <1>19
  <2>2. Refs(rows.entries) = Refs(added) \cup Refs(adjusted)
    BY <1>19 DEF Refs
  <2>3. Refs(adjusted) = {} \/ (Refs(adjusted) = {Reconciliation} /\ Reconciliation \notin Refs(ledger[p]))
    BY <1>17, <1>18 DEF Refs
  <2>4. owned[p] = Unset <=> Funding \in Refs(rows.entries)
    BY <1>13, <1>17, <2>2, <2>3
  <2>5. Reconciliation \in Refs(rows.entries) => Reconciliation \notin Refs(ledger[p])
    BY <1>13, <2>2, <2>3
  <2>6. QED
    BY <1>21, <2>1, <2>4, <2>5 DEF RowsNew
<1>23. \A i \in rows.ids : i \notin taken /\ \E k \in DOMAIN legacy :
            legacy[k].stake > 0 /\ legacy[k].id = i
  BY <1>4, <1>19
<1>24. ASSUME NEW k \in DOMAIN legacy, legacy[k].stake > 0, legacy[k].id \notin taken,
              bets[legacy[k].id] = Unset
       PROVE  legacy[k].id \in rows.ids
  <2> DEFINE same == {j \in DOMAIN legacy : legacy[j].stake > 0 /\ legacy[j].id = legacy[k].id}
  <2>1. IsFiniteSet(1 .. Len(legacy))
    BY <1>3, FS_Interval
  <2>2. same \subseteq 1 .. Len(legacy) /\ k \in same
    BY <1>3, <1>24
  <2>3. IsFiniteSet(same) /\ same \in SUBSET Int /\ same # {}
    <3> HIDE DEF same
    <3>1. QED
      BY <1>3, <2>1, <2>2, FS_Subset
  <2>4. PICK j \in same : \A i \in same : j <= i
    <3> HIDE DEF same
    <3>1. QED
      BY <2>3, LeastOf
  <2>5. j \in DOMAIN legacy /\ legacy[j].stake > 0 /\ legacy[j].id = legacy[k].id
    BY <2>4
  <2>6. \A i \in 1 .. (j - 1) : legacy[i].stake > 0 => legacy[i].id # legacy[j].id
    <3> SUFFICES ASSUME NEW i \in 1 .. (j - 1), legacy[i].stake > 0, legacy[i].id = legacy[j].id
                 PROVE  FALSE
      OBVIOUS
    <3>1. i \in DOMAIN legacy /\ i < j
      BY <1>3, <2>5
    <3>2. i \in same
      BY <2>5, <3>1
    <3>3. j <= i /\ j \in Int /\ i \in Int
      BY <1>3, <2>4, <2>5, <3>2
    <3>4. QED
      BY <3>1, <3>3
  <2>7. j \in new
    BY <1>4, <1>24, <2>5, <2>6
  <2>8. QED
    BY <1>19, <2>5, <2>7
<1>25. ASSUME owned[p] # Unset,
              \A k \in DOMAIN legacy : legacy[k].stake > 0 => bets[legacy[k].id] # Unset,
              CashOf(ledger[p]) = version.bankroll \/ Reconciliation \in Refs(ledger[p])
       PROVE  rows.entries = {}
  <2>1. new = {}
    BY <1>4, <1>25
  <2>2. told = {}
    BY <1>8, <2>1
  <2>3. added = {}
    BY <1>25, <2>2 DEF added
  <2>4. base = ledger[p]
    BY <2>3 DEF base
  <2>5. adjusted = {}
    BY <1>16, <1>18, <1>25, <2>4
  <2>6. QED
    BY <1>19, <2>3, <2>5
<1>26. QED
  BY <1>20, <1>22, <1>23, <1>24, <1>25

-----------------------------------------------------------------------------
(* The import in progress. *)

\* What was read stays good for the commit, unless it conflicts: a portfolio that is still
\* unopened will have the cash of the file, and one that was unopened will be funded.
PendingInv ==
    pending # Unset =>
        /\ pending.owner \in Owner /\ pending.file \in Files
        /\ DOMAIN pending.rows = DOMAIN pending.file
        /\ \A p \in DOMAIN pending.rows :
              /\ RowsShaped(pending.rows[p])
              /\ owned[p] = Unset => CashOf(pending.rows[p].entries) = pending.file[p].bankroll
              /\ owned[p] = pending.owner \/ Funding \in Refs(pending.rows[p].entries)
        /\ \A p, q \in DOMAIN pending.rows :
              p # q => pending.rows[p].ids \cap pending.rows[q].ids = {}

\* Nothing of a version is left to import.
Done(p, version) ==
    /\ owned[p] # Unset
    /\ \A k \in DOMAIN version.bets : version.bets[k].stake > 0 =>
          version.bets[k].id \in Ids /\ bets[version.bets[k].id] # Unset
    /\ CashOf(ledger[p]) = version.bankroll \/ Reconciliation \in Refs(ledger[p])

\* Every bet of the file is there already or about to be written.
Covers(p) ==
    \A k \in DOMAIN pending.file[p].bets : pending.file[p].bets[k].stake > 0 =>
        \/ bets[pending.file[p].bets[k].id] # Unset
        \/ \E q \in DOMAIN pending.rows : pending.file[p].bets[k].id \in pending.rows[q].ids

\* While nobody but imports writes, what was read is what would be read now.
QuietInv ==
    lives = 0 =>
        /\ \A p \in Portfolio : imported[p] # Unset => Done(p, imported[p])
        /\ pending # Unset => \A p \in DOMAIN pending.rows :
              /\ RowsNew(p, pending.rows[p], pending.file[p].bankroll)
              /\ Covers(p)
              /\ imported[p] = pending.file[p] => pending.rows[p].entries = {}

ImportInv == LedgerInv /\ PendingInv /\ QuietInv

\* An order of a finite set has each of its members once.
LEMMA OrderSays ==
  ASSUME NEW S, IsFiniteSet(S), NEW order \in SetToSeqs(S)
  PROVE  /\ Cardinality(S) \in Nat /\ DOMAIN order = 1 .. Cardinality(S)
         /\ \A j \in DOMAIN order : order[j] \in S
         /\ \A i, j \in DOMAIN order : order[i] = order[j] => i = j
         /\ \A p \in S : \E j \in DOMAIN order : order[j] = p
<1> DEFINE D == 1 .. Cardinality(S)
<1>1. Cardinality(S) \in Nat
  BY FS_CardinalityType
<1>2. order \in [D -> S] /\ \A i, j \in D : i # j => order[i] # order[j]
  BY DEF SetToSeqs
<1>3. IsFiniteSet(D) /\ Cardinality(D) = Cardinality(S)
  BY <1>1, FS_Interval
<1> HIDE DEF D
<1>4. order \in Injection(D, S)
  BY <1>2 DEF Injection, IsInjective
<1>5. order \in Surjection(D, S)
  BY <1>3, <1>4, FS_Injection
<1>6. \A p \in S : \E j \in D : order[j] = p
  BY <1>5 DEF Surjection
<1>7. QED
  BY <1>1, <1>2, <1>6 DEF D

\* Reading a file prepares rows that fit each other and the ledger (import_json_file).
LEMMA ReadKeeps ==
  ASSUME ImportInv, NEW owner \in Owner, NEW file \in Files, NEW order \in SetToSeqs(DOMAIN file),
         ReadFile(owner, file, order)
  PROVE  ImportInv'
<1> DEFINE Taken(k) == UNION {{b.id : b \in {c \in Range(file[order[j]].bets) : c.stake > 0}}
                               : j \in 1..(k - 1)}
           At(p) == CHOOSE j \in DOMAIN order : order[j] = p
           R(p) == BetRows(p, file[p], Taken(At(p)))
<1>1. LedgerInv /\ ImportTyping /\ PendingInv /\ QuietInv
  BY DEF ImportInv, LedgerInv
<1>2. UNCHANGED <<owned, bets, ledger, lives, imported>> /\ pending = Unset
  BY DEF ReadFile
<1>3. LedgerInv'
  BY <1>1, <1>2 DEF LedgerInv, ImportTyping, FundedOnce, BetsTold
<1>4. CASE ~Accepts(owner, file)
  <2>1. pending' = pending
    BY <1>4 DEF ReadFile
  <2>2. QED
    BY <1>1, <1>2, <1>3, <2>1 DEF ImportInv, PendingInv, QuietInv, Done
<1>5. CASE Accepts(owner, file)
  <2>1. pending' = [owner |-> owner, file |-> file, rows |-> [p \in DOMAIN file |-> R(p)]]
    BY <1>5 DEF ReadFile
  <2>2. pending'.owner = owner /\ pending'.file = file
        /\ DOMAIN pending'.rows = DOMAIN file /\ \A p \in DOMAIN file : pending'.rows[p] = R(p)
    BY <2>1
  <2>3. IsFiniteSet(DOMAIN file)
        /\ \A p \in DOMAIN file : /\ p \in Portfolio /\ file[p] # Unset /\ file[p].bankroll \in Int
                                  /\ file[p].bets \in Seq(LegacyBet)
    BY ImportAssumption
  <2>4. /\ Cardinality(DOMAIN file) \in Nat /\ DOMAIN order = 1 .. Cardinality(DOMAIN file)
        /\ \A j \in DOMAIN order : order[j] \in DOMAIN file
        /\ \A i, j \in DOMAIN order : order[i] = order[j] => i = j
        /\ \A p \in DOMAIN file : \E j \in DOMAIN order : order[j] = p
    BY <2>3, OrderSays
  <2>5. \A p \in DOMAIN file : At(p) \in DOMAIN order /\ order[At(p)] = p
    BY <2>4
  <2>6. \A j \in DOMAIN order : At(order[j]) = j
    BY <2>4, <2>5
  <2>7. \A k \in DOMAIN order : \A x : x \in Taken(k) <=>
            \E j \in 1 .. (k - 1) : \E m \in DOMAIN file[order[j]].bets :
                file[order[j]].bets[m].stake > 0 /\ file[order[j]].bets[m].id = x
    <3> SUFFICES ASSUME NEW k \in DOMAIN order, NEW x
                 PROVE  x \in Taken(k) <=> \E j \in 1 .. (k - 1) :
                            \E m \in DOMAIN file[order[j]].bets :
                              file[order[j]].bets[m].stake > 0 /\ file[order[j]].bets[m].id = x
      OBVIOUS
    <3> DEFINE Staked(j) == {b.id : b \in {c \in Range(file[order[j]].bets) : c.stake > 0}}
    <3>1. x \in Taken(k) <=> \E j \in 1 .. (k - 1) : x \in Staked(j)
      OBVIOUS
    <3>2. ASSUME NEW j
          PROVE  x \in Staked(j) <=> \E m \in DOMAIN file[order[j]].bets :
                    file[order[j]].bets[m].stake > 0 /\ file[order[j]].bets[m].id = x
      BY DEF Range
    <3> HIDE DEF Staked, Taken
    <3>3. QED
      BY <3>1, <3>2
  <2> HIDE DEF At, Taken
  <2>8. ASSUME NEW p \in DOMAIN file
        PROVE  /\ RowsShaped(R(p))
               /\ RowsNew(p, R(p), file[p].bankroll)
               /\ \A i \in R(p).ids : i \notin Taken(At(p)) /\ \E k \in DOMAIN file[p].bets :
                      file[p].bets[k].stake > 0 /\ file[p].bets[k].id = i
               /\ \A k \in DOMAIN file[p].bets : file[p].bets[k].stake > 0 =>
                      \/ file[p].bets[k].id \in Taken(At(p))
                      \/ bets[file[p].bets[k].id] # Unset
                      \/ file[p].bets[k].id \in R(p).ids
               /\ Done(p, file[p]) => R(p).entries = {}
    BY <1>1, <2>3, RowsSay DEF Done
  <2> HIDE DEF R
  <2>9. ASSUME NEW p \in DOMAIN file, NEW q \in DOMAIN file, At(p) < At(q)
        PROVE  R(p).ids \cap R(q).ids = {}
    <3> SUFFICES ASSUME NEW i \in R(p).ids, i \in R(q).ids PROVE FALSE
      OBVIOUS
    <3>1. PICK k \in DOMAIN file[p].bets : file[p].bets[k].stake > 0 /\ file[p].bets[k].id = i
      BY <2>8
    <3>2. At(p) \in 1 .. (At(q) - 1)
      BY <2>4, <2>5, <2>9
    <3>3. i \in Taken(At(q))
      BY <2>5, <2>7, <3>1, <3>2
    <3>4. QED
      BY <2>8, <3>3
  <2>10. ASSUME NEW p \in DOMAIN file, NEW q \in DOMAIN file, p # q
         PROVE  R(p).ids \cap R(q).ids = {}
    <3>1. At(p) # At(q) /\ At(p) \in Int /\ At(q) \in Int
      BY <2>4, <2>5, <2>10
    <3>2. CASE At(p) < At(q)
      BY <2>9, <3>2
    <3>3. CASE At(q) < At(p)
      BY <2>9, <3>3
    <3>4. QED
      BY <3>1, <3>2, <3>3
  <2>11. ASSUME NEW p \in DOMAIN file, NEW k \in DOMAIN file[p].bets, file[p].bets[k].stake > 0,
                bets[file[p].bets[k].id] = Unset
         PROVE  \E q \in DOMAIN file : file[p].bets[k].id \in R(q).ids
    <3> DEFINE x == file[p].bets[k].id
               Has(j) == \E m \in DOMAIN file[order[j]].bets :
                             file[order[j]].bets[m].stake > 0 /\ file[order[j]].bets[m].id = x
               places == {j \in DOMAIN order : Has(j)}
    <3>1. places \in SUBSET Int /\ IsFiniteSet(places) /\ places # {}
      <4>1. IsFiniteSet(1 .. Cardinality(DOMAIN file)) /\ places \subseteq 1 .. Cardinality(DOMAIN file)
        BY <2>4, FS_Interval
      <4>2. At(p) \in places
        BY <2>5, <2>11
      <4> HIDE DEF places
      <4>3. IsFiniteSet(places)
        BY <4>1, FS_Subset
      <4>4. QED
        BY <2>4, <4>1, <4>2, <4>3
    <3>2. PICK j \in places : \A i \in places : j <= i
      <4> HIDE DEF places
      <4>1. QED
        BY <3>1, LeastOf
    <3>3. j \in DOMAIN order /\ Has(j)
      BY <3>2
    <3>4. PICK m \in DOMAIN file[order[j]].bets :
              file[order[j]].bets[m].stake > 0 /\ file[order[j]].bets[m].id = x
      BY <3>3
    <3>5. order[j] \in DOMAIN file /\ At(order[j]) = j
      BY <2>4, <2>6, <3>3
    <3>6. x \notin Taken(j)
      <4> SUFFICES ASSUME x \in Taken(j) PROVE FALSE
        OBVIOUS
      <4>1. PICK i \in 1 .. (j - 1) : Has(i)
        BY <2>7, <3>3
      <4>2. i \in DOMAIN order /\ i < j /\ i \in Int /\ j \in Int
        BY <2>4, <3>3
      <4>3. j <= i
        BY <3>2, <4>1, <4>2
      <4>4. QED
        BY <4>2, <4>3
    <3>7. x \in R(order[j]).ids
      BY <2>8, <2>11, <3>4, <3>5, <3>6
    <3>8. QED
      BY <3>5, <3>7
  <2>12. PendingInv'
    <3>1. \A p \in DOMAIN file :
              /\ RowsShaped(R(p))
              /\ owned[p] = Unset => CashOf(R(p).entries) = file[p].bankroll
              /\ owned[p] = owner \/ Funding \in Refs(R(p).entries)
      <4> TAKE p \in DOMAIN file
      <4>1. RowsShaped(R(p)) /\ RowsNew(p, R(p), file[p].bankroll)
        BY <2>8
      <4>2. owned[p] = Unset => ledger[p] = {} /\ ledger[p] \cup R(p).entries = R(p).entries
                                /\ Reconciliation \notin Refs(ledger[p])
        BY <1>1, <2>3 DEF LedgerInv, FundedOnce, Refs
      <4>3. owned[p] = Unset => CashOf(R(p).entries) = file[p].bankroll
        BY <4>1, <4>2 DEF RowsNew
      <4>4. owned[p] \in {Unset, owner}
        BY <1>5 DEF Accepts
      <4>5. QED
        BY <4>1, <4>3, <4>4 DEF RowsNew
    <3>2. \A p \in DOMAIN file : RowsShaped(pending'.rows[p])
      BY <2>2, <3>1
    <3>3. QED
      BY <1>2, <2>2, <2>10, <3>1, <3>2 DEF PendingInv, RowsShaped
  <2>13. QuietInv'
    <3> SUFFICES ASSUME lives = 0 PROVE QuietInv'
      BY <1>2 DEF QuietInv
    <3>1. \A p \in Portfolio : imported[p] # Unset => Done(p, imported[p])
      BY <1>1 DEF QuietInv
    <3>2. \A p \in Portfolio : imported'[p] # Unset => Done(p, imported[p])'
      BY <1>2, <3>1 DEF Done
    <3>3. ASSUME NEW p \in DOMAIN file
          PROVE  /\ RowsNew(p, pending.rows[p], pending.file[p].bankroll)'
                 /\ Covers(p)'
                 /\ imported[p] = file[p] => R(p).entries = {}
      <4>1. RowsNew(p, pending.rows[p], pending.file[p].bankroll)'
        <5>1. RowsNew(p, R(p), file[p].bankroll)
          BY <2>8, <3>3
        <5>2. pending'.rows[p] = R(p) /\ pending'.file[p] = file[p]
          BY <2>2, <3>3
        <5>3. bets' = bets /\ owned' = owned /\ ledger' = ledger
          BY <1>2
        <5>4. QED
          BY <5>1, <5>2, <5>3 DEF RowsNew
      <4>2. Covers(p)'
        BY <1>2, <2>2, <2>11, <3>3 DEF Covers
      <4>3. imported[p] = file[p] => R(p).entries = {}
        BY <2>3, <2>8, <3>1, <3>3
      <4>4. QED
        BY <4>1, <4>2, <4>3
    <3>4. QED
      BY <1>2, <2>2, <3>2, <3>3 DEF QuietInv
  <2>14. QED
    BY <1>3, <2>12, <2>13 DEF ImportInv
<1>6. QED
  BY <1>4, <1>5

\* The row that a bet of the file becomes.
RowOf(p, b) == [of |-> p, stake |-> b.stake, result |-> b.result, payout |-> b.payout]

\* What a commit without conflict makes of the tables.
Merged ==
    /\ \A p \in DOMAIN pending.rows : p \in Portfolio /\ \A b \in pending.rows[p].bets :
          b \in LegacyBet /\ b.id \in Ids /\ bets[b.id] = Unset /\ bets'[b.id] = RowOf(p, b)
    /\ \A i \in Ids : \/ bets'[i] = bets[i]
                      \/ \E p \in DOMAIN pending.rows : \E b \in pending.rows[p].bets : b.id = i
    /\ \A p \in DOMAIN pending.rows :
          /\ ledger'[p] = ledger[p] \cup pending.rows[p].entries
          /\ owned'[p] = pending.owner /\ imported'[p] = pending.file[p]
    /\ \A p \in Portfolio \ DOMAIN pending.rows :
          ledger'[p] = ledger[p] /\ owned'[p] = owned[p] /\ imported'[p] = imported[p]
    /\ \A p \in DOMAIN pending.rows : \A e \in pending.rows[p].entries : \A f \in ledger[p] :
          e.ref # f.ref

\* A bet and its row have the same entries.
LEMMA RowEntries ==
  ASSUME NEW p, NEW i, NEW b
  PROVE  EntriesOf(i, RowOf(p, b)) = EntriesOf(i, b)
BY DEF EntriesOf, RowOf

\* A commit without conflict inserts the rows that were read beside the ones that are there.
LEMMA CommitMerges ==
  ASSUME ImportInv, CommitImport, ~Conflicts
  PROVE  Merged
<1> DEFINE P == DOMAIN pending.rows
           Of(i) == {p \in P : i \in pending.rows[p].ids}
           Row(i) == LET p == CHOOSE q \in Of(i) : TRUE
                         b == CHOOSE c \in pending.rows[p].bets : c.id = i
                     IN  [of |-> p, stake |-> b.stake, result |-> b.result, payout |-> b.payout]
<1>1. pending # Unset
      /\ owned' = [p \in Portfolio |-> IF p \in P THEN pending.owner ELSE owned[p]]
      /\ bets' = [i \in Ids |-> IF Of(i) # {} THEN Row(i) ELSE bets[i]]
      /\ ledger' = [p \in Portfolio |-> IF p \in P THEN ledger[p] \cup pending.rows[p].entries
                                        ELSE ledger[p]]
      /\ imported' = [p \in Portfolio |-> IF p \in P THEN pending.file[p] ELSE imported[p]]
  BY DEF CommitImport
<1>2. /\ P = DOMAIN pending.file /\ pending.file \in Files
      /\ \A p \in P : RowsShaped(pending.rows[p])
      /\ \A p, q \in P : p # q => pending.rows[p].ids \cap pending.rows[q].ids = {}
  BY <1>1 DEF ImportInv, PendingInv
<1>3. \A p \in P : p \in Portfolio
  BY <1>2, ImportAssumption
<1>4. \A p \in P : Refs(pending.rows[p].entries) \cap Refs(ledger[p]) = {}
                   /\ \A i \in pending.rows[p].ids : bets[i] = Unset
  BY DEF Conflicts
<1>5. ASSUME NEW p \in P, NEW b \in pending.rows[p].bets
      PROVE  b \in LegacyBet /\ b.id \in Ids /\ bets[b.id] = Unset /\ bets'[b.id] = RowOf(p, b)
  <2>1. b \in LegacyBet /\ b.id \in pending.rows[p].ids /\ b.id \in Ids
        /\ \A c \in pending.rows[p].bets : c.id = b.id => c = b
    BY <1>2 DEF RowsShaped
  <2>2. Of(b.id) = {p}
    BY <1>2, <2>1
  <2>3. (CHOOSE q \in Of(b.id) : TRUE) = p
    BY <2>2
  <2>4. (CHOOSE c \in pending.rows[p].bets : c.id = b.id) = b
    BY <2>1
  <2>5. Row(b.id) = RowOf(p, b)
    BY <2>3, <2>4 DEF RowOf
  <2> HIDE DEF Row, Of
  <2>6. bets'[b.id] = Row(b.id)
    BY <1>1, <2>1, <2>2
  <2>7. QED
    BY <1>4, <2>1, <2>5, <2>6
<1>6. ASSUME NEW i \in Ids, bets'[i] # bets[i]
      PROVE  \E p \in P : \E b \in pending.rows[p].bets : b.id = i
  <2>1. Of(i) # {}
    <3> HIDE DEF Row, Of
    <3>1. QED
      BY <1>1, <1>6
  <2>2. PICK p \in P : i \in pending.rows[p].ids
    BY <2>1
  <2>3. QED
    BY <1>2, <2>2 DEF RowsShaped
<1>7. \A p \in P : \A e \in pending.rows[p].entries : \A f \in ledger[p] : e.ref # f.ref
  BY <1>4 DEF Refs
<1> HIDE DEF Row, Of
<1>8. /\ \A p \in P : ledger'[p] = ledger[p] \cup pending.rows[p].entries
                      /\ owned'[p] = pending.owner /\ imported'[p] = pending.file[p]
      /\ \A p \in Portfolio \ P :
            ledger'[p] = ledger[p] /\ owned'[p] = owned[p] /\ imported'[p] = imported[p]
  BY <1>1, <1>3
<1>9. QED
  BY <1>3, <1>5, <1>6, <1>7, <1>8 DEF Merged

\* A commit keeps the ledger telling of the bets, and leaves nothing of the file to import
\* (import_json_file).
LEMMA CommitKeeps ==
  ASSUME ImportInv, CommitImport
  PROVE  ImportInv'
<1>1. ImportTyping /\ FundedOnce /\ BetsTold /\ PendingInv /\ QuietInv /\ LedgerInv
  BY DEF ImportInv, LedgerInv
<1>2. pending # Unset /\ pending' = Unset /\ lives' = lives
  BY DEF CommitImport
<1>3. PendingInv'
  BY <1>2 DEF PendingInv
<1>4. CASE Conflicts
  <2>1. UNCHANGED <<owned, bets, ledger, imported, lives>>
    BY <1>4 DEF CommitImport
  <2>2. LedgerInv'
    BY <1>1, <2>1 DEF LedgerInv, ImportTyping, FundedOnce, BetsTold
  <2>3. QuietInv'
    BY <1>1, <1>2, <2>1 DEF QuietInv, Done
  <2>4. QED
    BY <1>3, <2>2, <2>3 DEF ImportInv
<1>5. CASE ~Conflicts
  <2> DEFINE P == DOMAIN pending.rows
  <2>1. Merged
    BY <1>5, CommitMerges
  <2>2. /\ pending.owner \in Owner /\ pending.owner # Unset
        /\ P = DOMAIN pending.file /\ P \subseteq Portfolio
        /\ \A p \in P : /\ RowsShaped(pending.rows[p])
                        /\ owned[p] = pending.owner \/ Funding \in Refs(pending.rows[p].entries)
    BY <1>1, <1>2, <2>1, ImportAssumption DEF PendingInv, Merged
  <2>3. \A j \in Ids : bets[j] # Unset => bets'[j] = bets[j]
    BY <2>1 DEF Merged
  <2>4. \A p \in Portfolio : ledger[p] \subseteq ledger'[p]
    BY <2>1 DEF Merged
  <2>5. ImportTyping'
    <3>1. DOMAIN owned' = Portfolio /\ DOMAIN ledger' = Portfolio /\ DOMAIN imported' = Portfolio
          /\ DOMAIN bets' = Ids
          /\ owned' = [p \in Portfolio |-> owned'[p]] /\ ledger' = [p \in Portfolio |-> ledger'[p]]
          /\ bets' = [i \in Ids |-> bets'[i]]
      BY <1>5 DEF CommitImport
    <3>2. \A p \in Portfolio : owned'[p] \in Owner \cup {Unset}
      BY <1>1, <2>1, <2>2 DEF Merged, ImportTyping
    <3>3. \A p \in Portfolio : ledger'[p] \subseteq Entry /\ IsFiniteSet(ledger'[p])
      <4> TAKE p \in Portfolio
      <4>1. ledger[p] \subseteq Entry /\ IsFiniteSet(ledger[p])
        BY <1>1 DEF ImportTyping
      <4>2. CASE p \in P
        <5>1. ledger'[p] = ledger[p] \cup pending.rows[p].entries
          BY <2>1, <4>2 DEF Merged
        <5>2. pending.rows[p].entries \subseteq Entry /\ IsFiniteSet(pending.rows[p].entries)
          BY <2>2, <4>2 DEF RowsShaped
        <5>3. IsFiniteSet(ledger[p] \cup pending.rows[p].entries)
          BY <4>1, <5>2, FS_Union
        <5>4. QED
          BY <4>1, <5>1, <5>2, <5>3
      <4>3. CASE p \notin P
        BY <2>1, <4>1, <4>3 DEF Merged
      <4>4. QED
        BY <4>2, <4>3
    <3>4. \A i \in Ids : bets'[i] \in BetRow \cup {Unset}
      <4> TAKE i \in Ids
      <4>1. CASE bets'[i] = bets[i]
        BY <1>1, <4>1 DEF ImportTyping
      <4>2. CASE bets'[i] # bets[i]
        <5>1. PICK p \in P : \E b \in pending.rows[p].bets : b.id = i
          BY <2>1, <4>2 DEF Merged
        <5>2. PICK b \in pending.rows[p].bets : b.id = i
          BY <5>1
        <5>3. p \in Portfolio /\ b \in LegacyBet /\ bets'[i] = RowOf(p, b)
          BY <2>1, <5>2 DEF Merged
        <5>4. b.stake \in Int /\ b.result \in Results /\ b.payout \in Int
          BY <5>3 DEF LegacyBet
        <5>5. QED
          BY <5>3, <5>4 DEF RowOf, BetRow
      <4>3. QED
        BY <4>1, <4>2
    <3>5. lives' \in Nat
      BY <1>1, <1>2 DEF ImportTyping
    <3>6. QED
      BY <3>1, <3>2, <3>3, <3>4, <3>5 DEF ImportTyping
  <2>6. FundedOnce'
    <3> SUFFICES ASSUME NEW p \in Portfolio
                 PROVE  IF owned'[p] = Unset THEN ledger'[p] = {} ELSE Funding \in Refs(ledger'[p])
      BY DEF FundedOnce, Refs
    <3>1. IF owned[p] = Unset THEN ledger[p] = {} ELSE Funding \in Refs(ledger[p])
      BY <1>1 DEF FundedOnce
    <3>2. CASE p \in P
      BY <2>1, <2>2, <3>1, <3>2 DEF Merged, Refs
    <3>3. CASE p \notin P
      BY <2>1, <3>1, <3>3 DEF Merged
    <3>4. QED
      BY <3>2, <3>3
  <2>7. BetsTold'
    <3>1. ASSUME NEW p \in Portfolio PROVE RefsOnce(ledger'[p])
      <4>1. RefsOnce(ledger[p])
        BY <1>1 DEF BetsTold
      <4>2. CASE p \in P
        <5>1. ledger'[p] = ledger[p] \cup pending.rows[p].entries
              /\ \A e \in pending.rows[p].entries : \A f \in ledger[p] : e.ref # f.ref
          BY <2>1, <4>2 DEF Merged
        <5>2. RefsOnce(pending.rows[p].entries)
          BY <2>2, <4>2 DEF RowsShaped
        <5>3. QED
          BY <4>1, <5>1, <5>2 DEF RefsOnce
      <4>3. CASE p \notin P
        BY <2>1, <4>1, <4>3 DEF Merged
      <4>4. QED
        BY <4>2, <4>3
    <3>2. ASSUME NEW j \in Ids, bets'[j] # Unset
          PROVE  EntriesOf(j, bets'[j]) \subseteq ledger'[bets'[j].of]
      <4>1. CASE bets'[j] = bets[j]
        <5>1. EntriesOf(j, bets[j]) \subseteq ledger[bets[j].of] /\ bets[j].of \in Portfolio
          BY <1>1, <3>2, <4>1, BetRowSays DEF BetsTold
        <5>2. QED
          BY <2>4, <4>1, <5>1
      <4>2. CASE bets'[j] # bets[j]
        <5>1. PICK p \in P : \E b \in pending.rows[p].bets : b.id = j
          BY <2>1, <4>2 DEF Merged
        <5>2. PICK b \in pending.rows[p].bets : b.id = j
          BY <5>1
        <5>3. bets'[j] = RowOf(p, b) /\ ledger'[p] = ledger[p] \cup pending.rows[p].entries
          BY <2>1, <5>2 DEF Merged
        <5>4. EntriesOf(j, b) \subseteq pending.rows[p].entries
          BY <2>2, <5>2 DEF RowsShaped
        <5>5. EntriesOf(j, bets'[j]) = EntriesOf(j, b) /\ bets'[j].of = p
          BY <5>3, RowEntries DEF RowOf
        <5>6. QED
          BY <5>3, <5>4, <5>5
      <4>3. QED
        BY <4>1, <4>2
    <3>3. ASSUME NEW p \in Portfolio, NEW e \in ledger'[p], OfBet(e)
          PROVE  \E j \in Ids : bets'[j] # Unset /\ bets'[j].of = p /\ e \in EntriesOf(j, bets'[j])
      <4>1. CASE e \in ledger[p]
        <5>1. PICK j \in Ids : bets[j] # Unset /\ bets[j].of = p /\ e \in EntriesOf(j, bets[j])
          BY <1>1, <3>3, <4>1 DEF BetsTold
        <5>2. bets'[j] = bets[j]
          BY <2>3, <5>1
        <5>3. QED
          BY <5>1, <5>2
      <4>2. CASE e \notin ledger[p]
        <5>1. p \in P /\ e \in pending.rows[p].entries
          BY <2>1, <3>3, <4>2 DEF Merged
        <5>2. PICK b \in pending.rows[p].bets : e \in EntriesOf(b.id, b)
          BY <2>2, <3>3, <5>1 DEF RowsShaped
        <5>3. bets'[b.id] = RowOf(p, b) /\ b.id \in Ids
          BY <2>1, <5>1, <5>2 DEF Merged
        <5>4. RowOf(p, b) \in BetRow /\ RowOf(p, b).of = p
          <6>1. b \in LegacyBet /\ p \in Portfolio
            BY <2>1, <5>1, <5>2 DEF Merged
          <6>2. QED
            BY <6>1 DEF LegacyBet, BetRow, RowOf
        <5>5. bets'[b.id] # Unset /\ bets'[b.id].of = p
          BY <5>3, <5>4, ImportAssumption
        <5>6. e \in EntriesOf(b.id, bets'[b.id])
          BY <5>2, <5>3, RowEntries
        <5>7. QED
          BY <5>3, <5>5, <5>6
      <4>3. QED
        BY <4>1, <4>2
    <3>4. QED
      BY <3>1, <3>2, <3>3 DEF BetsTold
  <2>8. LedgerInv'
    BY <2>5, <2>6, <2>7 DEF LedgerInv
  <2>9. QuietInv'
    <3> SUFFICES ASSUME lives = 0, NEW p \in Portfolio, imported'[p] # Unset
                 PROVE  Done(p, imported[p])'
      BY <1>2 DEF QuietInv
    <3>1. \A i \in Ids : (\E q \in P : i \in pending.rows[q].ids) => bets'[i] # Unset
      <4> SUFFICES ASSUME NEW i \in Ids, NEW q \in P, i \in pending.rows[q].ids PROVE bets'[i] # Unset
        OBVIOUS
      <4>1. PICK b \in pending.rows[q].bets : b.id = i
        BY <2>2 DEF RowsShaped
      <4>2. bets'[i] = RowOf(q, b) /\ b \in LegacyBet /\ q \in Portfolio
        BY <2>1, <4>1 DEF Merged
      <4>3. RowOf(q, b) \in BetRow
        BY <4>2 DEF LegacyBet, BetRow, RowOf
      <4>4. QED
        BY <4>2, <4>3, ImportAssumption
    <3>2. CASE p \in P
      <4>1. RowsNew(p, pending.rows[p], pending.file[p].bankroll) /\ Covers(p)
        BY <1>1, <1>2, <3>2 DEF QuietInv
      <4>2. imported'[p] = pending.file[p] /\ owned'[p] = pending.owner
            /\ ledger'[p] = ledger[p] \cup pending.rows[p].entries
        BY <2>1, <3>2 DEF Merged
      <4>3. \A k \in DOMAIN pending.file[p].bets : pending.file[p].bets[k].stake > 0 =>
                /\ pending.file[p].bets[k].id \in Ids
                /\ bets'[pending.file[p].bets[k].id] # Unset
        <5> SUFFICES ASSUME NEW k \in DOMAIN pending.file[p].bets, pending.file[p].bets[k].stake > 0
                     PROVE  /\ pending.file[p].bets[k].id \in Ids
                            /\ bets'[pending.file[p].bets[k].id] # Unset
          OBVIOUS
        <5> DEFINE i == pending.file[p].bets[k].id
        <5>1. i \in Ids
          <6>1. pending.file[p].bets \in Seq(LegacyBet)
            BY <1>1, <1>2, <2>2, <3>2, ImportAssumption DEF PendingInv
          <6>2. pending.file[p].bets[k] \in LegacyBet
            BY <6>1
          <6>3. QED
            BY <6>2 DEF LegacyBet
        <5>2. bets[i] # Unset \/ \E q \in P : i \in pending.rows[q].ids
          BY <4>1 DEF Covers
        <5> HIDE DEF i
        <5>3. bets'[i] # Unset
          BY <2>3, <3>1, <5>1, <5>2
        <5>4. QED
          BY <5>1, <5>3 DEF i
      <4>4. CashOf(ledger'[p]) = pending.file[p].bankroll \/ Reconciliation \in Refs(ledger'[p])
        <5>1. CASE Reconciliation \in Refs(ledger[p])
          BY <4>2, <5>1 DEF Refs
        <5>2. CASE Reconciliation \notin Refs(ledger[p])
          <6>1. CashOf(ledger[p] \cup pending.rows[p].entries) = pending.file[p].bankroll
            BY <4>1, <5>2 DEF RowsNew
          <6>2. CashOf(ledger'[p]) = CashOf(ledger[p] \cup pending.rows[p].entries)
            BY <4>2
          <6>3. QED
            BY <6>1, <6>2
        <5>3. QED
          BY <5>1, <5>2
      <4>5. QED
        BY <2>2, <4>2, <4>3, <4>4 DEF Done
    <3>3. CASE p \notin P
      <4>1. imported'[p] = imported[p] /\ owned'[p] = owned[p] /\ ledger'[p] = ledger[p]
        BY <2>1, <3>3 DEF Merged
      <4>2. Done(p, imported[p])
        BY <1>1, <4>1 DEF QuietInv
      <4>3. \A i : bets[i] # Unset /\ i \in Ids => bets'[i] # Unset
        BY <2>3
      <4>4. QED
        BY <4>1, <4>2, <4>3 DEF Done
    <3>4. QED
      BY <3>2, <3>3
  <2>10. QED
    BY <1>3, <2>8, <2>9 DEF ImportInv
<1>6. QED
  BY <1>4, <1>5

\* What one more entry does to the ledger.
Grown(p, entry) ==
    /\ ledger' \in [Portfolio -> SUBSET Entry]
    /\ \A q \in Portfolio : IsFiniteSet(ledger'[q]) /\ RefsOnce(ledger'[q])
    /\ \A q \in Portfolio : ledger[q] \subseteq ledger'[q]
    /\ ledger'[p] = ledger[p] \cup {entry}
    /\ \A q \in Portfolio : q # p => ledger'[q] = ledger[q]

\* An entry with a reference of its own is one more entry.
LEMMA LedgerGrows ==
  ASSUME LedgerInv, NEW p \in Portfolio, NEW entry \in Entry, entry.ref \notin Refs(ledger[p]),
         ledger' = [ledger EXCEPT ![p] = ledger[p] \cup {entry}]
  PROVE  Grown(p, entry)
<1>1. ledger \in [Portfolio -> SUBSET Entry] /\ \A q \in Portfolio : IsFiniteSet(ledger[q])
  BY DEF LedgerInv, ImportTyping
<1>2. \A q \in Portfolio : RefsOnce(ledger[q])
  BY DEF LedgerInv, BetsTold
<1>3. ledger'[p] = ledger[p] \cup {entry} /\ \A q \in Portfolio : q # p => ledger'[q] = ledger[q]
  BY <1>1
<1>4. IsFiniteSet(ledger[p] \cup {entry})
  BY <1>1, FS_AddElement
<1>5. RefsOnce(ledger[p] \cup {entry})
  BY <1>2 DEF RefsOnce, Refs
<1>6. ledger' \in [Portfolio -> SUBSET Entry]
  BY <1>1
<1>7. \A q \in Portfolio : IsFiniteSet(ledger'[q]) /\ RefsOnce(ledger'[q])
                           /\ ledger[q] \subseteq ledger'[q]
  BY <1>1, <1>2, <1>3, <1>4, <1>5
<1>8. QED
  BY <1>3, <1>6, <1>7 DEF Grown

\* A change through the application ends the time in which only imports write.
LEMMA LiveEndsQuiet ==
  ASSUME ImportInv, lives' = lives + 1
  PROVE  lives' \in Nat /\ QuietInv'
<1>1. lives \in Nat
  BY DEF ImportInv, LedgerInv, ImportTyping
<1>2. lives' \in Nat /\ lives' # 0
  BY <1>1
<1>3. QED
  BY <1>2 DEF QuietInv

\* Opening a portfolio funds it (PortfolioService.create).
LEMMA OpenKeeps ==
  ASSUME ImportInv, NEW owner \in Owner, NEW p \in Portfolio, OpenPortfolio(owner, p)
  PROVE  ImportInv'
<1> DEFINE first == [ref |-> <<"funding">>, amount |-> Starting]
<1>1. ImportTyping /\ FundedOnce /\ BetsTold /\ PendingInv /\ LedgerInv
  BY DEF ImportInv, LedgerInv
<1>2. /\ owned[p] = Unset /\ lives' = lives + 1
      /\ owned' = [owned EXCEPT ![p] = owner] /\ ledger' = [ledger EXCEPT ![p] = {first}]
      /\ UNCHANGED <<bets, pending, imports, imported>>
  BY DEF OpenPortfolio, Live
<1>3. ledger[p] = {} /\ owner # Unset
  BY <1>1, <1>2, ImportAssumption DEF FundedOnce
<1>4. first \in Entry /\ first.ref = Funding /\ ~OfBet(first)
  BY ImportAssumption DEF Entry, Ref, Funding, OfBet
<1> HIDE DEF first
<1>5. Grown(p, first)
  <2>1. first.ref \notin Refs(ledger[p])
    BY <1>3 DEF Refs
  <2>2. ledger' = [ledger EXCEPT ![p] = ledger[p] \cup {first}]
    BY <1>2, <1>3
  <2>3. QED
    BY <1>1, <1>4, <2>1, <2>2, LedgerGrows
<1>6. owned'[p] = owner /\ \A q \in Portfolio : q # p => owned'[q] = owned[q]
  BY <1>1, <1>2 DEF ImportTyping
<1>7. lives' \in Nat /\ QuietInv'
  BY <1>2, LiveEndsQuiet
<1>8. ImportTyping'
  BY <1>1, <1>2, <1>5, <1>7 DEF ImportTyping, Grown
<1>9. FundedOnce'
  BY <1>1, <1>3, <1>4, <1>5, <1>6 DEF FundedOnce, Grown, Refs
<1>10. BetsTold'
  <2>1. ASSUME NEW j \in Ids, bets[j] # Unset PROVE EntriesOf(j, bets[j]) \subseteq ledger'[bets[j].of]
    BY <1>1, <1>5, <2>1, BetRowSays DEF BetsTold, Grown
  <2>2. ASSUME NEW q \in Portfolio, NEW e \in ledger'[q], OfBet(e)
        PROVE  \E j \in Ids : bets[j] # Unset /\ bets[j].of = q /\ e \in EntriesOf(j, bets[j])
    <3>1. e \in ledger[q]
      BY <1>4, <1>5, <2>2 DEF Grown
    <3>2. QED
      BY <1>1, <2>2, <3>1 DEF BetsTold
  <2>3. QED
    BY <1>2, <1>5, <2>1, <2>2 DEF BetsTold, Grown
<1>11. PendingInv'
  <2> SUFFICES ASSUME pending # Unset PROVE PendingInv'
    BY <1>2 DEF PendingInv
  <2>1. pending.owner # Unset /\ DOMAIN pending.rows \subseteq Portfolio
    BY <1>1, ImportAssumption DEF PendingInv
  <2>2. \A q \in DOMAIN pending.rows :
            /\ owned'[q] = Unset => owned[q] = Unset
            /\ owned'[q] = pending.owner \/ Funding \in Refs(pending.rows[q].entries)
    <3> TAKE q \in DOMAIN pending.rows
    <3>1. owned[q] = pending.owner \/ Funding \in Refs(pending.rows[q].entries)
      BY <1>1 DEF PendingInv
    <3>2. QED
      BY <1>2, <1>3, <1>6, <2>1, <3>1
  <2>3. QED
    BY <1>1, <1>2, <2>2 DEF PendingInv, RowsShaped
<1>12. QED
  BY <1>7, <1>8, <1>9, <1>10, <1>11 DEF ImportInv, LedgerInv

\* A bet that is placed brings its stake entry (PortfolioService.create_bet).
LEMMA PlaceKeeps ==
  ASSUME ImportInv, NEW p \in Portfolio, PlaceLive(p)
  PROVE  ImportInv'
<1> DEFINE b == [of |-> p, stake |-> LiveStake, result |-> Unset, payout |-> 0]
           entry == StakeEntry(LiveId, LiveStake)
<1>1. ImportTyping /\ FundedOnce /\ BetsTold /\ PendingInv /\ LedgerInv
  BY DEF ImportInv, LedgerInv
<1>2. /\ owned[p] # Unset /\ bets[LiveId] = Unset /\ lives' = lives + 1
      /\ bets' = [bets EXCEPT ![LiveId] = b] /\ ledger' = [ledger EXCEPT ![p] = ledger[p] \cup {entry}]
      /\ UNCHANGED <<owned, pending, imports, imported>>
  BY DEF PlaceLive, Live
<1>3. LiveId \in Ids
  BY DEF Ids
<1>4. b \in BetRow /\ b # Unset /\ b.of = p
  BY ImportAssumption DEF BetRow, Results
<1>5. EntriesOf(LiveId, b) = {entry}
  BY DEF EntriesOf
<1>6. entry \in Entry /\ entry.ref = <<"stake", LiveId>>
  BY <1>3, ImportAssumption DEF StakeEntry, Entry, Ref
<1> HIDE DEF b, entry
<1>7. Grown(p, entry)
  BY <1>1, <1>2, <1>3, <1>6, UnusedRef, LedgerGrows
<1>8. bets'[LiveId] = b /\ \A j \in Ids : j # LiveId => bets'[j] = bets[j]
  BY <1>1, <1>2, <1>3 DEF ImportTyping
<1>9. lives' \in Nat /\ QuietInv'
  BY <1>2, LiveEndsQuiet
<1>10. ImportTyping'
  <2>1. bets' \in [Ids -> BetRow \cup {Unset}]
    BY <1>1, <1>2, <1>4 DEF ImportTyping
  <2>2. QED
    BY <1>1, <1>2, <1>7, <1>9, <2>1 DEF ImportTyping, Grown
<1>11. FundedOnce'
  BY <1>1, <1>2, <1>7 DEF FundedOnce, Grown, Refs
<1>12. BetsTold'
  <2>1. ASSUME NEW j \in Ids, bets'[j] # Unset
        PROVE  EntriesOf(j, bets'[j]) \subseteq ledger'[bets'[j].of]
    <3>1. CASE j = LiveId
      BY <1>4, <1>5, <1>7, <1>8, <3>1 DEF Grown
    <3>2. CASE j # LiveId
      BY <1>1, <1>7, <1>8, <2>1, <3>2, BetRowSays DEF BetsTold, Grown
    <3>3. QED
      BY <3>1, <3>2
  <2>2. ASSUME NEW q \in Portfolio, NEW e \in ledger'[q], OfBet(e)
        PROVE  \E j \in Ids : bets'[j] # Unset /\ bets'[j].of = q /\ e \in EntriesOf(j, bets'[j])
    <3>1. CASE e \in ledger[q]
      <4>1. PICK j \in Ids : bets[j] # Unset /\ bets[j].of = q /\ e \in EntriesOf(j, bets[j])
        BY <1>1, <2>2, <3>1 DEF BetsTold
      <4>2. bets'[j] = bets[j]
        BY <1>2, <1>8, <4>1
      <4>3. QED
        BY <4>1, <4>2
    <3>2. CASE e \notin ledger[q]
      <4>1. q = p /\ e = entry
        BY <1>7, <2>2, <3>2 DEF Grown
      <4>2. QED
        BY <1>3, <1>4, <1>5, <1>8, <4>1
    <3>3. QED
      BY <3>1, <3>2
  <2>3. QED
    BY <1>7, <2>1, <2>2 DEF BetsTold, Grown
<1>13. PendingInv'
  BY <1>1, <1>2 DEF PendingInv, RowsShaped
<1>14. QED
  BY <1>9, <1>10, <1>11, <1>12, <1>13 DEF ImportInv, LedgerInv

\* The row of a bet that is lost.
LEMMA LostRow ==
  ASSUME NEW r \in BetRow, "loss" \in Results, NEW b,
         b = [r EXCEPT !.result = "loss", !.payout = -r.stake]
  PROVE  b \in BetRow /\ b.of = r.of /\ b.stake = r.stake /\ b.result = "loss"
         /\ b.payout = -r.stake
<1>1. r.of \in Portfolio /\ r.stake \in Int /\ -r.stake \in Int
      /\ r = [of |-> r.of, stake |-> r.stake, result |-> r.result, payout |-> r.payout]
  BY DEF BetRow
<1>2. PICK x : x = -r.stake
  OBVIOUS
<1>3. PICK c \in BetRow : c = [r EXCEPT !.result = "loss"]
  BY <1>1 DEF BetRow
<1>4. c.of = r.of /\ c.stake = r.stake /\ c.result = "loss"
      /\ c = [of |-> c.of, stake |-> c.stake, result |-> c.result, payout |-> c.payout]
  BY <1>3 DEF BetRow
<1>5. b = [c EXCEPT !.payout = x]
  BY <1>2, <1>3
<1>6. b = [of |-> c.of, stake |-> c.stake, result |-> c.result, payout |-> x]
  BY <1>4, <1>5
<1>7. QED
  BY <1>1, <1>2, <1>4, <1>6 DEF BetRow

\* A settlement brings its entry, for an imported bet as for one placed here
\* (PortfolioService.settle_bet).
LEMMA SettleKeeps ==
  ASSUME ImportInv, NEW i \in Ids, SettleLive(i)
  PROVE  ImportInv'
<1> DEFINE p == bets[i].of
           b == [bets[i] EXCEPT !.result = "loss", !.payout = -bets[i].stake]
           entry == SettlementEntry(i, 0)
<1>1. ImportTyping /\ FundedOnce /\ BetsTold /\ PendingInv /\ LedgerInv
  BY DEF ImportInv, LedgerInv
<1>2. /\ bets[i] # Unset /\ bets[i].result = Unset /\ lives' = lives + 1
      /\ bets' = [bets EXCEPT ![i] = b] /\ ledger' = [ledger EXCEPT ![p] = ledger[p] \cup {entry}]
      /\ UNCHANGED <<owned, pending, imports, imported>>
  BY DEF SettleLive, Live
<1>3. bets[i] \in BetRow /\ p \in Portfolio /\ bets[i].stake \in Int /\ bets[i].payout \in Int
  BY <1>1, <1>2, BetRowSays
<1>4. b \in BetRow /\ b # Unset /\ b.of = p /\ b.stake = bets[i].stake /\ b.result = "loss"
      /\ b.payout = -bets[i].stake
  <2>1. -bets[i].stake \in Int /\ "loss" \in Results
    BY <1>3 DEF Results
  <2>2. bets[i] \in BetRow
    BY <1>3
  <2> HIDE DEF p
  <2>3. b \in BetRow /\ b.of = bets[i].of /\ b.stake = bets[i].stake /\ b.result = "loss"
        /\ b.payout = -bets[i].stake
    BY <2>1, <2>2, LostRow
  <2>4. QED
    BY <2>3, ImportAssumption DEF p
<1>5. EntriesOf(i, bets[i]) = {StakeEntry(i, bets[i].stake)}
  BY <1>2 DEF EntriesOf
<1>6. EntriesOf(i, b) = {StakeEntry(i, bets[i].stake), entry}
  <2>1. bets[i].stake + -bets[i].stake = 0
    BY <1>3
  <2>2. b.stake + b.payout = 0
    BY <1>4, <2>1
  <2> HIDE DEF b
  <2>3. QED
    BY <1>4, <2>2, ImportAssumption DEF EntriesOf
<1>7. entry \in Entry /\ entry.ref = <<"settlement", i>> /\ OfBet(entry)
  BY DEF SettlementEntry, Entry, Ref, OfBet
<1> HIDE DEF b, p, entry
<1>8. entry.ref \notin Refs(ledger[p])
  <2> SUFFICES ASSUME NEW e \in ledger[p], e.ref = entry.ref PROVE FALSE
    BY DEF Refs
  <2>1. OfBet(e)
    BY <1>7 DEF OfBet
  <2>2. PICK j \in Ids : bets[j] # Unset /\ e \in EntriesOf(j, bets[j])
    BY <1>1, <1>3, <2>1 DEF BetsTold
  <2>3. bets[j].stake \in Int /\ bets[j].payout \in Int
    BY <1>1, <2>2, BetRowSays
  <2>4. e.ref \in {<<"stake", j>>, <<"settlement", j>>}
    BY <2>2, <2>3, EntriesSay
  <2>5. j = i
    BY <1>7, <2>4
  <2>6. e.ref = <<"stake", i>>
    BY <1>5, <2>2, <2>5 DEF StakeEntry
  <2>7. QED
    BY <1>7, <2>6
<1>9. Grown(p, entry)
  BY <1>1, <1>2, <1>3, <1>7, <1>8, LedgerGrows
<1>10. bets'[i] = b /\ \A j \in Ids : j # i => bets'[j] = bets[j]
  BY <1>1, <1>2 DEF ImportTyping
<1>11. lives' \in Nat /\ QuietInv'
  BY <1>2, LiveEndsQuiet
<1>12. ImportTyping'
  <2>1. bets' \in [Ids -> BetRow \cup {Unset}]
    BY <1>1, <1>2, <1>4 DEF ImportTyping
  <2>2. QED
    BY <1>1, <1>2, <1>9, <1>11, <2>1 DEF ImportTyping, Grown
<1>13. FundedOnce'
  <2>1. ledger[p] # {}
    BY <1>1, <1>2, <1>5 DEF BetsTold, p
  <2>2. QED
    BY <1>1, <1>2, <1>3, <1>9, <2>1 DEF FundedOnce, Grown, Refs
<1>14. BetsTold'
  <2>1. ASSUME NEW j \in Ids, bets'[j] # Unset
        PROVE  EntriesOf(j, bets'[j]) \subseteq ledger'[bets'[j].of]
    <3>1. CASE j = i
      <4>1. StakeEntry(i, bets[i].stake) \in ledger[p]
        BY <1>1, <1>2, <1>5 DEF BetsTold, p
      <4>2. QED
        BY <1>4, <1>6, <1>9, <1>10, <3>1, <4>1 DEF Grown
    <3>2. CASE j # i
      BY <1>1, <1>9, <1>10, <2>1, <3>2, BetRowSays DEF BetsTold, Grown
    <3>3. QED
      BY <3>1, <3>2
  <2>2. ASSUME NEW q \in Portfolio, NEW e \in ledger'[q], OfBet(e)
        PROVE  \E j \in Ids : bets'[j] # Unset /\ bets'[j].of = q /\ e \in EntriesOf(j, bets'[j])
    <3>1. CASE e \in ledger[q]
      <4>1. PICK j \in Ids : bets[j] # Unset /\ bets[j].of = q /\ e \in EntriesOf(j, bets[j])
        BY <1>1, <2>2, <3>1 DEF BetsTold
      <4>2. CASE j = i
        <5>1. e \in EntriesOf(i, b) /\ q = p
          BY <1>5, <1>6, <4>1, <4>2 DEF p
        <5>2. QED
          BY <1>4, <1>10, <5>1
      <4>3. CASE j # i
        <5>1. bets'[j] = bets[j]
          BY <1>10, <4>1, <4>3
        <5>2. QED
          BY <4>1, <5>1
      <4>4. QED
        BY <4>2, <4>3
    <3>2. CASE e \notin ledger[q]
      <4>1. q = p /\ e = entry
        BY <1>9, <2>2, <3>2 DEF Grown
      <4>2. QED
        BY <1>4, <1>6, <1>10, <4>1
    <3>3. QED
      BY <3>1, <3>2
  <2>3. QED
    BY <1>9, <2>1, <2>2 DEF BetsTold, Grown
<1>15. PendingInv'
  BY <1>1, <1>2 DEF PendingInv, RowsShaped
<1>16. QED
  BY <1>11, <1>12, <1>13, <1>14, <1>15 DEF ImportInv, LedgerInv

-----------------------------------------------------------------------------
(* Every step keeps the invariant, and what it says of runs. *)

\* An import starts over tables without rows.
LEMMA ImportStarts == ImportInit => ImportInv
<1> SUFFICES ASSUME ImportInit PROVE ImportInv
  OBVIOUS
<1>1. /\ owned = [p \in Portfolio |-> Unset] /\ bets = [i \in Ids |-> Unset]
      /\ ledger = [p \in Portfolio |-> {}] /\ pending = Unset /\ lives = 0
      /\ imported = [p \in Portfolio |-> Unset]
  BY DEF ImportInit
<1>2. ImportTyping
  BY <1>1, FS_EmptySet DEF ImportTyping
<1>3. FundedOnce /\ BetsTold
  BY <1>1 DEF FundedOnce, BetsTold, RefsOnce
<1>4. PendingInv /\ QuietInv
  BY <1>1 DEF PendingInv, QuietInv
<1>5. QED
  BY <1>2, <1>3, <1>4 DEF ImportInv, LedgerInv

\* An import that stops leaves the tables alone.
LEMMA StopKeeps ==
  ASSUME ImportInv, pending' \in {pending, Unset},
         UNCHANGED <<owned, bets, ledger, lives, imported>>
  PROVE  ImportInv'
<1>1. LedgerInv'
  BY DEF ImportInv, LedgerInv, ImportTyping, FundedOnce, BetsTold
<1>2. CASE pending' = Unset
  BY <1>1, <1>2 DEF ImportInv, PendingInv, QuietInv, Done
<1>3. CASE pending' = pending
  <2>1. PendingInv'
    BY <1>3 DEF ImportInv, PendingInv
  <2>2. QuietInv'
    <3> SUFFICES ASSUME lives = 0 PROVE QuietInv'
      BY DEF QuietInv
    <3>1. QuietInv
      BY DEF ImportInv
    <3>2. /\ \A p, version : Done(p, version) => Done(p, version)'
          /\ \A p : Covers(p) => Covers(p)'
          /\ \A p, rows, bankroll : RowsNew(p, rows, bankroll) => RowsNew(p, rows, bankroll)'
      BY <1>3 DEF Done, Covers, RowsNew
    <3>3. \A p \in Portfolio : imported'[p] # Unset => Done(p, imported[p])'
      <4>1. \A p \in Portfolio : imported[p] # Unset => Done(p, imported[p])
        BY <3>1 DEF QuietInv
      <4>2. QED
        BY <4>1 DEF Done
    <3>4. QED
      BY <1>3, <3>1, <3>2, <3>3 DEF QuietInv
  <2>3. QED
    BY <1>1, <2>1, <2>2 DEF ImportInv
<1>4. QED
  BY <1>2, <1>3

\* Every step keeps the invariant, by its action.
LEMMA ImportKeeps == ImportInv /\ [ImportNext]_importVars => ImportInv'
<1> SUFFICES ASSUME ImportInv, [ImportNext]_importVars PROVE ImportInv'
  OBVIOUS
<1>1. ASSUME NEW owner \in Owner, NEW file \in Files, StartImport(owner, file) PROVE ImportInv'
  <2>1. PICK order \in SetToSeqs(DOMAIN file) : ReadFile(owner, file, order)
    BY <1>1 DEF StartImport
  <2>2. QED
    BY <2>1, ReadKeeps
<1>2. CASE CommitImport
  BY <1>2, CommitKeeps
<1>3. CASE StopImport
  BY <1>3, StopKeeps DEF StopImport
<1>4. ASSUME NEW owner \in Owner, NEW p \in Portfolio, OpenPortfolio(owner, p) PROVE ImportInv'
  BY <1>4, OpenKeeps
<1>5. ASSUME NEW p \in Portfolio, PlaceLive(p) PROVE ImportInv'
  BY <1>5, PlaceKeeps
<1>6. ASSUME NEW i \in Ids, SettleLive(i) PROVE ImportInv'
  BY <1>6, SettleKeeps
<1>7. CASE UNCHANGED importVars
  BY <1>7, StopKeeps DEF importVars
<1>8. QED
  BY <1>1, <1>2, <1>3, <1>4, <1>5, <1>6, <1>7 DEF ImportNext

\* The invariant holds always.
LEMMA ImportInvariant == ImportSpec => []ImportInv
<1>1. QED
  BY ImportStarts, ImportKeeps, PTL DEF ImportSpec

\* Rows that were read while nobody else writes are not in the ledger yet, and a version that
\* was imported leaves nothing to write.
LEMMA QuietRepeats ==
  ASSUME ImportInv
  PROVE  RepeatIsQuiet
<1> SUFFICES ASSUME pending # Unset, lives = 0
             PROVE  /\ ~Conflicts
                    /\ \A p \in DOMAIN pending.rows :
                          imported[p] = pending.file[p] => pending.rows[p].entries = {}
  BY DEF RepeatIsQuiet
<1>1. LedgerInv /\ PendingInv /\ QuietInv /\ FundedOnce
  BY DEF ImportInv, LedgerInv
<1>2. \A p \in DOMAIN pending.rows :
          /\ RowsNew(p, pending.rows[p], pending.file[p].bankroll)
          /\ imported[p] = pending.file[p] => pending.rows[p].entries = {}
  BY <1>1 DEF QuietInv
<1>3. \A p \in DOMAIN pending.rows : p \in Portfolio /\ RowsShaped(pending.rows[p])
  BY <1>1, ImportAssumption DEF PendingInv
<1>4. ASSUME NEW p \in DOMAIN pending.rows, NEW e \in pending.rows[p].entries, NEW f \in ledger[p],
             e.ref = f.ref
      PROVE  FALSE
  <2>1. CASE OfBet(e)
    <3>1. PICK b \in pending.rows[p].bets : e \in EntriesOf(b.id, b)
      BY <1>3, <2>1 DEF RowsShaped
    <3>2. b \in LegacyBet /\ b.id \in pending.rows[p].ids /\ b.id \in Ids
      BY <1>3, <3>1 DEF RowsShaped
    <3>3. b.stake \in Int /\ b.payout \in Int
      BY <3>2 DEF LegacyBet
    <3>4. e.ref \in {<<"stake", b.id>>, <<"settlement", b.id>>}
      BY <3>1, <3>2, <3>3, EntriesSay
    <3>5. bets[b.id] = Unset
      BY <1>2, <3>2 DEF RowsNew
    <3>6. <<"stake", b.id>> \notin Refs(ledger[p]) /\ <<"settlement", b.id>> \notin Refs(ledger[p])
      BY <1>1, <1>3, <3>2, <3>5, UnusedRef
    <3>7. QED
      BY <1>4, <3>4, <3>6 DEF Refs
  <2>2. CASE ~OfBet(e)
    <3>1. e \in Entry
      BY <1>3 DEF RowsShaped
    <3>2. e.ref \in {Funding, Reconciliation}
      BY <2>2, <3>1 DEF Entry, Ref, OfBet
    <3>3. CASE e.ref = Funding
      <4>1. owned[p] = Unset
        BY <1>2, <3>3 DEF RowsNew, Refs
      <4>2. QED
        BY <1>1, <1>3, <4>1 DEF FundedOnce
    <3>4. CASE e.ref = Reconciliation
      BY <1>2, <1>4, <3>4 DEF RowsNew, Refs
    <3>5. QED
      BY <3>2, <3>3, <3>4
  <2>3. QED
    BY <2>1, <2>2
<1>5. ~Conflicts
  BY <1>2, <1>4 DEF Conflicts, RowsNew, Refs
<1>6. QED
  BY <1>2, <1>5

\* Only a commit without conflict changes what was imported; an owner changes only by such a
\* commit or by opening a portfolio nobody has.
LEMMA WhoWrites ==
  ASSUME ImportNext
  PROVE  \/ CommitImport /\ ~Conflicts
         \/ /\ imported' = imported
            /\ \/ owned' = owned
               \/ \E owner \in Owner, p \in Portfolio :
                     owned[p] = Unset /\ owned' = [owned EXCEPT ![p] = owner]
<1>1. ASSUME NEW owner \in Owner, NEW file \in Files, StartImport(owner, file)
      PROVE  imported' = imported /\ owned' = owned
  BY <1>1 DEF StartImport, ReadFile
<1>2. CASE CommitImport /\ Conflicts
  BY <1>2 DEF CommitImport
<1>3. CASE StopImport
  BY <1>3 DEF StopImport
<1>4. ASSUME NEW owner \in Owner, NEW p \in Portfolio, OpenPortfolio(owner, p)
      PROVE  imported' = imported /\ owned[p] = Unset /\ owned' = [owned EXCEPT ![p] = owner]
  BY <1>4 DEF OpenPortfolio, Live
<1>5. ASSUME NEW p \in Portfolio, PlaceLive(p) PROVE imported' = imported /\ owned' = owned
  BY <1>5 DEF PlaceLive, Live
<1>6. ASSUME NEW i \in Ids, SettleLive(i) PROVE imported' = imported /\ owned' = owned
  BY <1>6 DEF SettleLive, Live
<1>7. QED
  BY <1>1, <1>2, <1>3, <1>4, <1>5, <1>6 DEF ImportNext

\* A commit that opens a portfolio leaves it the cash of the file.
LEMMA CommitReconciles ==
  ASSUME ImportInv, CommitImport, ~Conflicts, NEW p \in Portfolio,
         imported[p] = Unset, imported'[p] # Unset, owned[p] = Unset
  PROVE  CashOf(ledger'[p]) = imported'[p].bankroll
<1>1. Merged
  BY CommitMerges
<1>2. p \in DOMAIN pending.rows
  BY <1>1 DEF Merged
<1>3. ledger'[p] = ledger[p] \cup pending.rows[p].entries /\ imported'[p] = pending.file[p]
  BY <1>1, <1>2 DEF Merged
<1>4. ledger[p] = {}
  BY DEF ImportInv, LedgerInv, FundedOnce
<1>5. ledger'[p] = pending.rows[p].entries
  BY <1>3, <1>4
<1>6. CashOf(pending.rows[p].entries) = pending.file[p].bankroll
  BY <1>2 DEF ImportInv, PendingInv, CommitImport
<1>7. CashOf(ledger'[p]) = CashOf(pending.rows[p].entries)
  BY <1>5
<1>8. QED
  BY <1>3, <1>6, <1>7

\* A commit writes nothing into a portfolio of another owner: both would have funded it.
LEMMA CommitKeepsOwners ==
  ASSUME ImportInv, CommitImport, ~Conflicts, NEW p \in Portfolio, owned[p] # Unset
  PROVE  owned'[p] = owned[p] /\ (imported'[p] # imported[p] => pending.owner = owned[p])
<1>1. Merged
  BY CommitMerges
<1>2. CASE p \notin DOMAIN pending.rows
  BY <1>1, <1>2 DEF Merged
<1>3. CASE p \in DOMAIN pending.rows
  <2>1. Funding \in Refs(ledger[p])
    BY DEF ImportInv, LedgerInv, FundedOnce
  <2>2. Funding \notin Refs(pending.rows[p].entries)
    BY <1>3, <2>1 DEF Conflicts
  <2>3. owned[p] = pending.owner
    BY <1>3, <2>2 DEF ImportInv, PendingInv, CommitImport
  <2>4. QED
    BY <1>1, <1>3, <2>3 DEF Merged
<1>4. QED
  BY <1>2, <1>3

\* However imports of any files follow each other, fail and stop, and however the portfolios are
\* used in between: ledger and bets tell one story, a first import leaves the cash of the file,
\* a repeated one writes nothing, and no import writes into a portfolio of another owner.
THEOREM ImportsStaySound == ImportSpec => ImportSound
<1>1. ImportInv => LedgerTellsBets /\ RepeatIsQuiet
  BY ToldIsTold, QuietRepeats DEF ImportInv
<1>2. ASSUME ImportInv, [ImportNext]_importVars, NEW p \in Portfolio,
             imported[p] = Unset, imported'[p] # Unset, owned[p] = Unset
      PROVE  CashOf(ledger'[p]) = imported'[p].bankroll
  <2>1. CASE ImportNext
    <3>1. CommitImport /\ ~Conflicts
      BY <1>2, <2>1, WhoWrites
    <3>2. QED
      BY <1>2, <3>1, CommitReconciles
  <2>2. CASE UNCHANGED importVars
    BY <1>2, <2>2 DEF importVars
  <2>3. QED
    BY <1>2, <2>1, <2>2
<1>3. ASSUME ImportInv, [ImportNext]_importVars, NEW p \in Portfolio, owned[p] # Unset
      PROVE  owned'[p] = owned[p] /\ (imported'[p] # imported[p] => pending.owner = owned[p])
  <2>1. CASE CommitImport /\ ~Conflicts
    BY <1>3, <2>1, CommitKeepsOwners
  <2>2. CASE imported' = imported /\ owned' = owned
    BY <1>3, <2>2
  <2>3. ASSUME imported' = imported, NEW owner \in Owner, NEW q \in Portfolio,
               owned[q] = Unset, owned' = [owned EXCEPT ![q] = owner]
        PROVE  owned'[p] = owned[p] /\ imported'[p] = imported[p]
    BY <1>3, <2>3 DEF ImportInv, LedgerInv, ImportTyping
  <2>4. CASE UNCHANGED importVars
    BY <1>3, <2>4 DEF importVars
  <2>5. QED
    BY <1>3, <2>1, <2>2, <2>3, <2>4, WhoWrites
<1>4. ImportInv /\ [ImportNext]_importVars =>
        [\A p \in Portfolio : imported[p] = Unset /\ imported'[p] # Unset /\ owned[p] = Unset
            => CashOf(ledger'[p]) = imported'[p].bankroll]_importVars
  BY <1>2
<1>5. ImportInv /\ [ImportNext]_importVars =>
        [\A p \in Portfolio : owned[p] # Unset =>
            /\ owned'[p] = owned[p]
            /\ imported'[p] # imported[p] => pending.owner = owned[p]]_importVars
  BY <1>3
<1>6. ImportSpec => FirstImportReconciles
  BY <1>4, ImportInvariant, PTL DEF ImportSpec, FirstImportReconciles
<1>7. ImportSpec => OwnersKeepTheirs
  BY <1>5, ImportInvariant, PTL DEF ImportSpec, OwnersKeepTheirs
<1>8. ImportSpec => [](LedgerTellsBets /\ RepeatIsQuiet)
  BY <1>1, ImportInvariant, PTL
<1>9. QED
  BY <1>6, <1>7, <1>8, PTL DEF ImportSound

-----------------------------------------------------------------------------
(* What a feature row has seen. *)

(* A set in the order of a relation, as InOrder lists it; and what comes before one of   *)
(* its members.                                                                     *)
Before(S, R, x) == {y \in S : <<y, x>> \in R}
ListOf(S, R) ==
    [n \in 1..Cardinality(S) |-> CHOOSE x \in S : Cardinality(Before(S, R, x)) = n - 1]
Ordered(S, R) ==
    \A x, y, z \in S :
        /\ <<x, x>> \notin R
        /\ x # y => <<x, y>> \in R \/ <<y, x>> \in R
        /\ <<x, y>> \in R /\ <<y, z>> \in R => <<x, z>> \in R

(* Fewer members come before an earlier one.                                        *)
LEMMA EarlierHasFewer ==
  ASSUME NEW S, IsFiniteSet(S), NEW R, Ordered(S, R), NEW x \in S, NEW y \in S, <<x, y>> \in R
  PROVE  /\ Cardinality(Before(S, R, x)) \in Nat /\ Cardinality(Before(S, R, y)) \in Nat
         /\ Cardinality(Before(S, R, x)) < Cardinality(Before(S, R, y))
<1> DEFINE X == Before(S, R, x)
           Y == Before(S, R, y)
<1>1. X \in SUBSET S /\ Y \in SUBSET S /\ x \in Y
  BY DEF Before
<1>2. X \in SUBSET (Y \ {x})
  BY DEF Before, Ordered
<1> HIDE DEF X, Y
<1>3. IsFiniteSet(X) /\ IsFiniteSet(Y)
  BY <1>1, FS_Subset
<1>4. IsFiniteSet(Y \ {x}) /\ Cardinality(Y \ {x}) = Cardinality(Y) - 1
  BY <1>1, <1>3, FS_RemoveElement
<1>5. Cardinality(X) <= Cardinality(Y \ {x})
  BY <1>2, <1>4, FS_Subset
<1>6. Cardinality(X) \in Nat /\ Cardinality(Y) \in Nat
  BY <1>3, FS_CardinalityType
<1>7. Cardinality(X) < Cardinality(Y)
  BY <1>4, <1>5, <1>6
<1>8. QED
  BY <1>6, <1>7 DEF X, Y

(* Each place of the order is somebody's, and nobody else's.                          *)
LEMMA PlaceOf ==
  ASSUME NEW S, IsFiniteSet(S), NEW R, Ordered(S, R)
  PROVE  [x \in S |-> Cardinality(Before(S, R, x)) + 1] \in Bijection(S, 1..Cardinality(S))
<1> DEFINE count(x) == Cardinality(Before(S, R, x))
           f == [x \in S |-> count(x) + 1]
           N == Cardinality(S)
<1>1. N \in Nat
  BY FS_CardinalityType
<1>2. ASSUME NEW x \in S PROVE count(x) \in Nat /\ count(x) + 1 \in 1..N
  <2> DEFINE X == Before(S, R, x)
  <2>1. X \in SUBSET (S \ {x})
    BY DEF Before, Ordered
  <2> HIDE DEF X
  <2>2. IsFiniteSet(S \ {x}) /\ Cardinality(S \ {x}) = N - 1
    BY FS_RemoveElement
  <2>3. IsFiniteSet(X) /\ Cardinality(X) <= Cardinality(S \ {x})
    BY <2>1, <2>2, FS_Subset
  <2>4. Cardinality(X) \in Nat
    BY <2>3, FS_CardinalityType
  <2> HIDE DEF N
  <2>5. Cardinality(X) + 1 \in 1..N
    BY <1>1, <2>2, <2>3, <2>4
  <2>6. QED
    BY <2>4, <2>5 DEF X
<1>3. ASSUME NEW x \in S, NEW y \in S, x # y PROVE count(x) # count(y)
  <2>1. CASE <<x, y>> \in R
    <3>1. count(x) \in Nat /\ count(y) \in Nat /\ count(x) < count(y)
      BY <2>1, EarlierHasFewer
    <3> HIDE DEF count
    <3>2. QED
      BY <3>1
  <2>2. CASE <<y, x>> \in R
    <3>1. count(x) \in Nat /\ count(y) \in Nat /\ count(y) < count(x)
      BY <2>2, EarlierHasFewer
    <3> HIDE DEF count
    <3>2. QED
      BY <3>1
  <2>3. QED
    BY <1>3, <2>1, <2>2 DEF Ordered
<1> HIDE DEF count, N
<1>4. f \in [S -> 1..N]
  BY <1>2
<1>5. \A x, y \in S : f[x] = f[y] => x = y
  <2> SUFFICES ASSUME NEW x \in S, NEW y \in S, f[x] = f[y], x # y PROVE FALSE
    OBVIOUS
  <2>1. count(x) + 1 = count(y) + 1 /\ count(x) \in Nat /\ count(y) \in Nat
    BY <1>2
  <2>2. count(x) = count(y)
    BY <2>1
  <2>3. QED
    BY <1>3, <2>2
<1>6. f \in Injection(S, 1..N)
  <2> HIDE DEF f
  <2>1. DOMAIN f = S
    BY <1>4
  <2>2. QED
    BY <1>4, <1>5, <2>1 DEF Injection, IsInjective
<1>7. IsFiniteSet(1..N) /\ Cardinality(1..N) = N
  BY <1>1, FS_Interval
<1>8. f \in Surjection(S, 1..N)
  <2> HIDE DEF f
  <2>1. Cardinality(S) = Cardinality(1..N)
    BY <1>7 DEF N
  <2>2. QED
    BY <1>6, <1>7, <2>1, FS_Injection
<1>9. f \in Bijection(S, 1..N)
  <2> HIDE DEF f
  <2>1. QED
    BY <1>6, <1>8 DEF Bijection
<1>10. QED
  BY <1>9 DEF count, N

(* The list has each member at its place.                                           *)
LEMMA ListIs ==
  ASSUME NEW S, IsFiniteSet(S), NEW R, Ordered(S, R)
  PROVE  /\ Cardinality(S) \in Nat /\ ListOf(S, R) \in [1..Cardinality(S) -> S]
         /\ \A n \in 1..Cardinality(S) : Cardinality(Before(S, R, ListOf(S, R)[n])) = n - 1
         /\ \A x \in S : \E n \in 1..Cardinality(S) : ListOf(S, R)[n] = x
         /\ \A x, y \in S : Cardinality(Before(S, R, x)) = Cardinality(Before(S, R, y)) => x = y
<1> DEFINE count(x) == Cardinality(Before(S, R, x))
           f == [x \in S |-> count(x) + 1]
           N == Cardinality(S)
<1>1. N \in Nat
  BY FS_CardinalityType
<1>2. f \in Bijection(S, 1..N)
  BY PlaceOf
<1>3. /\ \A x \in S : count(x) + 1 \in 1..N /\ count(x) \in Nat
      /\ \A n \in 1..N : \E x \in S : count(x) + 1 = n
      /\ \A x, y \in S : count(x) + 1 = count(y) + 1 => x = y
  <2>1. /\ \A x \in S : f[x] \in 1..N
        /\ \A n \in 1..N : \E x \in S : f[x] = n
        /\ \A x, y \in S : f[x] = f[y] => x = y
    <3> HIDE DEF f
    <3>1. DOMAIN f = S
      BY <1>2 DEF Bijection, Injection
    <3>2. QED
      BY <1>2, <3>1 DEF Bijection, Injection, IsInjective, Surjection
  <2>2. \A x \in S : count(x) \in Nat
    <3> SUFFICES ASSUME NEW x \in S PROVE count(x) \in Nat
      OBVIOUS
    <3>1. Before(S, R, x) \in SUBSET S
      BY DEF Before
    <3>2. QED
      BY <3>1, FS_Subset, FS_CardinalityType
  <2> HIDE DEF count, N
  <2>3. QED
    BY <2>1, <2>2
<1>4. \A n \in 1..N : ListOf(S, R)[n] \in S /\ count(ListOf(S, R)[n]) = n - 1
  <2> SUFFICES ASSUME NEW n \in 1..N
               PROVE  ListOf(S, R)[n] \in S /\ count(ListOf(S, R)[n]) = n - 1
    OBVIOUS
  <2>1. ListOf(S, R)[n] = CHOOSE x \in S : count(x) = n - 1
    BY DEF ListOf
  <2> HIDE DEF count
  <2>2. \E x \in S : count(x) = n - 1
    <3>1. PICK x \in S : count(x) + 1 = n
      BY <1>3
    <3> HIDE DEF N
    <3>2. count(x) = n - 1
      BY <1>1, <1>3, <3>1
    <3>3. QED
      BY <3>2
  <2>3. QED
    BY <2>1, <2>2
<1>5. ListOf(S, R) \in [1..N -> S]
  <2>1. ListOf(S, R) = [n \in 1..N |-> ListOf(S, R)[n]]
    BY DEF ListOf
  <2>2. QED
    BY <1>4, <2>1
<1>6. ASSUME NEW x \in S, NEW y \in S, count(x) = count(y) PROVE x = y
  <2> HIDE DEF count
  <2>1. QED
    BY <1>3, <1>6
<1>7. ASSUME NEW x \in S PROVE \E n \in 1..N : ListOf(S, R)[n] = x
  <2> DEFINE n == count(x) + 1
  <2>1. n \in 1..N /\ count(x) \in Nat
    BY <1>3
  <2>2. ListOf(S, R)[n] \in S /\ count(ListOf(S, R)[n]) = n - 1
    BY <1>4, <2>1
  <2>3. n - 1 = count(x)
    <3> HIDE DEF count
    <3>1. QED
      BY <2>1
  <2> HIDE DEF count, n
  <2>4. count(ListOf(S, R)[n]) = count(x)
    BY <2>2, <2>3
  <2>5. ListOf(S, R)[n] = x
    BY <1>6, <2>2, <2>4
  <2>6. QED
    BY <2>1, <2>5
<1>8. QED
  BY <1>1, <1>4, <1>5, <1>6, <1>7

(* A list with each member at its place is the list.                                 *)
LEMMA OnlyList ==
  ASSUME NEW S, IsFiniteSet(S), NEW R, Ordered(S, R), NEW s, s \in [1..Cardinality(S) -> S],
         \A n \in 1..Cardinality(S) : Cardinality(Before(S, R, s[n])) = n - 1
  PROVE  s = ListOf(S, R)
<1>1. \A n \in 1..Cardinality(S) : s[n] = ListOf(S, R)[n]
  <2> SUFFICES ASSUME NEW n \in 1..Cardinality(S) PROVE s[n] = ListOf(S, R)[n]
    OBVIOUS
  <2>1. s[n] \in S /\ ListOf(S, R)[n] \in S
    BY ListIs
  <2>2. Cardinality(Before(S, R, s[n])) = Cardinality(Before(S, R, ListOf(S, R)[n]))
    BY ListIs
  <2>3. QED
    BY <2>1, <2>2, ListIs
<1>2. ListOf(S, R) \in [1..Cardinality(S) -> S]
  BY ListIs
<1> DEFINE L == ListOf(S, R)
           N == Cardinality(S)
<1> HIDE DEF L
<1>3. s = [n \in 1..N |-> s[n]] /\ L = [n \in 1..N |-> L[n]] /\ \A n \in 1..N : s[n] = L[n]
  BY <1>1, <1>2 DEF L
<1> HIDE DEF N
<1>4. s = L
  BY <1>3
<1>5. QED
  BY <1>4 DEF L

(* An order holds on part of a set.                                                  *)
LEMMA OrderedPart ==
  ASSUME NEW S, NEW R, Ordered(S, R), NEW T, T \subseteq S
  PROVE  Ordered(T, R)
<1> SUFFICES ASSUME NEW x \in T, NEW y \in T, NEW z \in T
             PROVE  /\ <<x, x>> \notin R
                    /\ x # y => <<x, y>> \in R \/ <<y, x>> \in R
                    /\ <<x, y>> \in R /\ <<y, z>> \in R => <<x, z>> \in R
  BY DEF Ordered
<1>1. x \in S /\ y \in S /\ z \in S
  OBVIOUS
<1>2. QED
  BY <1>1 DEF Ordered

(* A list is a sequence of the set, each member once, and later in the list is later.    *)
LEMMA ListSeq ==
  ASSUME NEW S, IsFiniteSet(S), NEW R, Ordered(S, R)
  PROVE  /\ ListOf(S, R) \in Seq(S) /\ Len(ListOf(S, R)) = Cardinality(S)
         /\ \A n, k \in DOMAIN ListOf(S, R) : n < k => <<ListOf(S, R)[n], ListOf(S, R)[k]>> \in R
<1> DEFINE L == ListOf(S, R)
           N == Cardinality(S)
           count(x) == Cardinality(Before(S, R, x))
<1>1. /\ N \in Nat /\ L \in [1..N -> S] /\ \A n \in 1..N : count(L[n]) = n - 1
  BY ListIs
<1>2. ASSUME NEW n \in 1..N, NEW k \in 1..N, n < k PROVE <<L[n], L[k]>> \in R
  <2>1. L[n] \in S /\ L[k] \in S /\ count(L[n]) = n - 1 /\ count(L[k]) = k - 1
    BY <1>1
  <2>2. L[n] # L[k]
    <3> HIDE DEF L, count
    <3>1. QED
      BY <1>2, <2>1
  <2>3. ASSUME <<L[k], L[n]>> \in R PROVE FALSE
    <3>1. count(L[k]) < count(L[n])
      BY <2>1, <2>3, EarlierHasFewer
    <3> HIDE DEF L, count
    <3>2. QED
      BY <1>2, <2>1, <3>1
  <2> HIDE DEF L
  <2>4. QED
    BY <2>1, <2>2, <2>3 DEF Ordered
<1> HIDE DEF L, N
<1>3. L \in Seq(S) /\ Len(L) = N /\ DOMAIN L = 1..N
  BY <1>1
<1>4. QED
  BY <1>2, <1>3 DEF L, N

(* A member that comes after all others is last in the list.                          *)
LEMMA ListAppend ==
  ASSUME NEW S, IsFiniteSet(S), NEW R, NEW x, x \notin S, Ordered(S \cup {x}, R),
         \A y \in S : <<y, x>> \in R
  PROVE  ListOf(S \cup {x}, R) = Append(ListOf(S, R), x)
<1> DEFINE T == S \cup {x}
           L == ListOf(S, R)
           N == Cardinality(S)
           A == Append(L, x)
<1>1. IsFiniteSet(T) /\ Cardinality(T) = N + 1
  BY FS_AddElement
<1>2. Ordered(S, R)
  BY OrderedPart
<1>3. N \in Nat /\ L \in Seq(S) /\ Len(L) = N
      /\ \A n \in 1..N : L[n] \in S /\ Cardinality(Before(S, R, L[n])) = n - 1
  BY <1>2, ListSeq, ListIs
<1>4. \A y \in S : Before(T, R, y) = Before(S, R, y)
  <2> SUFFICES ASSUME NEW y \in S PROVE <<x, y>> \notin R
    BY DEF Before
  <2>1. QED
    BY DEF Ordered
<1>5. Before(T, R, x) = S
  BY DEF Before, Ordered
<1> HIDE DEF L, N, T
<1>6. A \in [1..(N + 1) -> T]
  <2>1. S \subseteq T /\ x \in T
    BY DEF T
  <2>2. L \in Seq(T)
    BY <1>3, <2>1
  <2>3. A \in Seq(T) /\ Len(A) = N + 1
    BY <1>3, <2>1, <2>2
  <2> HIDE DEF A
  <2>4. QED
    BY <1>3, <2>3
<1>7. ASSUME NEW n \in 1..(N + 1) PROVE Cardinality(Before(T, R, A[n])) = n - 1
  <2>1. CASE n = N + 1
    <3>1. A[n] = x
      BY <1>3, <2>1
    <3>2. Before(T, R, A[n]) = S
      BY <1>5, <3>1
    <3>3. QED
      BY <1>3, <2>1, <3>2 DEF N
  <2>2. CASE n # N + 1
    <3>1. n \in 1..N /\ A[n] = L[n]
      BY <1>3, <2>2
    <3>2. Before(T, R, A[n]) = Before(S, R, L[n])
      BY <1>3, <1>4, <3>1
    <3>3. QED
      BY <1>3, <3>1, <3>2
  <2>3. QED
    BY <2>1, <2>2
<1> HIDE DEF A
<1>8. A \in [1..Cardinality(T) -> T] /\ \A n \in 1..Cardinality(T) : Cardinality(Before(T, R, A[n])) = n - 1
  BY <1>1, <1>6, <1>7
<1>9. A = ListOf(T, R)
  BY <1>1, <1>8, OnlyList DEF T
<1>10. QED
  BY <1>9 DEF A, T, L

(* The head of a list is its first member, and the tail is the list of the rest.       *)
LEMMA ListTail ==
  ASSUME NEW S, IsFiniteSet(S), NEW R, Ordered(S, R), ListOf(S, R) # <<>>, NEW h,
         h = Head(ListOf(S, R))
  PROVE  /\ h \in S /\ \A y \in S \ {h} : <<h, y>> \in R
         /\ Tail(ListOf(S, R)) = ListOf(S \ {h}, R)
<1> DEFINE L == ListOf(S, R)
           N == Cardinality(S)
           rest == S \ {h}
           A == Tail(L)
<1>1. /\ N \in Nat /\ L \in Seq(S) /\ Len(L) = N
      /\ \A n \in 1..N : L[n] \in S /\ Cardinality(Before(S, R, L[n])) = n - 1
      /\ \A y \in S : \E n \in 1..N : L[n] = y
      /\ \A n, k \in 1..N : n < k => <<L[n], L[k]>> \in R
  <2>1. N \in Nat /\ L \in Seq(S) /\ Len(L) = N
    BY ListSeq, ListIs
  <2>2. \A n, k \in DOMAIN L : n < k => <<L[n], L[k]>> \in R
    BY ListSeq
  <2>3. DOMAIN L = 1..N
    <3> HIDE DEF L, N
    <3>1. QED
      BY <2>1
  <2>4. L \in [1..N -> S] /\ (\A n \in 1..N : Cardinality(Before(S, R, L[n])) = n - 1)
        /\ \A y \in S : \E n \in 1..N : L[n] = y
    BY ListIs
  <2> HIDE DEF L, N
  <2>5. QED
    BY <2>1, <2>2, <2>3, <2>4
<1> HIDE DEF L, N
<1>2. N > 0 /\ h = L[1] /\ h \in S
  BY <1>1 DEF L
<1>3. ASSUME NEW y \in rest PROVE <<h, y>> \in R
  <2>1. PICK n \in 1..N : L[n] = y
    BY <1>1
  <2>2. 1 < n
    BY <1>1, <1>2, <2>1
  <2>3. QED
    BY <1>1, <1>2, <2>1, <2>2
<1>4. IsFiniteSet(rest) /\ Cardinality(rest) = N - 1 /\ Ordered(rest, R)
  BY <1>2, FS_RemoveElement, OrderedPart DEF N
<1>5. ASSUME NEW n \in 1..(N - 1)
      PROVE  A[n] \in rest /\ Cardinality(Before(rest, R, A[n])) = n - 1
  <2>1. A[n] = L[n + 1] /\ n + 1 \in 1..N /\ 1 < n + 1
    BY <1>1, <1>2
  <2> HIDE DEF A
  <2>2. <<h, A[n]>> \in R /\ A[n] \in S
    <3>1. 1 \in 1..N
      BY <1>1, <1>2
    <3>2. QED
      BY <1>1, <1>2, <2>1, <3>1
  <2>3. A[n] # h
    BY <1>2, <2>2 DEF Ordered
  <2> DEFINE B == Before(S, R, A[n])
  <2>4. Before(rest, R, A[n]) = B \ {h} /\ h \in B /\ B \in SUBSET S
    BY <1>2, <2>2 DEF Before
  <2>5. Cardinality(B) = n
    BY <1>1, <2>1
  <2> HIDE DEF B
  <2>6. IsFiniteSet(B)
    BY <2>4, FS_Subset
  <2>7. Cardinality(B \ {h}) = Cardinality(B) - 1
    BY <2>4, <2>6, FS_RemoveElement
  <2>8. QED
    BY <2>2, <2>3, <2>4, <2>5, <2>7
<1>6. A \in [1..(N - 1) -> rest]
  <2>1. A = [n \in 1..(N - 1) |-> A[n]]
    <3>1. DOMAIN A = 1..(N - 1) /\ A \in Seq(S)
      BY <1>1, <1>2
    <3> HIDE DEF A
    <3>2. QED
      BY <3>1
  <2> HIDE DEF A, rest
  <2>2. QED
    BY <1>5, <2>1
<1> HIDE DEF A, rest
<1>7. A = ListOf(rest, R)
  BY <1>4, <1>5, <1>6, OnlyList
<1>8. QED
  BY <1>2, <1>3, <1>7 DEF A, L, rest

(* The list of nobody.                                                            *)
LEMMA ListEmpty ==
  ASSUME NEW S, IsFiniteSet(S), NEW R, Ordered(S, R)
  PROVE  ListOf(S, R) = <<>> <=> S = {}
<1>1. ListOf(S, R) \in Seq(S) /\ Len(ListOf(S, R)) = Cardinality(S)
  BY ListSeq
<1>2. Cardinality(S) = 0 <=> S = {}
  BY FS_EmptySet
<1> HIDE DEF ListOf
<1>3. QED
  BY <1>1, <1>2

(* What a total of a sequence is: the value of a function that adds the last value to   *)
(* the total before it.                                                             *)
Steps(s, S, g) ==
    g = [t \in SUBSET S |-> IF t = {} THEN NoTotal ELSE Plus(g[t \ {Max(t)}], s[Max(t)])]

(* The total is the value of the chosen such function.                                *)
LEMMA TotalOfDef ==
  ASSUME NEW s
  PROVE  TotalOf(s) = (CHOOSE g : Steps(s, DOMAIN s, g))[DOMAIN s]
BY DEF TotalOf, FoldLeft, MapThenFoldSet, Steps

(* What it is at one set of places.                                                 *)
LEMMA StepsAt ==
  ASSUME NEW s, NEW S, NEW g, Steps(s, S, g), NEW t \in SUBSET S
  PROVE  g[t] = IF t = {} THEN NoTotal ELSE Plus(g[t \ {Max(t)}], s[Max(t)])
BY DEF Steps

(* Finitely many places.                                                            *)
Places(S) == S \in SUBSET Int /\ IsFiniteSet(S)

(* Some of finitely many places are finitely many places.                             *)
LEMMA SomePlaces ==
  ASSUME NEW S, Places(S), NEW t, t \in SUBSET S
  PROVE  Places(t)
<1>1. IsFiniteSet(t)
  BY FS_Subset DEF Places
<1>2. QED
  BY <1>1 DEF Places

(* The last of finitely many places is one of them.                                   *)
LEMMA LastPlace ==
  ASSUME NEW S, Places(S), NEW t, t \in SUBSET S, t # {}
  PROVE  Max(t) \in t /\ t \ {Max(t)} \in SUBSET S /\ t \ {Max(t)} # t
<1>1. t \in SUBSET Int /\ IsFiniteSet(t)
  BY SomePlaces DEF Places
<1>2. Max(t) \in t
  BY <1>1, MaxIs
<1>3. QED
  BY <1>2

(* Sequences that agree on some places have the same totals of them.                   *)
LEMMA StepsAgree ==
  ASSUME NEW S, Places(S), NEW s, NEW v, NEW T, S \subseteq T,
         NEW g, NEW h, Steps(s, S, g), Steps(v, T, h), \A n \in S : s[n] = v[n]
  PROVE  \A t \in SUBSET S : g[t] = h[t]
<1> SUFFICES ASSUME NEW t0 \in SUBSET S, g[t0] # h[t0] PROVE FALSE
  OBVIOUS
<1> DEFINE B == {t \in SUBSET S : g[t] # h[t]}
<1>0. IsFiniteSet(S)
  BY DEF Places
<1>1. PICK t \in SUBSET S : g[t] # h[t] /\ \A u \in SUBSET t : u # t => g[u] = h[u]
  <2>1. B \subseteq SUBSET S /\ t0 \in B
    OBVIOUS
  <2>2. B # {}
    BY <2>1
  <2> HIDE DEF B
  <2>3. PICK t \in B : \A u \in SUBSET t : u # t => u \notin B
    BY <2>1, <2>2, <1>0, Minimal
  <2>4. QED
    BY <2>3 DEF B
<1>2. CASE t = {}
  <2>1. {} \in SUBSET S /\ {} \in SUBSET T
    OBVIOUS
  <2>2. g[{}] = NoTotal /\ h[{}] = NoTotal
    BY <2>1, StepsAt
  <2>3. QED
    BY <1>1, <1>2, <2>2
<1>3. CASE t # {}
  <2> DEFINE m == Max(t)
  <2>1. m \in t /\ t \ {m} \in SUBSET S /\ t \ {m} # t
    BY <1>1, <1>3, LastPlace
  <2>2. g[t \ {m}] = h[t \ {m}]
    <3> HIDE DEF m
    <3>1. t \ {m} \in SUBSET t
      OBVIOUS
    <3>2. QED
      BY <1>1, <2>1, <3>1
  <2>3. g[t] = Plus(g[t \ {m}], s[m])
    <3>1. g[t] = IF t = {} THEN NoTotal ELSE Plus(g[t \ {Max(t)}], s[Max(t)])
      BY StepsAt
    <3>2. QED
      BY <1>3, <3>1
  <2>4. h[t] = Plus(h[t \ {m}], v[m])
    <3>1. t \in SUBSET T
      BY <1>1
    <3>2. QED
      BY <1>3, <3>1, StepsAt
  <2>5. s[m] = v[m]
    BY <1>1, <2>1
  <2> HIDE DEF m
  <2>6. QED
    BY <1>1, <2>2, <2>3, <2>4, <2>5
<1>4. QED
  BY <1>2, <1>3

(* There is such a function.                                                        *)
LEMMA StepsExist ==
  ASSUME NEW S, Places(S), NEW s
  PROVE  \E g : Steps(s, S, g)
<1> SUFFICES ASSUME ~ \E g : Steps(s, S, g) PROVE FALSE
  OBVIOUS
<1> DEFINE B == {T \in SUBSET S : ~ \E g : Steps(s, T, g)}
<1>0. IsFiniteSet(S)
  BY DEF Places
<1>1. PICK T \in B : \A t \in SUBSET T : t # T => t \notin B
  <2>1. B \subseteq SUBSET S /\ S \in B
    OBVIOUS
  <2>2. B # {}
    BY <2>1
  <2> HIDE DEF B
  <2>3. QED
    BY <2>1, <2>2, <1>0, Minimal
<1>2. T \in SUBSET S /\ Places(T) /\ \A t \in SUBSET T : Places(t)
  BY <1>1, SomePlaces
<1> DEFINE G(t) == CHOOSE g : Steps(s, t, g)
           Prev(t) == t \ {Max(t)}
<1>3. \A t \in SUBSET T : t # T => Steps(s, t, G(t))
  BY <1>1
<1>4. \A t \in SUBSET T : t # {} => Max(t) \in t /\ Prev(t) \in SUBSET T /\ Prev(t) # T
                                    /\ Prev(t) \subseteq t
  <2> SUFFICES ASSUME NEW t \in SUBSET T, t # {}
               PROVE  Max(t) \in t /\ Prev(t) \in SUBSET T /\ Prev(t) # T /\ Prev(t) \subseteq t
    OBVIOUS
  <2>1. Max(t) \in t
    BY <1>2, LastPlace
  <2>2. QED
    BY <2>1
<1> DEFINE g == [t \in SUBSET T |-> IF t = {} THEN NoTotal ELSE Plus(G(Prev(t))[Prev(t)], s[Max(t)])]
<1> HIDE DEF G, Prev
<1>5. ASSUME NEW t \in SUBSET T, t # T PROVE g[t] = G(t)[t]
  <2>1. Steps(s, t, G(t))
    BY <1>3, <1>5
  <2>2. CASE t = {}
    BY <2>1, <2>2, StepsAt
  <2>3. CASE t # {}
    <3>1. Prev(t) \subseteq t /\ Prev(t) # T /\ Prev(t) \in SUBSET T
      BY <1>4, <2>3
    <3>2. Steps(s, Prev(t), G(Prev(t)))
      BY <1>3, <3>1
    <3>3. G(Prev(t))[Prev(t)] = G(t)[Prev(t)]
      BY <1>2, <2>1, <3>1, <3>2, StepsAgree
    <3>4. G(t)[t] = Plus(G(t)[Prev(t)], s[Max(t)])
      BY <2>1, <2>3, StepsAt DEF Prev
    <3>5. QED
      BY <2>3, <3>3, <3>4
  <2>4. QED
    BY <2>2, <2>3
<1>6. ASSUME NEW t \in SUBSET T, t # {} PROVE g[Prev(t)] = G(Prev(t))[Prev(t)]
  <2>1. Prev(t) \in SUBSET T /\ Prev(t) # T
    BY <1>4, <1>6
  <2> HIDE DEF g
  <2>2. QED
    BY <1>5, <2>1
<1>7. Steps(s, T, g)
  <2>1. g = [t \in SUBSET T |-> IF t = {} THEN NoTotal ELSE Plus(g[Prev(t)], s[Max(t)])]
    BY <1>6
  <2>2. QED
    BY <2>1 DEF Steps, Prev
<1>8. QED
  BY <1>1, <1>7

(* One more value is added to the total.                                             *)
LEMMA TotalOfAppend ==
  ASSUME NEW s, NEW n \in Nat, DOMAIN s = 1..n, NEW v, DOMAIN v = 1..(n + 1),
         \A k \in 1..n : v[k] = s[k]
  PROVE  TotalOf(v) = Plus(TotalOf(s), v[n + 1])
<1> DEFINE S == 1..n
           T == 1..(n + 1)
<1>1. Places(S) /\ Places(T) /\ S \subseteq T
  BY FS_Interval DEF Places
<1>2. PICK g : Steps(s, S, g) /\ TotalOf(s) = g[S]
  BY <1>1, StepsExist, TotalOfDef
<1>3. PICK h : Steps(v, T, h) /\ TotalOf(v) = h[T]
  BY <1>1, StepsExist, TotalOfDef
<1>4. Max(T) = n + 1 /\ T # {}
  <2>1. T # {} /\ n + 1 \in T
    OBVIOUS
  <2>2. Max(T) \in T /\ \A y \in T : Max(T) >= y
    <3> HIDE DEF T
    <3>1. QED
      BY <1>1, <2>1, MaxIs DEF Places
  <2>3. QED
    BY <2>1, <2>2
<1>5. T \ {n + 1} = S
  OBVIOUS
<1>6. h[T] = Plus(h[S], v[n + 1])
  <2> HIDE DEF S, T
  <2>1. QED
    BY <1>3, <1>4, <1>5, StepsAt
<1>7. h[S] = g[S]
  <2>1. (\A k \in S : s[k] = v[k]) /\ S \in SUBSET S
    OBVIOUS
  <2> HIDE DEF S, T
  <2>2. \A t \in SUBSET S : g[t] = h[t]
    BY <1>1, <1>2, <1>3, <2>1, StepsAgree
  <2>3. QED
    BY <2>1, <2>2
<1>8. QED
  BY <1>2, <1>3, <1>6, <1>7

(* The metrics of one more record are added to the total of a list.                    *)
LEMMA MetricTotalAppend ==
  ASSUME NEW S, NEW s, s \in Seq(S), NEW r, NEW m
  PROVE  MetricTotal(Append(s, r), m) = Plus(MetricTotal(s, m), r.metric[m])
<1> DEFINE v == Append(s, r)
           a == [n \in DOMAIN s |-> s[n].metric[m]]
           b == [n \in DOMAIN v |-> v[n].metric[m]]
           N == Len(s)
<1>1. N \in Nat /\ DOMAIN s = 1..N /\ DOMAIN v = 1..(N + 1) /\ v[N + 1] = r
      /\ \A n \in 1..N : v[n] = s[n]
  OBVIOUS
<1> HIDE DEF v, N
<1>2. DOMAIN a = 1..N /\ DOMAIN b = 1..(N + 1) /\ b[N + 1] = r.metric[m]
      /\ \A n \in 1..N : b[n] = a[n]
  BY <1>1
<1> HIDE DEF a, b
<1>3. TotalOf(b) = Plus(TotalOf(a), b[N + 1])
  BY <1>1, <1>2, TotalOfAppend
<1>4. QED
  BY <1>2, <1>3 DEF MetricTotal, a, b, v

(* The records of a corpus: finitely many, each of its own game and program.           *)
LEMMA TeamGamesAre ==
  ASSUME NEW c \in Corpora
  PROVE  /\ IsFiniteSet(TeamGames(c))
         /\ \A r \in TeamGames(c) :
               /\ r.game \in Int /\ r.program \in Int /\ r.availableAt \in Int
               /\ r.program \in Programs(c)
               /\ r = TeamGame(c, r.game, r.program)
<1> DEFINE pairs == {j \in Played(c) : Cardinality(ProgramsOf(c.game[j])) = 2}
           of(i) == {TeamGame(c, i, p) : p \in ProgramsOf(c.game[i])}
<1>1. /\ TeamGames(c) = UNION {of(i) : i \in pairs}
      /\ pairs \subseteq Played(c) /\ IsFiniteSet(Played(c))
      /\ \A i \in Played(c) : i \in Int /\ c.game[i].kickoff \in Int /\ ProgramsOf(c.game[i]) \subseteq Int
  BY CorpusAssumption DEF TeamGames, Played, ProgramsOf
<1>2. ASSUME NEW i \in pairs, NEW p \in ProgramsOf(c.game[i])
      PROVE  /\ TeamGame(c, i, p).game = i /\ TeamGame(c, i, p).program = p
             /\ TeamGame(c, i, p).availableAt \in Int
             /\ i \in Int /\ p \in Int /\ p \in Programs(c)
  <2>1. TeamGame(c, i, p).game = i /\ TeamGame(c, i, p).program = p
        /\ TeamGame(c, i, p).availableAt = c.game[i].kickoff + Delay
    BY DEF TeamGame
  <2>2. p \in Programs(c)
    BY <1>1 DEF Programs
  <2>3. i \in Int /\ p \in Int /\ c.game[i].kickoff \in Int /\ Delay \in Int
    BY <1>1, HourAssumption
  <2>4. QED
    BY <2>1, <2>2, <2>3
<1>3. ASSUME NEW r \in TeamGames(c)
      PROVE  /\ r.game \in Int /\ r.program \in Int /\ r.availableAt \in Int
             /\ r.program \in Programs(c)
             /\ r = TeamGame(c, r.game, r.program)
  <2>1. PICK i \in pairs : r \in of(i)
    BY <1>1
  <2>2. PICK p \in ProgramsOf(c.game[i]) : r = TeamGame(c, i, p)
    BY <2>1
  <2>3. QED
    BY <1>2, <2>2
<1>4. IsFiniteSet(TeamGames(c))
  <2> DEFINE family == {of(i) : i \in pairs}
             f == [i \in pairs |-> of(i)]
  <2>1. IsFiniteSet(family)
    <3>1. IsFiniteSet(pairs)
      BY <1>1, FS_Subset
    <3>2. f \in Surjection(pairs, family)
      BY DEF Surjection
    <3> HIDE DEF f, family, pairs
    <3>3. QED
      BY <3>1, <3>2, FS_Surjection
  <2>2. ASSUME NEW i \in pairs PROVE IsFiniteSet(of(i))
    <3> DEFINE x == TeamGame(c, i, c.game[i].home)
               y == TeamGame(c, i, c.game[i].away)
    <3>1. of(i) \in SUBSET ({x} \cup {y})
      BY DEF ProgramsOf
    <3>2. IsFiniteSet({x}) /\ IsFiniteSet({y})
      BY FS_Singleton
    <3> HIDE DEF of, x, y
    <3>3. IsFiniteSet({x} \cup {y})
      BY <3>2, FS_Union
    <3>4. QED
      BY <3>1, <3>3, FS_Subset
  <2>3. \A T \in family : IsFiniteSet(T)
    BY <2>2
  <2>4. IsFiniteSet(UNION family)
    <3> HIDE DEF family
    <3>1. QED
      BY <2>1, <2>3, FS_UNION
  <2>5. QED
    BY <1>1, <2>4
<1>5. QED
  BY <1>3, <1>4

(* Records in the order they become available, as a relation.                           *)
Availability(U) == {z \in U \X U : AvailableBefore(z[1], z[2])}

(* It is an order of the records of a corpus.                                         *)
LEMMA AvailabilityOrders ==
  ASSUME NEW c \in Corpora
  PROVE  Ordered(TeamGames(c), Availability(TeamGames(c)))
<1> DEFINE U == TeamGames(c)
<1>1. \A r \in U : /\ r.game \in Int /\ r.program \in Int /\ r.availableAt \in Int
                   /\ r = TeamGame(c, r.game, r.program)
  BY TeamGamesAre
<1> HIDE DEF U
<1>2. \A x, y \in U : <<x, y>> \in Availability(U) <=> AvailableBefore(x, y)
  BY DEF Availability
<1>3. ASSUME NEW x \in U PROVE ~AvailableBefore(x, x)
  BY <1>1 DEF AvailableBefore
<1>4. ASSUME NEW x \in U, NEW y \in U, x # y PROVE AvailableBefore(x, y) \/ AvailableBefore(y, x)
  <2>1. x.game # y.game \/ x.program # y.program
    BY <1>1, <1>4
  <2>2. QED
    BY <1>1, <2>1 DEF AvailableBefore
<1>5. ASSUME NEW x \in U, NEW y \in U, NEW z \in U, AvailableBefore(x, y), AvailableBefore(y, z)
      PROVE  AvailableBefore(x, z)
  <2>1. /\ x.game \in Int /\ x.program \in Int /\ x.availableAt \in Int
        /\ y.game \in Int /\ y.program \in Int /\ y.availableAt \in Int
        /\ z.game \in Int /\ z.program \in Int /\ z.availableAt \in Int
    BY <1>1
  <2>2. QED
    BY <1>5, <2>1 DEF AvailableBefore
<1> DEFINE R == Availability(U)
<1> HIDE DEF R
<1>6. Ordered(U, R)
  BY <1>2, <1>3, <1>4, <1>5 DEF Ordered, R
<1>7. QED
  BY <1>6 DEF U, R

(* What InOrder makes of some records of a corpus.                                     *)
LEMMA AvailableList ==
  ASSUME NEW c \in Corpora, NEW S, S \subseteq TeamGames(c)
  PROVE  /\ IsFiniteSet(S) /\ Ordered(S, Availability(TeamGames(c)))
         /\ InOrder(S, AvailableBefore) = ListOf(S, Availability(TeamGames(c)))
<1> DEFINE R == Availability(TeamGames(c))
           L == InOrder(S, AvailableBefore)
           N == Cardinality(S)
<1>1. IsFiniteSet(S) /\ Ordered(S, R)
  BY TeamGamesAre, AvailabilityOrders, OrderedPart, FS_Subset
<1>2. \A x \in S : {y \in S : AvailableBefore(y, x)} = Before(S, R, x)
  BY DEF Before, Availability
<1> HIDE DEF R
<1>3. L = [n \in 1..N |-> CHOOSE x \in S : Cardinality({y \in S : AvailableBefore(y, x)}) = n - 1]
  BY DEF InOrder
<1>4. ASSUME NEW n \in 1..N PROVE L[n] \in S /\ Cardinality(Before(S, R, L[n])) = n - 1
  <2>1. L[n] = CHOOSE x \in S : Cardinality({y \in S : AvailableBefore(y, x)}) = n - 1
    BY <1>3
  <2>2. ListOf(S, R)[n] \in S /\ Cardinality(Before(S, R, ListOf(S, R)[n])) = n - 1
    BY <1>1, ListIs
  <2>3. \E x \in S : Cardinality({y \in S : AvailableBefore(y, x)}) = n - 1
    BY <1>2, <2>2
  <2> HIDE DEF L
  <2>4. L[n] \in S /\ Cardinality({y \in S : AvailableBefore(y, L[n])}) = n - 1
    BY <2>1, <2>3
  <2>5. QED
    BY <1>2, <2>4
<1>5. L \in [1..N -> S]
  <2> DEFINE at(n) == CHOOSE x \in S : Cardinality({y \in S : AvailableBefore(y, x)}) = n - 1
  <2>1. L = [n \in 1..N |-> at(n)]
    BY <1>3
  <2> HIDE DEF L, N, at
  <2>2. L = [n \in 1..N |-> L[n]]
    BY <2>1
  <2>3. QED
    BY <1>4, <2>2
<1> HIDE DEF L
<1>6. L = ListOf(S, R)
  BY <1>1, <1>4, <1>5, OnlyList
<1>7. QED
  BY <1>1, <1>6 DEF R, L

(* A cutoff is an hour.                                                             *)
LEMMA AsOfIsAnHour ==
  ASSUME NEW c \in Corpora, NEW i \in Eligible(c), NEW h, NEW policy
  PROVE  AsOf(c, i, h, policy) \in Int
<1> DEFINE t == c.game[i].kickoff
           S == {k \in Eligible(c) : DayOf(c.game[k].kickoff) = DayOf(t)}
           K == {c.game[j].kickoff : j \in S}
<1>1. t \in Int /\ IsFiniteSet(Eligible(c)) /\ \A k \in Eligible(c) : c.game[k].kickoff \in Int
  <2>1. Eligible(c) \in SUBSET Played(c) /\ IsFiniteSet(Played(c))
    BY CorpusAssumption DEF Eligible, Played
  <2>2. IsFiniteSet(Eligible(c))
    BY <2>1, FS_Subset
  <2>3. \A k \in Played(c) : c.game[k].kickoff \in Int
    BY CorpusAssumption DEF Played
  <2>4. QED
    BY <2>1, <2>2, <2>3
<1>2. FirstOfDay(c, i) \in Int
  <2>1. K \in SUBSET Int /\ K # {}
    BY <1>1
  <2>2. IsFiniteSet(K)
    <3> DEFINE f == [j \in S |-> c.game[j].kickoff]
    <3>1. IsFiniteSet(S)
      BY <1>1, FS_Subset
    <3>2. f \in Surjection(S, K)
      BY DEF Surjection
    <3> HIDE DEF f, S, K
    <3>3. QED
      BY <3>1, <3>2, FS_Surjection
  <2>3. FirstOfDay(c, i) = Min(K)
    BY DEF FirstOfDay
  <2> HIDE DEF K
  <2>4. QED
    BY <2>1, <2>2, <2>3, MinIs
<1> HIDE DEF t
<1>3. DayOf(t) \in Int
  BY <1>1, HourAssumption DEF DayOf
<1>4. DayOf(t) * DayHours + FixedMorning \in Int
  <2> DEFINE d == DayOf(t)
  <2>1. d \in Int /\ DayHours \in Int /\ FixedMorning \in Int
    BY <1>3, HourAssumption
  <2> HIDE DEF d
  <2>2. d * DayHours \in Int
    BY <2>1
  <2>3. d * DayHours + FixedMorning \in Int
    BY <2>1, <2>2
  <2>4. QED
    BY <2>3 DEF d
<1>5. t - DayAhead \in Int /\ t - HourAhead \in Int /\ FirstOfDay(c, i) - MorningLead \in Int
  BY <1>1, <1>2, HourAssumption
<1>6. \/ AsOf(c, i, h, policy) = t - DayAhead
      \/ AsOf(c, i, h, policy) = t - HourAhead
      \/ AsOf(c, i, h, policy) = FirstOfDay(c, i) - MorningLead
      \/ AsOf(c, i, h, policy) = DayOf(t) * DayHours + FixedMorning
  BY DEF AsOf, t
<1>7. QED
  BY <1>4, <1>5, <1>6

(* Requests in the order they are answered, as a relation.                             *)
RequestOrder(c, U) == {z \in U \X U : RequestBefore(c, z[1], z[2])}

(* Finitely many requests, each of its own game and horizon, in an order.                *)
LEMMA RequestsAre ==
  ASSUME NEW c \in Corpora, NEW hs \in HorizonSets, NEW policy
  PROVE  /\ IsFiniteSet(Requests(c, hs, policy))
         /\ \A r \in Requests(c, hs, policy) : r.asOf \in Int
         /\ Ordered(Requests(c, hs, policy), RequestOrder(c, Requests(c, hs, policy)))
<1> DEFINE U == Requests(c, hs, policy)
           R == RequestOrder(c, U)
           E == Eligible(c)
           req(i, h) == [game |-> i, horizon |-> h, asOf |-> AsOf(c, i, h, policy)]
<1>1. hs \in SUBSET {"24_hours_before_kickoff", "60_minutes_before_kickoff", "game_day_morning"}
  BY HorizonAssumption
<1>2. /\ U = {req(i, h) : i \in E, h \in hs}
  BY DEF Requests
<1>3. E \in SUBSET Int /\ IsFiniteSet(E)
  <2>1. E \in SUBSET Played(c) /\ IsFiniteSet(Played(c)) /\ Played(c) \in SUBSET Int
    BY CorpusAssumption DEF Eligible, Played
  <2>2. QED
    BY <2>1, FS_Subset
<1>4. IsFiniteSet(hs)
  <2> DEFINE A == {"24_hours_before_kickoff"}
             B == {"60_minutes_before_kickoff"}
             C == {"game_day_morning"}
  <2>1. IsFiniteSet(A) /\ IsFiniteSet(B) /\ IsFiniteSet(C)
    BY FS_Singleton
  <2>2. hs \in SUBSET ((A \cup B) \cup C)
    BY <1>1
  <2> HIDE DEF A, B, C
  <2>3. IsFiniteSet(A \cup B)
    BY <2>1, FS_Union
  <2>4. IsFiniteSet((A \cup B) \cup C)
    BY <2>1, <2>3, FS_Union
  <2>5. QED
    BY <2>2, <2>4, FS_Subset
<1>5. IsFiniteSet(U)
  <2> DEFINE f == [x \in E \X hs |-> req(x[1], x[2])]
  <2> HIDE DEF E, req
  <2>1. f \in Surjection(E \X hs, U)
    <3>1. \A x \in E \X hs : f[x] \in U
      BY <1>2
    <3>2. ASSUME NEW r \in U PROVE \E x \in E \X hs : f[x] = r
      <4>1. PICK i \in E, h \in hs : r = req(i, h)
        BY <1>2
      <4>2. <<i, h>> \in E \X hs /\ f[<<i, h>>] = r
        BY <4>1
      <4>3. QED
        BY <4>2
    <3> HIDE DEF U
    <3>3. f \in [E \X hs -> U]
      BY <3>1
    <3> HIDE DEF f
    <3>4. DOMAIN f = E \X hs
      BY <3>3
    <3>5. QED
      BY <3>2, <3>3, <3>4 DEF Surjection
  <2>2. IsFiniteSet(E \X hs)
    BY <1>3, <1>4, FS_Product
  <2> HIDE DEF f, U
  <2>3. QED
    BY <2>1, <2>2, FS_Surjection
<1>6. \A r \in U : /\ r.game \in Int /\ r.asOf \in Int /\ r.horizon \in hs
                   /\ r = req(r.game, r.horizon)
  <2> SUFFICES ASSUME NEW i \in E, NEW h \in hs
               PROVE  /\ req(i, h).game \in Int /\ req(i, h).asOf \in Int /\ req(i, h).horizon \in hs
                      /\ req(i, h) = req(req(i, h).game, req(i, h).horizon)
    BY <1>2
  <2>1. AsOf(c, i, h, policy) \in Int
    BY AsOfIsAnHour
  <2>2. QED
    BY <1>3, <2>1
<1> HIDE DEF U, E, req
<1>7. \A x, y \in U : <<x, y>> \in R <=> RequestBefore(c, x, y)
  BY DEF RequestOrder
<1>8. \A r \in U : HorizonRank(r.horizon) \in Int
  BY <1>1, <1>6 DEF HorizonRank
<1>9. ASSUME NEW x \in U PROVE ~RequestBefore(c, x, x)
  BY <1>6, <1>8 DEF RequestBefore
<1>10. ASSUME NEW x \in U, NEW y \in U, x # y
       PROVE  RequestBefore(c, x, y) \/ RequestBefore(c, y, x)
  <2>1. x.game # y.game \/ x.horizon # y.horizon
    BY <1>6, <1>10
  <2>2. x.horizon # y.horizon => HorizonRank(x.horizon) # HorizonRank(y.horizon)
    BY <1>1, <1>6 DEF HorizonRank
  <2>3. QED
    BY <1>6, <1>8, <2>1, <2>2 DEF RequestBefore
<1>11. ASSUME NEW x \in U, NEW y \in U, NEW z \in U, RequestBefore(c, x, y), RequestBefore(c, y, z)
       PROVE  RequestBefore(c, x, z)
  <2>1. /\ x.game \in Int /\ x.asOf \in Int /\ HorizonRank(x.horizon) \in Int
        /\ y.game \in Int /\ y.asOf \in Int /\ HorizonRank(y.horizon) \in Int
        /\ z.game \in Int /\ z.asOf \in Int /\ HorizonRank(z.horizon) \in Int
    BY <1>6, <1>8
  <2>2. QED
    BY <1>11, <2>1 DEF RequestBefore
<1> HIDE DEF R
<1>12. Ordered(U, R)
  BY <1>7, <1>9, <1>10, <1>11 DEF Ordered
<1>13. \A r \in U : r.asOf \in Int
  BY <1>6
<1>14. QED
  BY <1>5, <1>12, <1>13 DEF U, R

(* What is asked for, in the order of the cutoffs.                                     *)
AskedInOrder(s) ==
    /\ s \in Seq(Range(s)) /\ \A n \in DOMAIN s : s[n].asOf \in Int
    /\ \A n, k \in DOMAIN s : n < k => s[n].asOf <= s[k].asOf

(* The build answers its requests in the order of their cutoffs.                       *)
LEMMA RequestList ==
  ASSUME NEW c \in Corpora, NEW hs \in HorizonSets, NEW policy
  PROVE  AskedInOrder(InOrder(Requests(c, hs, policy), LAMBDA a, b : RequestBefore(c, a, b)))
<1> DEFINE S == Requests(c, hs, policy)
           R == RequestOrder(c, S)
           L == InOrder(S, LAMBDA a, b : RequestBefore(c, a, b))
           N == Cardinality(S)
<1>1. IsFiniteSet(S) /\ Ordered(S, R) /\ \A r \in S : r.asOf \in Int
  BY RequestsAre
<1> HIDE DEF S
<1>2. \A x \in S : {y \in S : RequestBefore(c, y, x)} = Before(S, R, x)
  BY DEF Before, RequestOrder
<1>3. \A x, y \in S : <<x, y>> \in R => RequestBefore(c, x, y)
  BY DEF RequestOrder
<1> HIDE DEF R
<1>4. L = [n \in 1..N |-> CHOOSE x \in S : Cardinality({y \in S : RequestBefore(c, y, x)}) = n - 1]
  BY DEF InOrder
<1>5. ASSUME NEW n \in 1..N PROVE L[n] \in S /\ Cardinality(Before(S, R, L[n])) = n - 1
  <2>1. L[n] = CHOOSE x \in S : Cardinality({y \in S : RequestBefore(c, y, x)}) = n - 1
    BY <1>4
  <2>2. ListOf(S, R)[n] \in S /\ Cardinality(Before(S, R, ListOf(S, R)[n])) = n - 1
    BY <1>1, ListIs
  <2>3. \E x \in S : Cardinality({y \in S : RequestBefore(c, y, x)}) = n - 1
    BY <1>2, <2>2
  <2> HIDE DEF L
  <2>4. L[n] \in S /\ Cardinality({y \in S : RequestBefore(c, y, L[n])}) = n - 1
    BY <2>1, <2>3
  <2>5. QED
    BY <1>2, <2>4
<1>6. L \in [1..N -> S]
  <2> DEFINE at(n) == CHOOSE x \in S : Cardinality({y \in S : RequestBefore(c, y, x)}) = n - 1
  <2>1. L = [n \in 1..N |-> at(n)]
    BY <1>4
  <2> HIDE DEF L, N, at
  <2>2. L = [n \in 1..N |-> L[n]]
    BY <2>1
  <2>3. QED
    BY <1>5, <2>2
<1> HIDE DEF L
<1>7. L = ListOf(S, R)
  BY <1>1, <1>5, <1>6, OnlyList
<1>8. L \in Seq(S) /\ \A n, k \in DOMAIN L : n < k => <<L[n], L[k]>> \in R
  BY <1>1, <1>7, ListSeq
<1>9. \A n \in DOMAIN L : L[n] \in S
  BY <1>8
<1>10. \A n, k \in DOMAIN L : n < k => L[n].asOf <= L[k].asOf
  <2> SUFFICES ASSUME NEW n \in DOMAIN L, NEW k \in DOMAIN L, n < k PROVE L[n].asOf <= L[k].asOf
    OBVIOUS
  <2>1. RequestBefore(c, L[n], L[k]) /\ L[n].asOf \in Int /\ L[k].asOf \in Int
    BY <1>1, <1>3, <1>8, <1>9
  <2>2. QED
    BY <2>1 DEF RequestBefore
<1>11. L \in Seq(Range(L))
  BY <1>8 DEF Range
<1>12. AskedInOrder(L)
  BY <1>1, <1>9, <1>10, <1>11 DEF AskedInOrder
<1>13. QED
  BY <1>12 DEF L, S

(* The records of a program among some.                                              *)
RecordsOf(done, p) == {r \in done : r.program = p}

(* The running totals are those of what was absorbed.                                  *)
AbsorbedIs(done, R) ==
    /\ absorbed = [p \in Programs(source) |-> ListOf(RecordsOf(done, p), R)]
    /\ totals = [p \in Programs(source) |->
                   [m \in Metric |-> MetricTotal(ListOf(RecordsOf(done, p), R), m)]]
    /\ population = [m \in Metric |-> MetricTotal(ListOf(done, R), m)]

(* The records waiting come after those absorbed, in their order; none that was absorbed *)
(* came after a cutoff still to be answered.                                         *)
WaitingIs(done, R) ==
    /\ waiting = ListOf(TeamGames(source) \ done, R)
    /\ \A x \in done, y \in TeamGames(source) \ done : <<x, y>> \in R
    /\ \A x \in done, n \in DOMAIN requests : x.availableAt <= requests[n].asOf

(* The inductive invariant of a build.                                                *)
ChronicleInv ==
    /\ source \in Corpora
    /\ AskedInOrder(requests)
    /\ \E done \in SUBSET TeamGames(source) :
          /\ AbsorbedIs(done, Availability(TeamGames(source)))
          /\ WaitingIs(done, Availability(TeamGames(source)))
    /\ RowSeesExactlyThePast

(* A build starts with nothing absorbed.                                             *)
LEMMA ChronicleInitSound == ChronicleInit => ChronicleInv
<1> SUFFICES ASSUME ChronicleInit PROVE ChronicleInv
  OBVIOUS
<1>1. PICK c \in Corpora : \E horizons \in HorizonSets, policy \in MorningPolicies :
        /\ source = c
        /\ requests = InOrder(Requests(c, horizons, policy),
                                   LAMBDA a, b : RequestBefore(c, a, b))
        /\ waiting = InOrder(TeamGames(c), AvailableBefore)
        /\ absorbed = [p \in Programs(c) |-> <<>>]
        /\ totals = [p \in Programs(c) |-> [m \in Metric |-> NoTotal]]
        /\ population = [m \in Metric |-> NoTotal]
        /\ featureRows = {}
  BY DEF ChronicleInit
<1>2. source = c
  BY <1>1
<1> DEFINE R == Availability(TeamGames(source))
<1>3. AskedInOrder(requests)
  BY <1>1, RequestList
<1>4. IsFiniteSet({}) /\ Ordered({}, R)
  BY FS_EmptySet DEF Ordered
<1>5. ListOf({}, R) = <<>>
  BY <1>4, ListEmpty
<1>6. \A m : MetricTotal(<<>>, m) = NoTotal
  <2> SUFFICES ASSUME NEW m PROVE MetricTotal(<<>>, m) = NoTotal
    OBVIOUS
  <2> DEFINE s == [n \in DOMAIN <<>> |-> <<>>[n].metric[m]]
  <2>1. DOMAIN s = {}
    OBVIOUS
  <2> HIDE DEF s
  <2>2. Places({})
    BY FS_EmptySet DEF Places
  <2>3. PICK g : Steps(s, {}, g) /\ TotalOf(s) = g[{}]
    BY <2>1, <2>2, StepsExist, TotalOfDef
  <2>4. g[{}] = NoTotal
    BY <2>3, StepsAt
  <2>5. QED
    BY <2>3, <2>4 DEF MetricTotal, s
<1>7. AbsorbedIs({}, R)
  <2>1. \A p : RecordsOf({}, p) = {}
    BY DEF RecordsOf
  <2> HIDE DEF R
  <2>2. /\ absorbed = [p \in Programs(source) |-> ListOf(RecordsOf({}, p), R)]
        /\ totals = [p \in Programs(source) |->
                       [m \in Metric |-> MetricTotal(ListOf(RecordsOf({}, p), R), m)]]
        /\ population = [m \in Metric |-> MetricTotal(ListOf({}, R), m)]
    <3>1. \A p : ListOf(RecordsOf({}, p), R) = <<>>
      BY <1>5, <2>1
    <3>2. \A p, m : MetricTotal(ListOf(RecordsOf({}, p), R), m) = NoTotal
      BY <1>6, <3>1
    <3>3. \A m : MetricTotal(ListOf({}, R), m) = NoTotal
      BY <1>5, <1>6
    <3>4. /\ absorbed = [p \in Programs(source) |-> <<>>]
          /\ totals = [p \in Programs(source) |-> [m \in Metric |-> NoTotal]]
          /\ population = [m \in Metric |-> NoTotal]
      BY <1>1, <1>2
    <3>5. absorbed = [p \in Programs(source) |-> ListOf(RecordsOf({}, p), R)]
      BY <3>1, <3>4
    <3>6. population = [m \in Metric |-> MetricTotal(ListOf({}, R), m)]
      BY <3>3, <3>4
    <3>7. totals = [p \in Programs(source) |->
                       [m \in Metric |-> MetricTotal(ListOf(RecordsOf({}, p), R), m)]]
      BY <3>2, <3>4
    <3>8. QED
      BY <3>5, <3>6, <3>7
  <2>3. QED
    BY <2>2 DEF AbsorbedIs
<1>8. WaitingIs({}, R)
  <2>1. TeamGames(source) \ {} = TeamGames(source)
    OBVIOUS
  <2>2. waiting = ListOf(TeamGames(source), R)
    BY <1>1, AvailableList
  <2> HIDE DEF R
  <2>3. QED
    BY <2>1, <2>2 DEF WaitingIs
<1>9. RowSeesExactlyThePast
  BY <1>1 DEF RowSeesExactlyThePast
<1>10. QED
  BY <1>2, <1>3, <1>7, <1>8, <1>9 DEF ChronicleInv

(* What is absorbed is the next record to become available.                            *)
LEMMA AbsorbKeeps == ChronicleInv /\ Absorb => ChronicleInv'
<1> SUFFICES ASSUME ChronicleInv, Absorb PROVE ChronicleInv'
  OBVIOUS
<1> DEFINE U == TeamGames(source)
           R == Availability(U)
           r == Head(waiting)
<1>1. PICK done \in SUBSET U : AbsorbedIs(done, R) /\ WaitingIs(done, R)
  BY DEF ChronicleInv
<1> DEFINE next == done \cup {r}
           left == U \ done
<1>2. source \in Corpora /\ source' = source /\ requests' = requests /\ requests # <<>>
      /\ featureRows' = featureRows /\ waiting # <<>> /\ r.availableAt <= Head(requests).asOf
      /\ waiting' = Tail(waiting)
  BY DEF Absorb, Due, ChronicleInv
<1>3. IsFiniteSet(left) /\ Ordered(left, R) /\ IsFiniteSet(U) /\ Ordered(U, R)
  BY <1>2, AvailableList, TeamGamesAre, AvailabilityOrders
<1>4. /\ r \in left /\ \A y \in left \ {r} : <<r, y>> \in R
      /\ Tail(waiting) = ListOf(left \ {r}, R)
  <2>1. waiting = ListOf(left, R)
    BY <1>1 DEF WaitingIs
  <2>2. r = Head(ListOf(left, R)) /\ ListOf(left, R) # <<>>
    BY <1>2, <2>1
  <2> HIDE DEF R, left, r
  <2>3. r \in left /\ (\A y \in left \ {r} : <<r, y>> \in R)
        /\ Tail(ListOf(left, R)) = ListOf(left \ {r}, R)
    BY <1>3, <2>2, ListTail
  <2>4. QED
    BY <2>1, <2>3
<1>5. /\ r.program \in Programs(source) /\ r.availableAt \in Int
  BY <1>2, <1>4, TeamGamesAre
<1>6. U \ next = left \ {r} /\ next \in SUBSET U /\ r \notin done /\ \A x \in done : <<x, r>> \in R
  BY <1>1, <1>4 DEF WaitingIs
<1>7. ASSUME NEW S, S \subseteq done PROVE ListOf(S \cup {r}, R) = Append(ListOf(S, R), r)
  <2>1. S \cup {r} \subseteq U /\ S \subseteq U /\ r \notin S /\ \A x \in S : <<x, r>> \in R
    BY <1>6, <1>7
  <2>2. IsFiniteSet(S) /\ Ordered(S \cup {r}, R)
    BY <1>2, <2>1, AvailableList
  <2> HIDE DEF R, r
  <2>3. QED
    BY <2>1, <2>2, ListAppend
<1>8. ASSUME NEW S, S \subseteq done PROVE ListOf(S, R) \in Seq(S)
  <2>1. S \subseteq U
    BY <1>8
  <2>2. IsFiniteSet(S) /\ Ordered(S, R)
    BY <1>2, <2>1, AvailableList
  <2> HIDE DEF R
  <2>3. QED
    BY <2>2, ListSeq
<1>9. \A p : RecordsOf(next, p) = IF p = r.program THEN RecordsOf(done, p) \cup {r} ELSE RecordsOf(done, p)
  BY DEF RecordsOf
<1>10. \A p : RecordsOf(done, p) \subseteq done
  BY DEF RecordsOf
<1>11. absorbed' = [p \in Programs(source) |-> ListOf(RecordsOf(next, p), R)]
  <2>1. absorbed' = [absorbed EXCEPT ![r.program] = Append(@, r)]
    BY DEF Absorb
  <2>2. absorbed = [p \in Programs(source) |-> ListOf(RecordsOf(done, p), R)]
    BY <1>1 DEF AbsorbedIs
  <2>3. \A p : ListOf(RecordsOf(next, p), R) = IF p = r.program THEN Append(ListOf(RecordsOf(done, p), R), r)
                                               ELSE ListOf(RecordsOf(done, p), R)
    BY <1>7, <1>9, <1>10
  <2> HIDE DEF R, r, next
  <2>4. QED
    BY <1>5, <2>1, <2>2, <2>3
<1>12. totals' = [p \in Programs(source) |-> [m \in Metric |-> MetricTotal(ListOf(RecordsOf(next, p), R), m)]]
  <2>1. totals' = [totals EXCEPT ![r.program] = [m \in Metric |-> Plus(@[m], r.metric[m])]]
    BY DEF Absorb
  <2>2. totals = [p \in Programs(source) |-> [m \in Metric |-> MetricTotal(ListOf(RecordsOf(done, p), R), m)]]
    BY <1>1 DEF AbsorbedIs
  <2>3. \A p, m : MetricTotal(ListOf(RecordsOf(next, p), R), m)
                    = IF p = r.program THEN Plus(MetricTotal(ListOf(RecordsOf(done, p), R), m), r.metric[m])
                      ELSE MetricTotal(ListOf(RecordsOf(done, p), R), m)
    <3> SUFFICES ASSUME NEW p, NEW m
                 PROVE  MetricTotal(ListOf(RecordsOf(next, p), R), m)
                    = IF p = r.program THEN Plus(MetricTotal(ListOf(RecordsOf(done, p), R), m), r.metric[m])
                      ELSE MetricTotal(ListOf(RecordsOf(done, p), R), m)
      OBVIOUS
    <3> DEFINE S == RecordsOf(done, p)
    <3>1. ListOf(S, R) \in Seq(S) /\ ListOf(S \cup {r}, R) = Append(ListOf(S, R), r)
      BY <1>7, <1>8, <1>10
    <3>2. MetricTotal(Append(ListOf(S, R), r), m) = Plus(MetricTotal(ListOf(S, R), m), r.metric[m])
      BY <3>1, MetricTotalAppend
    <3>3. RecordsOf(next, p) = IF p = r.program THEN S \cup {r} ELSE S
      BY <1>9
    <3> HIDE DEF S, R, r, next
    <3>4. MetricTotal(ListOf(RecordsOf(next, p), R), m)
                    = IF p = r.program THEN Plus(MetricTotal(ListOf(S, R), m), r.metric[m])
                      ELSE MetricTotal(ListOf(S, R), m)
      BY <3>1, <3>2, <3>3
    <3>5. QED
      BY <3>4 DEF S
  <2> HIDE DEF R, r, next
  <2>4. QED
    BY <1>5, <2>1, <2>2, <2>3
<1>13. population' = [m \in Metric |-> MetricTotal(ListOf(next, R), m)]
  <2>1. population' = [m \in Metric |-> Plus(population[m], r.metric[m])]
    BY DEF Absorb
  <2>2. population = [m \in Metric |-> MetricTotal(ListOf(done, R), m)]
    BY <1>1 DEF AbsorbedIs
  <2>3. ListOf(done, R) \in Seq(done) /\ ListOf(next, R) = Append(ListOf(done, R), r)
    BY <1>7, <1>8
  <2>4. \A m : MetricTotal(ListOf(next, R), m) = Plus(MetricTotal(ListOf(done, R), m), r.metric[m])
    BY <2>3, MetricTotalAppend
  <2> HIDE DEF R, r, next
  <2>5. QED
    BY <2>1, <2>2, <2>4
<1>14. \A x \in next, n \in DOMAIN requests : x.availableAt <= requests[n].asOf
  <2> SUFFICES ASSUME NEW n \in DOMAIN requests PROVE r.availableAt <= requests[n].asOf
    BY <1>1 DEF WaitingIs
  <2>1. AskedInOrder(requests)
    BY DEF ChronicleInv
  <2>2. DOMAIN requests = 1..Len(requests) /\ 1 \in DOMAIN requests /\ Head(requests) = requests[1]
    BY <1>2, <2>1 DEF AskedInOrder
  <2>3. requests[1].asOf \in Int /\ requests[n].asOf \in Int /\ requests[1].asOf <= requests[n].asOf
    BY <2>1, <2>2 DEF AskedInOrder
  <2> HIDE DEF r
  <2>4. QED
    BY <1>2, <1>5, <2>2, <2>3
<1>15. \A x \in next, y \in U \ next : <<x, y>> \in R
  BY <1>1, <1>4, <1>6 DEF WaitingIs
<1>16. PICK seen, order : seen = next /\ order = R
  OBVIOUS
<1>17. WaitingIs(seen, order)'
  <2>1. waiting' = ListOf(TeamGames(source') \ seen, order)
    <3>1. TeamGames(source') \ seen = left \ {r}
      BY <1>2, <1>6, <1>16
    <3> HIDE DEF r, R, left, next
    <3>2. QED
      BY <1>2, <1>4, <1>16, <3>1
  <2>2. \A x \in seen, y \in TeamGames(source') \ seen : <<x, y>> \in order
    BY <1>2, <1>15, <1>16
  <2>3. \A x \in seen, n \in DOMAIN requests' : x.availableAt <= requests'[n].asOf
    BY <1>2, <1>14, <1>16
  <2> HIDE DEF r, R, left, next
  <2>4. QED
    BY <2>1, <2>2, <2>3 DEF WaitingIs
<1>18. AbsorbedIs(seen, order)'
  <2> HIDE DEF r, R, next
  <2>1. QED
    BY <1>2, <1>11, <1>12, <1>13, <1>16 DEF AbsorbedIs
<1>19. seen \in SUBSET TeamGames(source)' /\ order = Availability(TeamGames(source))'
  BY <1>2, <1>6, <1>16
<1>20. RowSeesExactlyThePast'
  BY <1>2 DEF RowSeesExactlyThePast, ChronicleInv
<1>21. AskedInOrder(requests)' /\ source' \in Corpora
  BY <1>2 DEF ChronicleInv
<1> HIDE DEF r, R, next, U, left
<1>22. QED
  BY <1>17, <1>18, <1>19, <1>20, <1>21 DEF ChronicleInv

(* A row is answered when everything that was available at its cutoff is absorbed, and    *)
(* nothing else is.                                                                *)
LEMMA EmitRowKeeps == ChronicleInv /\ EmitRow => ChronicleInv'
<1> SUFFICES ASSUME ChronicleInv, EmitRow PROVE ChronicleInv'
  OBVIOUS
<1> DEFINE U == TeamGames(source)
           R == Availability(U)
           q == Head(requests)
           row == FeatureRow(source, q, absorbed, totals, population)
<1>1. PICK done \in SUBSET U : AbsorbedIs(done, R) /\ WaitingIs(done, R)
  BY DEF ChronicleInv
<1>2. source \in Corpora /\ source' = source /\ requests' = Tail(requests) /\ requests # <<>>
      /\ featureRows' = featureRows \cup {row} /\ waiting' = waiting /\ absorbed' = absorbed
      /\ totals' = totals /\ population' = population
      /\ (waiting = <<>> \/ ~(Head(waiting).availableAt <= q.asOf))
  BY DEF EmitRow, Due, ChronicleInv
<1>3. AskedInOrder(requests)
  BY DEF ChronicleInv
<1>4. /\ requests \in Seq(Range(requests)) /\ DOMAIN requests = 1..Len(requests)
      /\ 1 \in DOMAIN requests /\ q = requests[1] /\ q.asOf \in Int
  BY <1>2, <1>3 DEF AskedInOrder
<1>5. AskedInOrder(Tail(requests))
      /\ \A n \in DOMAIN Tail(requests) : n + 1 \in DOMAIN requests /\ Tail(requests)[n] = requests[n + 1]
  <2> DEFINE s == requests
             t == Tail(requests)
  <2>1. /\ t \in Seq(Range(s)) /\ DOMAIN t = 1..Len(t)
        /\ \A n \in DOMAIN t : n \in Nat /\ n + 1 \in DOMAIN s /\ t[n] = s[n + 1]
    BY <1>2, <1>4
  <2>2. t \in Seq(Range(t))
    <3> HIDE DEF t
    <3>1. \A n \in 1..Len(t) : t[n] \in Range(t)
      BY <2>1 DEF Range
    <3>2. Len(t) \in Nat /\ t = [n \in 1..Len(t) |-> t[n]]
      BY <2>1
    <3>3. QED
      BY <3>1, <3>2
  <2> HIDE DEF s, t
  <2>3. (\A n \in DOMAIN t : t[n].asOf \in Int)
        /\ \A n, k \in DOMAIN t : n < k => t[n].asOf <= t[k].asOf
    <3>1. \A n \in DOMAIN s : s[n].asOf \in Int
      BY <1>3 DEF AskedInOrder, s
    <3>2. \A n, k \in DOMAIN s : n < k => s[n].asOf <= s[k].asOf
      BY <1>3 DEF AskedInOrder, s
    <3>3. \A n \in DOMAIN t : n \in Nat /\ n + 1 \in DOMAIN s /\ t[n] = s[n + 1]
      BY <2>1
    <3>4. ASSUME NEW n \in DOMAIN t, NEW k \in DOMAIN t, n < k PROVE t[n].asOf <= t[k].asOf
      <4>1. n + 1 < k + 1
        BY <3>3, <3>4
      <4>2. s[n + 1].asOf <= s[k + 1].asOf
        BY <3>2, <3>3, <4>1
      <4>3. t[n] = s[n + 1] /\ t[k] = s[k + 1]
        BY <3>3
      <4>4. QED
        BY <4>2, <4>3
    <3>5. QED
      BY <3>1, <3>3, <3>4
  <2>4. QED
    BY <2>1, <2>2, <2>3 DEF AskedInOrder, s, t
<1>6. U \in SUBSET U /\ \A x \in U : x.availableAt \in Int
  BY <1>2, TeamGamesAre
<1>7. done = PastOf(source, q.asOf)
  <2>1. \A x \in done : x.availableAt <= q.asOf
    BY <1>1, <1>4 DEF WaitingIs
  <2>2. ASSUME NEW y \in U \ done PROVE ~(y.availableAt <= q.asOf)
    <3> DEFINE left == U \ done
               h == Head(waiting)
    <3>1. IsFiniteSet(left) /\ Ordered(left, R) /\ waiting = ListOf(left, R)
      BY <1>1, <1>2, AvailableList DEF WaitingIs
    <3> HIDE DEF R
    <3>2. waiting # <<>>
      BY <2>2, <3>1, ListEmpty
    <3>3. h \in left /\ \A x \in left \ {h} : <<h, x>> \in R
      BY <3>1, <3>2, ListTail
    <3>4. h.availableAt <= y.availableAt
      <4>1. CASE y = h
        BY <1>6, <4>1
      <4>2. CASE y # h
        <5>1. AvailableBefore(h, y)
          BY <3>3, <4>2 DEF R, Availability
        <5>2. h.availableAt \in Int /\ y.availableAt \in Int
          BY <1>6, <3>3
        <5>3. QED
          BY <5>1, <5>2 DEF AvailableBefore
      <4>3. QED
        BY <4>1, <4>2
    <3>5. h.availableAt \in Int /\ y.availableAt \in Int /\ ~(h.availableAt <= q.asOf)
      BY <1>2, <1>6, <3>2, <3>3
    <3> HIDE DEF h, q
    <3>6. QED
      BY <1>4, <3>4, <3>5
  <2>3. QED
    BY <2>1, <2>2 DEF PastOf
<1>8. ASSUME NEW S, S \subseteq done PROVE InOrder(S, AvailableBefore) = ListOf(S, R)
  <2>1. S \subseteq U
    BY <1>8
  <2>2. QED
    BY <1>2, <2>1, AvailableList
<1>9. absorbed = PastRecords(source, q.asOf)
  <2>1. \A p : InOrder({r \in PastOf(source, q.asOf) : r.program = p}, AvailableBefore)
                 = ListOf(RecordsOf(done, p), R)
    <3> SUFFICES ASSUME NEW p
                 PROVE  InOrder({r \in PastOf(source, q.asOf) : r.program = p}, AvailableBefore)
                          = ListOf(RecordsOf(done, p), R)
      OBVIOUS
    <3>1. {r \in PastOf(source, q.asOf) : r.program = p} = RecordsOf(done, p)
      BY <1>7 DEF RecordsOf
    <3>2. RecordsOf(done, p) \subseteq done
      BY DEF RecordsOf
    <3>3. InOrder(RecordsOf(done, p), AvailableBefore) = ListOf(RecordsOf(done, p), R)
      BY <1>8, <3>2
    <3>4. QED
      BY <3>1, <3>3
  <2>2. QED
    BY <1>1, <2>1 DEF AbsorbedIs, PastRecords
<1>10. totals = PastTotals(source, q.asOf)
  <2>1. \A p \in Programs(source) : absorbed[p] = ListOf(RecordsOf(done, p), R)
    BY <1>1 DEF AbsorbedIs
  <2>2. QED
    BY <1>1, <1>9, <2>1 DEF AbsorbedIs, PastTotals
<1>11. population = PastPopulation(source, q.asOf)
  <2>1. InOrder(PastOf(source, q.asOf), AvailableBefore) = ListOf(done, R)
    BY <1>7, <1>8
  <2>2. QED
    BY <1>1, <2>1 DEF AbsorbedIs, PastPopulation
<1>12. row = FeatureRow(source, row.request, PastRecords(source, row.request.asOf),
                       PastTotals(source, row.request.asOf), PastPopulation(source, row.request.asOf))
  <2>1. row.request = q
    BY DEF FeatureRow
  <2>2. row = FeatureRow(source, q, PastRecords(source, q.asOf),
                       PastTotals(source, q.asOf), PastPopulation(source, q.asOf))
    BY <1>9, <1>10, <1>11
  <2> HIDE DEF row
  <2>3. QED
    BY <2>1, <2>2
<1>13. RowSeesExactlyThePast'
  <2> HIDE DEF row
  <2>1. QED
    BY <1>2, <1>12 DEF RowSeesExactlyThePast, ChronicleInv
<1>14. WaitingIs(done, R)'
  <2>1. \A x \in done, n \in DOMAIN Tail(requests) : x.availableAt <= Tail(requests)[n].asOf
    BY <1>1, <1>5 DEF WaitingIs
  <2>2. QED
    BY <1>1, <1>2, <2>1 DEF WaitingIs
<1>15. AbsorbedIs(done, R)'
  BY <1>1, <1>2 DEF AbsorbedIs
<1>16. QED
  BY <1>2, <1>5, <1>13, <1>14, <1>15 DEF ChronicleInv

(* Every row of every build is the row that somebody would compute who had exactly the     *)
(* games available at its cutoff (build_feature_rows).                                *)
THEOREM RowsSeeExactlyThePast == ChronicleSpec => []RowSeesExactlyThePast
<1>1. ChronicleInv /\ [ChronicleNext]_chronicleVars => ChronicleInv'
  <2>1. ChronicleInv /\ UNCHANGED chronicleVars => ChronicleInv'
    BY DEF ChronicleInv, chronicleVars, AbsorbedIs, WaitingIs, RowSeesExactlyThePast
  <2>2. QED
    BY <2>1, AbsorbKeeps, EmitRowKeeps DEF ChronicleNext
<1>2. ChronicleInv => RowSeesExactlyThePast
  BY DEF ChronicleInv
<1>3. QED
  BY <1>1, <1>2, ChronicleInitSound, PTL DEF ChronicleSpec
=============================================================================
