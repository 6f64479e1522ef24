----------------------------- MODULE NcaafHistory -----------------------------
(* The college football history: a command asks the provider for the products   *)
(* of a season, keeps every answer as an immutable file and a manifest, and       *)
(* derives programs, events and game facts from it in the transaction of the      *)
(* manifest. A later run answers from the files, or asks again and supersedes      *)
(* what was corrected. A build then joins the files with the facts.                *)
(*                                                                                *)
(* One season; the two products that carry identity and results, in the order     *)
(* the command asks for them. Files may be lost between runs.                      *)
EXTENDS Integers, FiniteSets, Sequences, FiniteSetsExt

CONSTANTS
    TeamAnswers,    \* what the provider may answer for the teams: sets of teams
    GameAnswers,    \* and for the games: functions from game to record
    Unknown,        \* no value
    MaxRuns, MaxLost    \* bounds

VARIABLES
    manifests,      \* stored answers, in the order of retrieval: [product, content]
    archive,        \* the answers whose file is there
    programs,       \* teams that have a program
    event,          \* event[g]: the event g is mapped to, or Unknown
    facts,          \* game facts, in the order of creation
    ingestion,      \* the running command
    returned,       \* the manifests its last complete run answered with
    rowsBuilt,      \* the games table of the last build
    runsStarted, filesLost

historyVars == <<manifests, archive, programs, event, facts, ingestion, returned,
                 rowsBuilt, runsStarted, filesLost>>

Products == <<"teams", "games">>
Game == UNION {DOMAIN a : a \in GameAnswers}
Answers(p) == IF p = "teams" THEN TeamAnswers ELSE GameAnswers

\* games are sorted by their numbers, an answer lists finitely many, and Unknown is neither a
\* position nor an event
ASSUME HistoryAssumption ==
    /\ Game \subseteq Int
    /\ \A a \in GameAnswers : IsFiniteSet(DOMAIN a)
    /\ Unknown \notin Int /\ Unknown \notin Game \X Nat

AtRest == [pc |-> "idle"]
NoTable == [rows |-> {}, usable |-> TRUE]

HistoryInit ==
    /\ manifests = <<>>
    /\ archive = {}
    /\ programs = {}
    /\ event = [g \in Game |-> Unknown]
    /\ facts = <<>>
    /\ ingestion = AtRest
    /\ returned = {}
    /\ rowsBuilt = NoTable
    /\ runsStarted = 0
    /\ filesLost = 0

-----------------------------------------------------------------------------
(* What a record says of a game. *)

ProgramOf(known, team) == IF team \in known THEN team ELSE Unknown

GameEligibility(record, known) ==
    LET home == ProgramOf(known, record.home)
        away == ProgramOf(known, record.away)
        resolved == home # Unknown /\ away # Unknown
    IN  IF resolved /\ record.completed /\ record.homePoints # Unknown
            THEN [eligible |-> TRUE, target |-> record.homePoints - record.awayPoints]
            ELSE [eligible |-> FALSE, target |-> Unknown]

EventForManifest(g, record, known, mapped) ==
    IF ProgramOf(known, record.home) = Unknown \/ ProgramOf(known, record.away) = Unknown
        THEN Unknown
        ELSE <<g, Len(manifests)>>

\* an event is made for a game once both of its programs are known
EventFor(g, record, known, mapped) ==
    IF mapped[g] # Unknown THEN mapped[g]
    ELSE IF ProgramOf(known, record.home) = Unknown \/ ProgramOf(known, record.away) = Unknown
            THEN Unknown
            ELSE <<g, Len(manifests)>>

-----------------------------------------------------------------------------
(* Manifests. *)

Positions(p) == {n \in DOMAIN manifests : manifests[n].product = p}
HasManifest(p) == Positions(p) # {}
LatestManifest(p) == Max(Positions(p))
SameManifest(p, content) == {n \in Positions(p) : manifests[n].content = content}
Readable(n) == <<manifests[n].product, manifests[n].content>> \in archive

Fact(n, g, record, known, mapped) ==
    [manifest |-> n, game |-> g,
     home |-> ProgramOf(known, record.home), away |-> ProgramOf(known, record.away),
     verdict |-> GameEligibility(record, known),
     event |-> EventFor(g, record, known, mapped)]

\* existing facts of the manifest are brought up to date, missing ones are added
RefreshedSkippingKnown(n, content) == facts

Refreshed(n, content) ==
    [k \in DOMAIN facts |->
        IF facts[k].manifest = n /\ facts[k].game \in DOMAIN content
            THEN LET fresh == Fact(n, facts[k].game, content[facts[k].game], programs, event)
                 IN  [fresh EXCEPT !.event = IF facts[k].event = Unknown THEN @ ELSE facts[k].event]
            ELSE facts[k]]

AddedFacts(n, content) ==
    LET new == {g \in DOMAIN content : ~\E k \in DOMAIN facts :
                    facts[k].manifest = n /\ facts[k].game = g}
    IN  [k \in 1 .. Cardinality(new) |->
            LET g == CHOOSE x \in new : Cardinality({y \in new : y < x}) = k - 1
            IN  Fact(n, g, content[g], programs, event)]

\* a team gets its program once, and keeps it: no answer takes one away
UpsertPrograms(content) ==
    /\ programs' = programs \cup content
    /\ UNCHANGED <<facts, event>>

IngestGames(n, content) ==
    /\ facts' = Refreshed(n, content) \o AddedFacts(n, content)
    /\ event' = [g \in Game |->
            IF g \in DOMAIN content THEN EventFor(g, content[g], programs, event) ELSE event[g]]
    /\ UNCHANGED programs

\* the derived rows of manifest n, whose answer is content
Normalize(n, p, content) ==
    IF p = "teams" THEN UpsertPrograms(content) ELSE IngestGames(n, content)

-----------------------------------------------------------------------------
(* The command. *)

StartIngestion ==
    /\ ingestion.pc = "idle"
    /\ runsStarted < MaxRuns
    /\ \E refresh \in BOOLEAN :
        ingestion' = [pc |-> "asking", todo |-> Products, refresh |-> refresh, got |-> {},
                      content |-> Unknown]
    /\ runsStarted' = runsStarted + 1
    /\ returned' = {}
    /\ UNCHANGED <<manifests, archive, programs, event, facts, rowsBuilt, filesLost>>

\* the request is done and manifest n was its answer
Proceed(n) ==
    LET left == Tail(ingestion.todo)
        got == ingestion.got \cup {n}
    IN  IF left = <<>>
            THEN ingestion' = AtRest /\ returned' = got
            ELSE /\ ingestion' = [ingestion EXCEPT !.pc = "asking", !.todo = left, !.got = got,
                                               !.content = Unknown]
                 /\ UNCHANGED returned

FromFile(p) == ~ingestion.refresh /\ HasManifest(p) /\ Readable(LatestManifest(p))

AnswerFromFile ==
    /\ ingestion.pc = "asking"
    /\ LET p == Head(ingestion.todo) IN
        /\ FromFile(p)
        /\ Normalize(LatestManifest(p), p, manifests[LatestManifest(p)].content)
        /\ Proceed(LatestManifest(p))
    /\ UNCHANGED <<manifests, archive, rowsBuilt, runsStarted, filesLost>>

AskProvider ==
    /\ ingestion.pc = "asking"
    /\ LET p == Head(ingestion.todo) IN
        /\ ~FromFile(p)
        /\ \E content \in Answers(p) :
            ingestion' = [ingestion EXCEPT !.pc = "answered", !.content = content]
    /\ UNCHANGED <<manifests, archive, programs, event, facts, returned, rowsBuilt,
                   runsStarted, filesLost>>

\* the file is written before the transaction commits; an answer that has a manifest
\* puts its file back when it is gone
KeptOnce(p, content) ==
    IF SameManifest(p, content) # {} THEN archive ELSE archive \cup {<<p, content>>}

Kept(p, content) == archive \cup {<<p, content>>}
StoreAnswer ==
    /\ ingestion.pc = "answered"
    /\ archive' = Kept(Head(ingestion.todo), ingestion.content)
    /\ ingestion' = [ingestion EXCEPT !.pc = "stored"]
    /\ UNCHANGED <<manifests, programs, event, facts, returned, rowsBuilt, runsStarted, filesLost>>

\* one transaction: the manifest, unless there is one, and all that is derived from it
CommitAnswer ==
    /\ ingestion.pc = "stored"
    /\ LET p == Head(ingestion.todo)
           same == SameManifest(p, ingestion.content)
           n == IF same # {} THEN Max(same) ELSE Len(manifests) + 1
       IN  /\ manifests' = IF same # {} THEN manifests
                           ELSE Append(manifests, [product |-> p, content |-> ingestion.content])
           /\ Normalize(n, p, ingestion.content)
           /\ Proceed(n)
    /\ UNCHANGED <<archive, rowsBuilt, runsStarted, filesLost>>

\* the provider fails, or the process stops, at any moment of a run
StopIngestion ==
    /\ ingestion.pc # "idle"
    /\ ingestion' = AtRest
    /\ UNCHANGED <<manifests, archive, programs, event, facts, returned, rowsBuilt,
                   runsStarted, filesLost>>

LoseFile ==
    /\ ingestion.pc = "idle"
    /\ filesLost < MaxLost
    /\ filesLost' = filesLost + 1
    /\ \E file \in archive :
        /\ archive' = archive \ {file}
        /\ returned' = {n \in returned : <<manifests[n].product, manifests[n].content>> # file}
    /\ UNCHANGED <<manifests, programs, event, facts, ingestion, rowsBuilt, runsStarted>>

-----------------------------------------------------------------------------
(* The build of the games table. *)

LatestFactFirstCreated(g) ==
    LET mine == {k \in DOMAIN facts : facts[k].game = g} IN
    IF mine = {} THEN Unknown ELSE Min(mine)

LatestFact(g) ==
    LET mine == {k \in DOMAIN facts : facts[k].game = g} IN
    IF mine = {} THEN Unknown ELSE Max(mine)

GameRow(g, record) ==
    LET k == LatestFact(g) IN
    [game |-> g, record |-> record,
     home |-> ProgramOf(programs, record.home), away |-> ProgramOf(programs, record.away),
     event |-> IF k = Unknown THEN Unknown ELSE facts[k].event,
     verdict |-> IF k = Unknown THEN [eligible |-> FALSE, target |-> Unknown]
                                ELSE facts[k].verdict]

BuildCorpus ==
    /\ ingestion.pc = "idle"
    /\ HasManifest("games")
    /\ LET n == LatestManifest("games") IN
        rowsBuilt' = IF Readable(n)
            THEN [rows |-> {GameRow(g, manifests[n].content[g]) : g \in DOMAIN manifests[n].content},
                  usable |-> TRUE]
            ELSE [rows |-> {}, usable |-> FALSE]
    /\ UNCHANGED <<manifests, archive, programs, event, facts, ingestion, returned,
                   runsStarted, filesLost>>

HistoryNext ==
    \/ StartIngestion \/ AnswerFromFile \/ AskProvider \/ StoreAnswer \/ CommitAnswer
    \/ StopIngestion \/ LoseFile \/ BuildCorpus

HistorySpec == HistoryInit /\ [][HistoryNext]_historyVars

-----------------------------------------------------------------------------
(* What the history promises. *)

\* A row of the corpus tells one story although its score comes from the newest file and its
\* target from the newest fact: when it is eligible, the target is the difference of that very
\* score, both programs are known and the game has an event; corrections, reverts and runs that
\* stopped half way included (normalize.py _latest_manifests and _latest_game_facts).
RowsTellOneStory ==
    \A row \in rowsBuilt.rows :
        row.verdict.eligible =>
            /\ row.verdict.target = row.record.homePoints - row.record.awayPoints
            /\ row.home # Unknown /\ row.away # Unknown
            /\ row.event # Unknown

\* A game is one event for good: corrected answers and identities resolved later add facts, not
\* events (ncaaf_repository.py _event_for_game).
OneEventPerGame ==
    \A j, k \in DOMAIN facts :
        (facts[j].game = facts[k].game /\ facts[j].event # Unknown /\ facts[k].event # Unknown)
            => facts[j].event = facts[k].event

\* The corpus is sound: rows of one story, games of one event (build_corpus, ingest_games).
CorpusSound == RowsTellOneStory /\ OneEventPerGame

\* What a complete run answered with can be read again, files lost before it included
\* (ncaaf_ingestion_service.py:52, the restored artifact).
AnswersReadable == \A n \in returned : Readable(n)

\* A complete run leaves the facts of the games it answered with as they would be computed
\* now: one that was ingested before its programs were known is eligible after the next run
\* that knows them (ncaaf_repository.py ingest_games, the existing fact).
RerunHeals ==
    ingestion.pc = "idle" =>
        \A n \in returned : \A k \in DOMAIN facts :
            facts[k].manifest = n =>
                facts[k].verdict =
                    GameEligibility(manifests[n].content[facts[k].game], programs)

\* A complete run leaves nothing to be done again: its answers can be read and its facts are
\* those of today's identities (NcaafIngestionService.ingest).
RunsHeal == AnswersReadable /\ RerunHeals
=============================================================================
