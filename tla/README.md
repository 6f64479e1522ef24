# POLARIS: a TLA+ verification project

POLARIS is a FastAPI backend for sports-betting research with *paper* money: it
collects odds, prices events, sizes recommendations under a risk policy, keeps
an auditable paper portfolio in PostgreSQL (SQLite in tests), and feeds a
research pipeline over college football history with a sealed holdout season.
This directory holds TLA+ models of it, the TLC configurations that check them on
small instances, and TLAPS proofs of what matters most for every instance.

The modules are written from the code under `src/app`; `PROJECT.json` maps each
definition to the lines it stands for, lists the runs, the hazards and the
theorems, and names for every checked property a *mutant*: a plausible bug in a
mapped definition under which TLC finds the property violated. Mutants are
defined just before the definition they replace and are marked `Mutant:`; no
specification uses them.

    tlc -workers 2 -config MCPortfolioLedger.cfg MCPortfolioLedger
    tlapm PortfolioLedgerProofs.tla

## 1. Inventory

### Components, their state and operations

| Component | Source (under `src/app`) | State it keeps | Operations | Modelled in |
|---|---|---|---|---|
| Portfolio ledger | `persistence/sqlalchemy_repository.py`, `db/models.py` | owners, portfolios, bets, ledger_entries, idempotency_records | `ensure_owner`, `get_portfolio`, `place_bet`, `settle_bet`, `get_stats` | `Account`, `PortfolioLedger`, `MutationTxn`, `PortfolioReads` |
| Recommendation decisions | `persistence/recommendation_repository.py` | recommendation_decision_runs, recommendations, parlay rows | `portfolio_snapshot`, `persist_decision`, `reject`, `approve`, list reads | `ApprovalRisk`, `PortfolioLedger`, `MutationTxn`, `MarketRefresh` |
| Portfolio construction engine | `domain/portfolio_engine.py` | none (pure) | `portfolio_state`, `evaluate_candidate`, `construct_portfolio`, `optimize_parlay` | `DecisionEngine`, `Qualification` (partly) |
| Recommendation service | `services/recommendation_service.py` | none | snapshot, price, decide, persist | `PortfolioReads`, `MarketRefresh` (partly) |
| Market refresh | `services/market_refresh_service.py`, `odds_service.py` | a process-local lock | `refresh`: fetch, ingest, analyze | `MarketRefresh` |
| Odds provider client | `providers/odds_api.py` | a time-to-live cache, quota | fetch with retries and backoff | `MarketRefresh` |
| Market ingestion and event identity | `persistence/market_repository.py`, `services/market_ingestion_service.py` | market_snapshots, canonical_events, provider_event_mappings, sportsbooks, provider_sportsbooks, market_observations | `persist_fetch`, `persist_failure`, event and book resolution | `MarketIngestion` |
| Pricing state and consensus | `persistence/pricing_repository.py`, `domain/consensus.py`, `market_curve.py`, `pricing.py` | none (reads observations) | states at a cutoff, pairs, centers, candidates | `PricingReplay`, `MarketCurve`, `Consensus` |
| Watchlist | `domain/watchlist.py` | none | near misses among the rejected | `Qualification` |
| Model registry | `persistence/model_registry_repository.py`, `services/model_registry_bootstrap.py` | model_versions, artifact versions, shadow predictions, outcomes | register, bootstrap, append prediction, attach outcome | `ModelRegistry` |
| Legacy JSON import | `migration/json_import.py` | the ledger's tables | validate, import, reconcile | `JsonImport` |
| Dashboard | `services/dashboard_service.py` | none | market status, the run that is shown | `MarketRefresh` (partly) |
| NCAAF history ingestion | `persistence/ncaaf_repository.py`, `services/ncaaf_ingestion_service.py`, `artifacts/ncaaf_store.py`, `research/ncaaf/normalize.py` | files, manifests, programs, events, facts | ingest a season, build the corpus | `NcaafHistory` (partly) |
| Historical odds acquisition | `research/ncaaf/historical_odds_audit.py`, `historical_market_dataset.py`, `providers/odds_api_historical.py` | artifacts, manifests, pointers, the provider's balance | preflight, paid requests, plans, coverage, decision | `OddsArchive`, `MarketCoverage` (partly) |
| Holdout | `research/ncaaf/holdout.py`, `holdout_evaluation.py`, `finalist_freeze.py` | unlock records and pointer, tables, report | unlock, inputs, evaluate, validate | `Holdout` (partly) |
| Research features | `research/ncaaf/features.py` | running totals of one build | aggregate, answer requests in order | `FeatureChronology` (partly) |
| Research models, calibration, market comparison | `research/ncaaf/modeling.py`, `strong_models.py`, `preseason_modeling.py`, `calibration.py`, `market_comparison.py`, `market_aware_modeling.py` | tables of predictions | six commands that read each other's files | `WalkForward` (partly) |
| Preseason sources | `research/ncaaf/preseason.py` | none | data frames | not modelled |
| Development repositories | `persistence/json_repository.py`, `memory_repository.py` | a JSON file, a dict | stand-ins for tests and local use | not modelled |
| HTTP and configuration, frontend | `main.py`, `config.py`, `api/`, `src/frontend` | settings | wiring, authentication, views | not modelled |

### How they interact

Endpoints are synchronous functions run in a thread pool, several processes may
serve one database, and each operation is one transaction at READ COMMITTED, so
every interaction of the core is through rows and their locks:

* A **mutation** (`POST /bets`, `POST /bet-result`, and the creating
  `GET /portfolio`) goes through `_execute_mutation`: with an `Idempotency-Key`
  it first inserts the idempotency row, then locks the owner row `FOR UPDATE`,
  loads or creates the portfolio, tests, writes the bet and ledger rows, and
  commits. A unique violation rolls back and answers from the stored record.
* A **decision** is made in three separate transactions: `portfolio_snapshot`
  reads (and may create) the portfolio, the engine computes, `persist_decision`
  inserts rows with status `proposed`. Later `approve` locks the owner and the
  recommendation, rechecks all risk limits against the portfolio *of that
  moment*, and records an official bet and its stake; `reject` locks only the
  recommendation.
* Cash is never stored: it is the sum of the ledger rows. Reserved stake, equity,
  peak and drawdown state are recomputed from the bets at each use.
* A **refresh** holds its process's lock without waiting for it, fetches through
  the cache, ingests, and analyzes each slate with games to come as of the
  completion of its own ingestion. Plain readers of the odds fetch and ingest
  without the lock; an analysis may ask for any cutoff.
* An **ingestion** is one transaction per provider fetch: the raw snapshot, its
  events, books and observations commit or roll back together. `POST /odds`
  ingests without any lock, so ingestions of one provider overlap each other and
  the pricing runs that read what they commit.
* A **pricing run** takes the latest state of every book and line known at its
  cutoff, pairs sides, finds each book's center and the market's, and gives the
  engine one candidate for each side.
* The **registry** is installed by every worker at startup; commands record
  predictions and attach outcomes later.
* The **research commands** share directories of content-addressed files with a
  pointer to the current one. They are started by hand, in any order, again
  after a crash, and nothing keeps two of them apart.

### Hard behaviours

Retries of keyed requests while the first attempt still runs; two mutations of
one owner that both see enough cash; lock order between the idempotency row's
foreign key and the owner lock; crashes between flush and commit; a portfolio
created by two paths at once; approve against reject; recommendations approved
long after the portfolio they were sized for is gone; reads in several
statements; caps summed by two different rules in the engine and in the recheck;
losses that shrink equity under existing exposure; overlapping fetches that meet
the same new game or book, and commit in another order than they were stamped;
a cache that makes old answers look new; workers that install one registry at
once; an importer run again over a live portfolio; three files replaced one after
the other and a crash in between; credits read before they are spent; a seal that
must hold through crashed and overlapping commands; features and pools of
residuals that must not see the future although every command reads what the last
one left. `PROJECT.json` lists them under `hazards`, each at its line with the
properties that cover it; one has none and says why.

### What makes each component correct

* Ledger: no overdraft; ledger and bets agree row by row; a key buys one
  mutation; nothing is ever undone; every call ends.
* Decisions: an approved recommendation has exactly one bet, any other none;
  concurrent answers agree; approved exposure stays within the caps; a portfolio
  never opposes itself; the drawdown peak is the true high-water mark.
* Engine: what one run proposes together can be approved together. A better
  quote is never treated worse.
* Reads: a read that nothing overlapped balances; what a decision run freezes
  was true.
* Refresh: what is called fresh is recent; a refresh decides with its own prices;
  what is shown is the newest; every request ends and frees its lock.
* Ingestion and identity: a snapshot is whole or absent; one row for each book; a
  conflict stays quarantined; every ingestion ends.
* Pricing: a replay at a cutoff gives the answer the cutoff had; a superseded
  line does not come back; a center is its books'; edge and value agree.
* Registry: manifests installed whole, versions immutable, predictions before
  kickoff, the two sides of a game graded as mirror images.
* Import: cash equals the legacy bankroll afterwards; a repeat adds nothing.
* Archive: pointers lead to files that are there; credits stay within what was
  authorised and buy each answer once; coverage decisions rest on the frozen cohort.
* Holdout: nothing before a verified unlock, one unlock, and a validated report
  describes the tables beside it.
* Research: a feature row knows exactly what was available at its cutoff, and
  every number compared out of sample is out of sample.

## 2. Modules

    ApprovalRisk        constant operators: exposure, caps, drawdown, the recheck
      PortfolioLedger   the tables; one action per committed transaction
        MutationTxn     the same transactions statement by statement, with locks
        PortfolioReads  the multi-statement readers and the decision header
      DecisionEngine    one engine run on a snapshot, and the approval of its rows
    Account             the abstract money contract
    MarketRefresh       servers that fetch, cache, store and decide
    MarketIngestion     provider fetches as concurrent transactions
    PricingReplay       which committed market state a cutoff sees
    MarketCurve         odds, vig, settlement curves, centers (operators only)
      Consensus         one pricing run over the lines of a market
        Qualification   the gates of the engine and of the watchlist
    ModelRegistry       bootstrap, predictions and outcomes
    OddsArchive         paid acquisitions over one archive and one balance
    MarketCoverage      plans, reconciliation, completeness, rates, decision
    Holdout             the sealed season
    FeatureChronology   the build of point-in-time features
    NcaafHistory        ingestion of a season, and the corpus
    WalkForward         which results each research prediction has seen
    JsonImport          the legacy import over a live ledger

    PortfolioLedger  implements  Account           (a refinement mapping)
    MutationTxn      implements  PortfolioLedger   (the same variables)

The portfolio side:

* **`Account`** is what a portfolio promises about money: capital arrives once,
  a stake is set aside only from cash that is there, a release returns the stake
  and brings a profit or a loss no larger than the stake.
* **`ApprovalRisk`** translates `portfolio_state`, `_open_exposures` and
  `_validate_approval_risk`. It has no state; its operators take the table of
  bets they read. An open straight is one exposure, an open parlay one per leg.
* **`PortfolioLedger`** has the five tables and the settlement order as variables
  and one action per transaction: `EnsureOwner`, `OpenPortfolio`, `PlaceBet`,
  `SettleBet`, `PersistDecision`, `Approve`, `Reject`. A guard that fails in the
  code rolls back, so it is a step that changes nothing. `cash[p]` is what the
  code's `SUM` returns; `ImplementsAccount` (cash is capital and realized profit
  less the open stakes) and `LedgerMatchesBets` (the rows are exactly those) say
  from two sides that it is. `Row[r]` is the recommendation the engine computed, a
  constant, because rows never change once inserted.
* **`MutationTxn`** runs those transactions as sessions with a program counter
  over the statements the code issues, in the code's order. What a session holds
  (an uncommitted idempotency row, `FOR KEY SHARE` on the owner through the
  foreign keys, `FOR UPDATE` on the owner and on the recommendation, an
  uncommitted portfolio) follows from its request and its counter; `Blockers`
  says who makes whom wait. Tests are made at `Check` and *never again* at the
  write: `ImplementsLedger` holds only because of the locks. `Crash` loses a
  session at any statement; `DeadlockAbort` is PostgreSQL's victim.
* **`DecisionEngine`** sizes candidates in any rank order, chooses a parlay and
  lets rows be approved one by one. The engine's exposure (a parlay counts once
  per leg against the day and the sleeve) and the recheck's (once) are kept
  apart, as in the code.
* **`PortfolioReads`** issues the statements of the snapshot, `GET /portfolio`
  and `GET /stats` one by one between mutations, with the identity-map effect
  that a bet loaded as open keeps its empty profit within one session.

The market side:

* **`MarketRefresh`** has server processes, each with a cache and a lock, and
  callers that refresh, read the odds or analyze a slate at a cutoff. A call goes
  through look-up, fetch with retries, storing, and one decision per slate; the
  clock moves between all of them. `Ask` is a request, `StoredBy` what a cutoff
  sees, `Collides` the unique constraint on `output_hash`, `Shown` the runs of the
  latest cutoff that the dashboard reads. A restart empties cache and lock.
* **`MarketIngestion`** runs `persist_fetch` as sessions with a program counter:
  `Reuse` or `Propose` is the mapping select of `_resolve_event`, `Flush` the
  statements that need row locks, `Observe`, `NewIdent`, `FindBook`, `AddBook` and
  `AddIdent` the steps of `_resolve_book` and `_build_observation`, `Commit` makes
  the rows visible. What a select saw is kept and *not* looked at again. An event
  and its provider mapping are one row, because they are written together and
  carry the same status. `Blockers` are row locks and uncommitted equal rows of
  the two unique indexes; `Updated` says that an update writes the columns that
  changed and no others, on which `QuarantineFinal` rests.
* **`PricingReplay`** has a clock, ingestions that took `ingested_at` and have not
  committed, and the pricing query with its order (request, observation,
  ingestion, id). It remembers what pricing runs returned, so that two runs of one
  cutoff can be compared.
* **`MarketCurve`** and **`Consensus`** compute what `build_pricing_analysis` does
  with the lines of one market of one game: eligibility at the cutoff, the latest
  state of each book, complementary pairs, the main line of each book, overround
  weights, centers by bisection on the settlement curve, the weighted median with
  its outlier rule, and for each side the best price with its edge, value and
  failures. Fractions are compared by cross-multiplication; the curve is a small
  histogram. `Bisect` is the list of the intervals the halving passes through: as
  many rounds as bring the widest one to a single point of the grid.
* **`Qualification`** follows one opportunity while the market improves it, one
  quantity at a time, through `evaluate_candidate` and `build_watchlist`.

The research side and the tools:

* **`ModelRegistry`**: each worker's bootstrap is two transactions of look-ups and
  inserts, with unique keys that make an insert wait or fail; predictions and
  outcomes are calls of their own, checked against kickoff by the timestamps the
  caller passes; `Grade` is the settlement of a prediction.
* **`OddsArchive`**: jobs (an audit, a market acquisition) as processes over one
  archive: balance, preflight, look-up in the files or in the manifests listed at
  the start, paid fetch, then artifact, manifest and pointer one after the other,
  and the final balance. The provider may answer the same instant differently,
  charge for an answer that is lost, or refuse; a job dies anywhere.
* **`MarketCoverage`**: pure functions on inputs chosen from a set: the morning
  and later plans with the bounded sample, `_reconcile` with its names, the two
  completeness tests of audit and dataset, coverage rates and the decision.
* **`Holdout`**: unlock (verify the freeze, write the record, write the pointer),
  the inputs built under it, the evaluation (two tables, a manifest, a report) and
  its validation, as processes over one directory that crash and overlap. A file
  that was being written is `Torn`.
* **`FeatureChronology`**: the cursor over games in the order they became
  available, requests in the order of their cutoffs, and the totals they see.
  `RowSeesExactlyThePast` compares each row with one computed from scratch.
* **`NcaafHistory`**: answers as files and manifests, the facts derived in the
  manifest's transaction, programs and events, reruns that answer from the files,
  files that are lost, and the build of the corpus.
* **`WalkForward`** computes for each row of the six research commands the games it
  was fitted on and the games whose results reached it.
* **`JsonImport`** imports growing files over a ledger in live use; rows wait in
  `pending` until the one transaction commits.

**`Sums`** has the totals and maxima the models use (folds over finite sets).

**`AccountProofs`, `SumProofs`, `PortfolioLedgerProofs`, `RiskProofs`,
`MutationTxnProofs`, `ServiceProofs`, `RecordProofs`, `ResearchProofs`** hold
theorems and proofs (section 5). The **`MC*`** modules
give the constants values. Some of them compose: `MCPortfolioRisk`,
`MCTxnWorkloads`, `MCDecisions`, `MCServices`, `MCWorkers` and `MCCommands` put the
parts of one side of the system behind a variable (`view`, `workload`, `stage`,
`service`, `kind`, `tool`) that is chosen initially and never changes. A behavior
exercises one part and leaves the others in their initial states; the set of
behaviors is the union of the parts' behaviors, so each property is checked as in
a run of its own. Parts that share state are composed in the modules themselves
(`MutationTxn` over the tables of `PortfolioLedger`, `PortfolioReads` between its
mutations, refreshes over one store in `MarketRefresh`).

Many invariants are conjunctions of named parts (`IngestionSound`,
`CreditsAccounted`, `SealStands`, ...): each part is defined, and its meaning
stated, on its own, the module's type invariant among them.

Money is counted in whole units (the code's cents) and fractions in per-mille,
so the exact `Decimal` comparisons of the code stay exact and `_money`'s rounding
down is integer division. `money()` rounds half up at the API boundary:
`Order` and `Payout` are bodies *after* it, including a stake rounded to 0.
Names, odds, timestamps and probabilities are abstracted to what the properties
tell apart.

## 3. Runs

| Run | Instance | Properties | What it shows |
|---|---|---|---|
| `ledger` | 2 principals, 2 portfolios, 2 bets, 2 recommendations, 1 shared key, stakes 0 and 3 | `TypeOK`, `Solvent`, `LedgerMatchesBets`, `MutatedOnce`, `ImplementsAccount`, `NothingUndone` | The transactions implement the money contract and the ledger says exactly what the bets say. |
| `risk` | default policy, capital 200, 5 recommendations, 3 bets, a direct bet of 40, 1 reader | `ApprovedExposureWithinPeak`, `NoOpposingApproved`, `PeakIsHighWater`, `QuietReadBalances` | Caps survive every interleaving of approvals, direct bets, wins and losses; a read that no mutation overlapped balances. |
| `txn` | 3 sessions, 4 calls, keyed placements, settlements, approvals, rejections and snapshots | `AnswersAgree`, `ImplementsLedger` | Retries, races, crashes and deadlocks: each commit is one ledger transaction, and concurrent answers agree. |
| `decisions` | pricing runs over 2 ingestions; 6 engine books; boards of 3 sportsbooks; one improving quote | `SettledReplaysAgree`, `LinesNeverReturn`, `RunApprovable`, `OfferedStill`, `ValueConsistent`, `CenterIsTheBooks`, `BetterIsNeverWorse` | What is priced was known at the cutoff and agrees with the books; what one run proposes can be approved; a better quote is never treated worse. |
| `services` | 2 servers, 2 callers, 2 slates; 2 ingestion sessions, 3 calls, 4 fetches | `FreshMeansRecent`, `DecisionsSound`, `ShownUsesNewestState`, `IngestionSound`, `QuarantineFinal`, `ServicesEnd` | Refreshes decide with prices that are as recent as they claim; overlapping fetches keep snapshots whole and quarantine final; all of it ends. |
| `workers` | 2 transaction sessions; 2 registry workers; 2 archive jobs, 12 credits | `RegistrySound`, `ArchiveSound`, `CreditsAccounted`, `FinishedPlanStands`, `RowsAreForever`, `WorkEnds` | Processes that race, crash and are started again keep the registry immutable, the archive consistent and the credits within bounds. |
| `commands` | 2 holdout commands, 2 evaluations; small corpora, schedules and files | `PricesWellFounded`, `PlansCovered`, `ValidReportStands`, `RowSeesExactlyThePast`, `CorpusSound`, `RunsHeal`, `OutOfSample`, `SealStands`, `ImportSound` | Commands run by hand in any order keep the seal, see only the past, heal after a loss and repeat without harm. |
| `txn_deadlock` (violation) | 2 sessions, 2 keyed calls of one owner | `MutationsSerialize` | Finding 1. |
| `reads_torn` (violation) | 1 portfolio, 2 bets, 1 reader | `FrozenEquityWasReal` | Finding 2. |
| `ingest_repeat` (violation) | 2 sessions, one game | `RepeatReusesEvent` | Finding 3. |
| `import_rerun` (violation) | as in `commands` | `RepeatKeepsLiveCash` | Finding 4. |
| `horizon_reopens` (violation) | as `services`, one more tick | `HorizonPassesOnce` | Finding 5. |

**The parts of a merged property.** `MutatedOnce` is one mutation per key and
one bet per approved recommendation. `AnswersAgree` is `TxnTypeOK`,
`SameKeySameAnswer`, `ApprovalAnswersAgree` and `DecisionsNeverAborted`.
`ServicesEnd` is that every request is answered and every ingestion ends,
`WorkEnds` that every call ends, every bootstrap finishes and every started job
ends. Each of the others is listed where it is defined, at the end of its module.

**Bounds, and why they are enough.** Ids are finite (`BetId`, `Rec`, `Key`): that
is the only bound of `ledger` and `risk`, and every behavior of that many bets
is explored. Two bets of 3 against a capital of 4 overdraw; two principals share
a key and compete for a name; each recommendation has its own portfolio and
class. In `risk`, three recommendations of one game at the per-bet cap pass the
game cap together, one opposes another, a parlay spans both games, and a direct
bet of 40 moves equity by enough to pause (loss) or to raise the peak (win). In
`MutationTxn` the one counter is `calls <= MaxCalls`: three sessions for the
shortest cycle that needs a third party, a fourth call as the retry of the first.
The engine's six books are: nothing open, one team already bet on, an open parlay,
reduced risk, almost no cash, paused. In `PricingReplay` two snapshots and two
remembered answers are what any disagreement needs, and the fourth tick lets two
different cutoffs settle; families do not influence each other, so one is enough.
In `Consensus` the boards have up to three books whose sheets for a market are
chosen independently, among them a side without its complement, a superseded line
and a price far out; `Quantum`, `Grid` and `Reach` are the resolution of the
fractions and of the settlement histogram. In `Qualification` each quantity
starts on the wrong side of a gate or of a watchlist limit and can cross it.

In `MarketIngestion` `MaxCalls` is 3: two fetches overlap and a third comes
before or after; the fetches list two games in both orders (a deadlock), name
another game under a known id, leave the id out, and contain a malformed game, a
malformed offer and an offer of one book under two names. In `MarketRefresh` two
callers at two servers overlap both inside one process (the lock) and across two
(the unique hash); one slate has two kickoffs, so that the first can have passed
with games still to come; three ticks separate a fetch, its reuse from the cache
and its staleness; one retry and one restart each race one answer.
`horizon_reopens` needs a fourth tick.

In `ModelRegistry` two workers install two manifests that disagree about a
version, and `MaxTransactions` leaves a repeat after both transactions of each; finals come before
and after kickoff. In `OddsArchive` two jobs of different kinds and a repeat
(`MaxAcquisitions`) share 12 credits, less than three runs may spend;
`KeptBack` is the part the command line refuses to spend, `MaxLosses` a charged
answer that never arrived. `MarketCoverage` and `FeatureChronology` are functions
of inputs: schools whose names begin alike, markets with each defect the tests look for,
audits on both sides of each limit; seven games of which one may be missing, one
available exactly at a cutoff, one with an unresolved program. In `Holdout` seven starts and one crash are
enough for an unlock that is cut off between record and pointer, its repeat, two
overlapping evaluations and a validation. In `NcaafHistory` three runs and one lost
file are the first ingestion, the loss and the repair; in `WalkForward` six
command runs let the whole chain complete, or some of it run twice; in `JsonImport`
three imports with three live bets between them are a first import, a file that
grew, and a repeat of each.

`Account` has no run of its own: `ledger` checks that it is implemented, and its
theorem has no bound. Bets and sessions are interchangeable and are reduced by
symmetry in `ledger`, `risk`, `txn` and `reads_torn`, holdout commands in
`commands`. The runs with a liveness property, `services` and `workers`, use
none. The larger runs have between 95 000 (`txn`) and 860 000 (`commands`)
distinct states.

**Deadlock.** All runs say `CHECK_DEADLOCK FALSE`: ids, calls, runs and the
clock are bounded, a portfolio whose recommendations are decided and whose bets
are settled may rest, and a command that has finished is not started by itself.
That no *session* is stuck is `WorkEnds` and `ServicesEnd`.

**Fairness.** Weak fairness of what has been started, and nothing else: `Work(s)`
of each session in `MutationTxn` and `MarketIngestion` (the server executes the
statements of a request it has accepted; PostgreSQL grants a lock once nobody
holds it and breaks a deadlock it detects), `Serve` in `MarketRefresh` (a request
goes on, its retries are finite), `Progress` in `ModelRegistry` and `JobStep` in
`OddsArchive`. Clients need not send anything, the clock need not move, nothing
need crash and no job need be started. No lock can be passed around a waiting
session for ever, because calls are bounded. The other specifications have no
fairness and claim no liveness.

## 4. Findings

1. **`MutationsSerialize`** (`sqlalchemy_repository.py:442`). ARCHITECTURE.md:103
   says the owner lock serializes an owner's mutations. The keyed path inserts
   its idempotency row first, whose foreign key holds `FOR KEY SHARE` on the
   owner row; two keyed mutations of one owner can both hold it and then both
   wait for `FOR UPDATE`. One is aborted with a server error. Nothing is lost:
   `txn` checks the same lock order for safety, and the retry succeeds.
2. **`FrozenEquityWasReal`** (`recommendation_repository.py:63`). A decision run
   is said to freeze portfolio equity. The snapshot reads cash and open bets in
   two statements; a bet committed in between is counted twice and the header
   freezes an equity the portfolio never had. Approval rechecks against a locked
   portfolio, so no limit is broken by it (`risk`).
3. **`RepeatReusesEvent`** (`market_repository.py:192`). A repeated game is said to
   reuse its canonical event. Two overlapping first fetches both find no mapping
   and create two matched events; the unique constraint of the mappings includes
   the event and cannot reject the second. `AmbiguityOnlyByOverlap` says that
   overlap is the only way this happens.
4. **`RepeatKeepsLiveCash`** (`json_import.py:199`). The importer is called
   rerunnable. Its adjustment is what the legacy bankroll and the ledger's cash
   differ by *when it runs*, and it is written once. If the first import had
   nothing to reconcile, and a bet was placed since, the repeat writes the stake
   back. `ImportSound` holds what does survive a repeat.
5. **`HorizonPassesOnce`** (`market_refresh_service.py:62`). The primary horizon
   is three hours before the first scheduled kickoff of the slate, and what comes
   after its tolerance is to be `POST_HORIZON`. The code takes the earliest of the
   games that have *not started*: when the first one kicks off, the horizon moves
   to the next and runs are labelled `EARLY_LOOKAHEAD` again.

## 5. Proofs

All theorems are about the specifications that TLC runs, for every value of the
constants, from the named assumptions of the modules only (the account theorem
states its own). An assumption says what the code's constructors and loaders insist
on: capital is a positive natural (`CapitalAssumption`), a policy's fractions are
fractions (`PolicyAssumption`), bodies, rows and requests have their types
(`OrderAssumption`, `PayoutAssumption`, `RowAssumption`, `RequestAssumption`), the
"none" values are none of the ids (`SentinelAssumption`), a straight row is one
position and a parlay's legs are different games with disjoint teams
(`RowShapeAssumption`, what `optimize_parlay` insists on), times and limits are
naturals (`RefreshAssumption`, `ReplayAssumption`, `HoldoutAssumption`), a
manifest's entries have keys of their own (`RegistryAssumption`), an odds plan asks
for one of the two sets of markets and an audit for all of them
(`ArchiveAssumption`), answers of the history's source are finite and games are
numbered (`HistoryAssumption`), the portfolio an engine run is given has finitely many
bets with natural stakes, one leg or more each and an order of settled ones
(`BookAssumption`), Kelly fractions and the fractions of quotes are not negative
(`CandidateAssumption`, `OfferAssumption`), an experiment's end lies before the holdout
and its horizons have features (`ChoiceAssumption`), a schedule and an audit are finite,
a game's id is its own and no two of its hashes are equal (`PlanAssumption`,
`DecisionAssumption`, `EventAssumption`), the outcomes of a market that is looked at are
named after the two teams of its event or after nobody, each team always the same
(`MarketAssumption`), a corpus is finite, its games and programs are numbered and the
horizons are the three there are (`CorpusAssumption`, `HourAssumption`,
`HorizonAssumption`), a prototype file names portfolios, amounts and bets of their
types (`ImportAssumption`), a settlement curve counts finitely many residuals, each at
least once (`CurveAssumption`), the lines of a board are finite, american odds are a
hundred or more in size, what a book stored in one snapshot of a market shares that
snapshot's times, and a center needs two books (`BoardAssumption`, the last as
`PricingPolicy` insists), and a policy's gates are those
`QualificationPolicy` accepts, with quotes and odds of their types
(`QualificationAssumption`; the gate on dispersion is positive besides, since
`_distances` divides by it). One assumption is about the world and not about the code: `RestAssumption` says that seasons do not overlap and that a team rests long
enough between two games for the first result to be available at every cutoff of the
second. No line tests it, and the ratings, which take every earlier kickoff, rest on it.

Sums and maxima over sets of any size are needed for money, exposure, peaks and
credits. `SumProofs` has what the proofs say about them: the folds of `Sums` are
functions on the subsets of the set, so a claim about every finite set follows from
the well-founded order of its proper subsets (`Minimal`: among counterexamples there
is one whose proper subsets are none). From it come what a total is after one element
is added, removed or changed (`TotalInsert`, `TotalRemove`, `TotalAgree`), bounds
(`TotalMonotone`, `TotalNat`), and the greatest element of a finite set of integers
(`Greatest`, `MaxIs`).

**Money** (`AccountProofs`, `PortfolioLedgerProofs`).
`AccountConserved` is conservation in the contract. `LedgerTyping`, `LedgerSolvent`,
`LedgerApprovedOnce`, `LedgerAgreesWithBets`, `LedgerOneMutationPerKey` and
`LedgerNothingUndone` build on each other: a bet exists only in an opened portfolio,
an unopened one has cash 0, a new bet has no row yet, a row's owner is its
portfolio's; one lemma per way of writing (`RecordBetKeepsLedger`,
`SettleKeepsLedger`, `OpenPortfolioKeepsLedger`), one step per action.
`LedgerKeepsAccount` is the refinement: cash is the capital and the realized profit
less the open stakes. Each transaction is one of two changes of the table of bets,
`NewBet` and `Settlement`; `NewBetSums` and `SettlementSums` say what they do to the
two sums, `ContractStep` that each is a step of the contract. Through the mapping,
`LedgerConserves` carries the contract's theorem over. `PeakFollowsEquity`: the code
recomputes the peak from the settlements in their order. `OrderSound` says that this
order holds each settled bet once, `PathAppend` that one more settlement adds one
more point to the path of equities, so the peak is what an account that had watched
would remember.

**Exposure** (`RiskProofs`). `PortfolioNeverOpposesItself` restates the invariant bet
by bet (`Pairwise`); `RecheckSeparates` is what an approval's recheck gives against
every open bet. `ApprovedWithinPeak`: for each cap of the policy (`CapGroups`) what
approvals have put on it stays within its share of the peak (`CapsHold`). It is
inductive because approval compares *all* open exposure with an equity that is at
most the peak, settlements only take exposure away (`ExposedMonotone`), and the peak
never falls. `QuietReadsBalance`: between statements with no commit on the portfolio
everything a reader has read is current; `ReadSound` says which parts those are, in
each of the orders the three readers issue them in.

*The engine and the recheck.* `RunsStayApprovable`: what `DecisionEngine` recommends,
`approve` accepts piece by piece. The engine adds up legs (a parlay counts once for
each), the recheck bets, which is never more (`StakesWithinExposures`).
`EngineSound` is the inductive invariant: as long as no parlay is approved, the
recommended straights fit all together (`StraightsFit`: the cash, the day, each bet's
own cap, and in every group of an event, a market or a team what is open plus what is
recommended), and a proposed parlay fits besides them (`ParlayFits`). Sizing keeps it because
a stake is the least of its rooms (`SizeSound`), approving a straight because its stake
moves from what is recommended to what is open, which leaves every sum as it was
(`Approves`). `StraightsPass` and `ParlayPasses` lead from there to the recheck's own
conditions, group by group (`GroupsRechecked`).

**Sessions** (`MutationTxnProofs`). `SessionsSound` is the invariant of the
interleaving: which row locks and uncommitted rows follow from a session's program
counter, that two of them which exclude each other are never held at once (`Apart`),
and that what was tested at `Check` still holds at the write, whatever others
committed since (`TestsKept`, `AcceptableKept`). One lemma per statement, one per
commit. From it `SessionsImplementLedger`: every commit is a transaction of
`PortfolioLedger` and every other statement changes no table. `SessionsKeepPromises`
carries the ledger's theorems to the sessions. `SessionsAnswersAgree`: an answer is
backed by committed rows (`AnswerBacked`), and rows stay; an approval is never the
victim of a deadlock, which needs that a cycle of waits leaves no one out.

**Services** (`ServiceProofs`). `RefreshSound` says of each
server what its cache was filled by, of each call which answer it has and how old it
is, and of each decision that it used the newest state its cutoff could see; from it
`RefreshDecidesSoundly`, `FreshWasAskedRecently` and `ShownIsNewest`. `IngestSound`
says of each session which games it has resolved, which rows it wrote without
committing them, and that sessions which wrote the same unique key exclude each other
(`Separate`); from it `FetchesIngestSoundly` and `QuarantineNeverEnds`.

**Records** (`RecordProofs`): what is written once and read again.
`SettledReplaysNeverDiffer`: a commit after a cutoff has settled carries a later
ingestion time (`LateCommitIsUnknown`), so the query at that cutoff does not know it.
`SupersededLinesNeverReturn`: the query's choice exists and is the greatest of what
is known (`NewestIsNewest`), and what is known only grows from cutoff to cutoff.

*NCAAF history.* `FactsInv` says that the facts of the manifests are listed once, in
the order of the manifests and completely; that an eligible one rests on the record
of its own manifest, with both programs known; and that a game has one event.
Positions in a transaction follow from ranks (`RankIsOwn`, `RankTaken`: new facts are
numbered in the order of their games), so the newest file and the newest fact of a
game are of one manifest (`NewestFact`), which is what `CorpusStaysSound` needs.
`InRun` and `Resting` say what a run has on file and has returned; a run that answers
from an old file has the facts of that manifest refreshed (`RefreshedSays`), hence
`CompleteRunsHeal`.

*Legacy portfolios.* `LedgerInv`: entries with references of their own, a portfolio
without owner has none and one with an owner is funded, every bet has its entries and
every entry of a bet its bet. `PendingInv` says which part of what was read stays true
until the commit whatever the application does in between: rows that fit each other,
the cash of a portfolio still unopened, a funding row for one that was unopened when
it was read. So a portfolio opened meanwhile makes the import conflict with that row
rather than write into it. `QuietInv`, while only imports write: what was read is what
would be read now (`RowsNew`, `Covers`), and nothing of an imported version is left to
import (`Done`). The bets of several portfolios share the identifiers; `ReadKeeps`
shows that in any order of the file each new bet is taken once and none is lost (the
first that names it takes it). `Merged` is what a commit makes of the tables, and
`ImportsStaySound` puts the four promises together.

*Feature rows.* What is true of the cursor at every moment (`ChronicleInv`): there is a
set of team games that is absorbed, the totals are those of its list in the order of
availability, the rest waits in that order, everything absorbed came before everything
waiting, and nothing absorbed came after a cutoff still to be answered. The list of a
set is defined by counting what comes before (`ListOf`); `OnlyList` says that there is
one such list, `ListAppend` and `ListTail` that a greatest member is appended to it and
the least one is its head. A total is a fold from the left; `TotalOfAppend` says what a
further record adds. The requests are in the order of their cutoffs (`RequestList`), so
when the head of the waiting list is not due, what is absorbed is exactly the past
(`EmitRowKeeps`), hence `RowsSeeExactlyThePast`.

**Research** (`ResearchProofs`). `RegistryInv` has, for each worker that installs, the
entries it is past, in place or held; nobody else holds the same key (`Apart`); with
it manifests are whole, predictions precede kickoff and grades mirror each other
(`RegistryStaysSound`), and rows are for ever (`RegistryRowsAreForever`).
`HoldoutInv` says what a command has established by the step it is at: an unlock that
is about to write has verified, an evaluation has read the pointer, the tables are of
the evaluation whose report is written next. From it `SealNeverLeaks` and
`ValidReportsStand`, the latter for evaluations that do not overlap, as the property
says. `ArchiveInv` has for each run of a job what it still has to buy (`Due`) and
that this fits its budget; while runs do not overlap, that a run has listed what is
there (`Listed`), that neither a request it buys nor one that covers it is in place,
and where the answer of each paid request is (`Kept`); while nothing was lost, that
every manifest is named by its pointer and what was accepted is what a look-up
returns (`Stands`). From it `ArchiveStaysSound`, `CreditsStayAccounted` and
`FinishedPlansStand`.
`ResearchInv` says of every row of every file that the games it knows may inform it
(`MayInform`) and that its pool is of its own horizon and out of sample. A rating rests
on the ratings of earlier games without end; that its equation has a solution is shown
by the least function closed under it (`RatedEquation`), and that it looks at the past
only by the earliest game for which it would not (`RatedRests`). From it
`PredictionsOutOfSample`.
The functions of `MarketCoverage` are proved about directly. `OnItsSide` is the argument
for names that begin alike: two outcomes must have two sides, so if a name fits both
teams and takes the home side, the other outcome would have to be the away team's and
fit it, and then it is the home team's own. `SampleIs` says what the sample of a season
and phase is, `FirstTwoIs` and `PairOf` count it, `AskedOnce` that requests of a horizon
that share a game are one (`PricesStayWellFounded`, `PlansStayCovered`).

**Pricing** (`ServiceProofs`). `PricingInv` says that the candidates are those of the
board, the rest is about functions. The lines used are the newest states of their book,
side and line, and they are complete by their snapshot: a newer line of the book known
to the run is of the same snapshot (`WithdrawnPricesAreGone`). *Centers.* `Nearer` orders
the pairs of a book strictly and totally, so each book has one main pair, the nearest to
the middle of the market, and a line offered by all is nearest for all when the other
lines are fewer (`AgreementHolds`, by where a majority puts a median). The first side's
chance at a point rises with the center (`MassRises`), so below a crossing every center
falls short and above it none does; a round of the search keeps the crossing
between its ends and halves what is open (`HalveNarrows`), hence the end of the search
is the first center that reproduces the price. If a majority by number and weight puts
the center at `v`, the weighted median is `v` and the median deviation zero, so
another book's weight times its distance is at most half a point times its weight, and
the rounded mean stays within half a point of `v` (`MajorityRules`); the three are
`CentersAreTheBooks`. *Values.* Preferring an offer is a total order of fractions compared
by their cross products, so there is a best one (`BestIs`). An edge and a value are the
same number over different positive denominators (`WorthIs`). The chances of the two
sides of a line mirror each other (`FairMirrored`), so if both best offers are worth
something their prices multiply out to an arbitrage (`ValuesAgree`). *Gates.* `Better`
compares two quotes in everything the gates look at. What is better fails a subset of
the gates, by less in each, hence by less in all (`BetterRanks`); every step of the
market leads to something better (`StepsAreBetter`), hence `ImprovingNeverLoses`.

The inductive invariants were first checked with TLC on the instances of the runs.
Three of the properties were made stronger or more exact by the attempt to prove
them: `ReserveKept` did not allow for a balance that was below the reserve at the
start, `ShadowInOrder` did not say that an outcome's prediction is there, and
`PricingReplay` and `Holdout` did not say that their "none" values are none of their
values.

**Only model-checked.** `ServicesEnd` and `WorkEnds`: liveness under fairness is out of
the prover's reach. Every other property of a passing run is stated by a theorem.

## 6. What is left out of the modelled parts

The portfolio:

* Direct bets carry the provider's event id, recommendations the canonical one,
  so the code's game cap and opposing test do not see a direct bet on the same
  game. The model keeps that (`Order` uses `provider-...`), which is why
  `NoOpposingApproved` and `ApprovedExposureWithinPeak` speak of approved bets.
* `approve` compares exposure with the equity of its moment. Losses after it can
  leave exposure above that share of the *current* equity; the bound that
  survives is relative to the peak, and that is the one stated.
* The probability arithmetic of `evaluate_candidate` (Kelly growth, scores): the
  engine is checked for *any* rank order and the sizes of a given Kelly share.
* The parlay is sized without the market-type budget and against all of the cash,
  including what its own straights will take, so `approve` can refuse it after
  them (`portfolio_engine.py:727`). `ParlayRoomKept` says what is kept for it. The
  HTTP layer passes no parlay quotes today.
* `get_stats` buckets and percentages, list endpoints, serialisation.

The market:

* Fetches that overlap and name one provider id for *different* games leave both
  events matched, until a fetch with a third identity marks them
  (`market_repository.py:211`). `AmbiguityOnlyByOverlap` says that overlap is the
  only way to this.
* `ingested_at` is read before the transaction (`market_repository.py:58`): a
  fetch can commit after a pricing run and yet belong to its past, and a replay
  then sees it. `SettledReplaysAgree` says from when on a cutoff has one answer.
* Ingestion: names, points and odds are validity flags and keys; an event's status
  text and the timestamps of rows are left out. An event's object that one
  session has loaded before is taken to be as the database has it.
* Refresh: stamping and committing a snapshot is one step (`PricingReplay` keeps
  them apart). The portfolio is not part of what a decision contains, so runs that
  differ only in it are one decision here; in the code recommendations are listed
  of all runs of the latest cutoff (`recommendation_repository.py:213`).
* Pricing: the quarantine gate reads the event's *current* review status, so a
  later conflict mark also changes a replay. Bisection and settlement curves are
  on a coarse grid; ties between line keys are broken by position.
* `Qualification` has no rejection for identity or model status; `top_n` and the
  funnel's counters are left out.

The research side:

* Registry: a prediction's features, and the API's list of them.
* Archive: payloads are model values with the facts the code tests; request
  identity is the plan's position. HTTP status codes other than a refusal.
* Holdout: a tournament that runs again is one step. Its commands ask for
  `--allow-holdout-access` only; the unlock record is what the model verifies.
* Features: blended weights are counts; Elo's rest days are left out. Under
  the fixed-morning policy the cutoff of an early kickoff lies after it; the model
  follows the code, and the property speaks of cutoffs.
* History: venues, plays, drives and memberships are not told apart from other
  facts; commands do not run concurrently; `audit_cfbd.py:19` mixes the manifests
  of several games.
* Research models: predictions are the sets of games they rest on. What a fit
  computes, and calibration's numbers, are floating point over data frames.

Not modelled: preseason sources (data frames joined once, no state), the JSON
and in-memory repositories and SQLite (for tests and local use), HTTP wiring,
authentication and configuration, the frontend.

## 7. Plan

Every component with state of its own is modelled, and every safety property the runs
check is proved. What remains is an abstraction: an `EventIdentity` that
`MarketIngestion` implements, with what fetches that do not overlap promise each other
about events and their quarantine.

A new property joins a run whose instance already has its hazard, and replaces a
weaker one; a divergence that is minor beside the findings is told in section 6
instead of having its own run.
