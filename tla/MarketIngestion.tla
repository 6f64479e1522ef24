--------------------------- MODULE MarketIngestion ---------------------------
(* persist_fetch of SqlAlchemyMarketDataRepository, statement by statement, as   *)
(* concurrent transactions run it: a fetch is a sequence of games, each resolved *)
(* to a canonical event and its offers to sportsbooks, and all of it commits or  *)
(* rolls back together. POST /odds takes no lock, so fetches of one provider     *)
(* overlap. An event and its one provider mapping are written together and carry *)
(* the same review status: here they are one row.                                *)
EXTENDS Integers, Sequences, FiniteSets

CONSTANTS
    Session,
    Fetch,          \* provider results: sequences of games
    Canonical,      \* normalize_book: the canonical key of each book identifier
    MaxCalls,       \* bound: fetches of a whole run
    NoId, NoTxn, NoEvent

VARIABLES
    events,         \* canonical_events with their provider mapping
    books,          \* sportsbooks: [key, by], by the snapshot that inserted it
    idents,         \* provider_sportsbooks: [ident, key, by]
    observations,   \* market_observations
    snapshots,      \* market_snapshots
    calls,          \* how many fetches were made; they number the snapshots
    txn             \* per session, its open transaction or NoTxn

vars == <<events, books, idents, observations, snapshots, calls, txn>>
tables == <<events, books, idents, observations, snapshots>>

ASSUME IngestAssumption ==
    /\ MaxCalls \in Nat \ {0}
    /\ \A f \in Fetch : f \in Seq({f[i] : i \in DOMAIN f})
    /\ \A f \in Fetch : \A i \in DOMAIN f :
          LET offers == f[i].offers IN
          /\ offers \in Seq({offers[j] : j \in DOMAIN offers})
          /\ \A j \in DOMAIN offers : offers[j].ident \in DOMAIN Canonical

Init ==
    /\ events = <<>>
    /\ books = {}
    /\ idents = {}
    /\ observations = {}
    /\ snapshots = {}
    /\ calls = 0
    /\ txn = [s \in Session |-> NoTxn]

------------------------------------------------------------------------------
(* What a transaction sees: committed rows, and its own *)

Active(s) == txn[s] # NoTxn

At(s, label) == Active(s) /\ txn[s].at = label

Game(s) == txn[s].fetch[txn[s].game]

Offer(s) == Game(s).offers[txn[s].offer]

Visible(s) ==
    [e \in DOMAIN events \cup DOMAIN txn[s].events |->
        IF e \in DOMAIN txn[s].events THEN txn[s].events[e] ELSE events[e]]

Candidates(s) ==
    {e \in DOMAIN Visible(s) : Game(s).pid # NoId /\ Visible(s)[e].pid = Game(s).pid}

\* Mutant: the provider's id alone decides.
SameId(s, e) == TRUE

\* League, teams and start agree.
SameEvent(s, e) == Visible(s)[e].identity = Game(s).identity

\* Sessions whose uncommitted rows keep s from writing: an updated event, or a
\* row with the same key in a unique index.
Blockers(s) ==
    {t \in Session \ {s} :
        /\ Active(t)
        /\ \/ At(s, "flush") /\ txn[s].updates \cap txn[t].touched # {}
           \/ At(s, "addbook") /\ Canonical[Offer(s).ident] \in txn[t].books
           \/ At(s, "addident") /\ Offer(s).ident \in txn[t].idents}

\* s waits for itself: it is in every set that holds the sessions s waits for, those
\* they wait for, and so on.
Deadlocked(s) ==
    \A awaited \in SUBSET Session :
        Blockers(s) \subseteq awaited /\ (\A t \in awaited : Blockers(t) \subseteq awaited)
        => s \in awaited

Continue(s, changed) ==
    /\ txn' = [txn EXCEPT ![s] = changed]
    /\ UNCHANGED <<tables, calls>>

\* Rolled back: no row stays, the raw snapshot included.
Rollback(s) == Continue(s, NoTxn)

------------------------------------------------------------------------------
(* persist_fetch *)

Begin(s, f) ==
    /\ ~Active(s)
    /\ calls < MaxCalls
    /\ calls' = calls + 1
    /\ txn' = [txn EXCEPT ![s] =
          [at |-> "select", call |-> calls + 1, fetch |-> f, game |-> 1, offer |-> 1,
           event |-> NoEvent, status |-> "matched", updates |-> {},
           events |-> <<>>, marks |-> {}, touched |-> {}, books |-> {}, idents |-> {},
           obs |-> {}, warned |-> FALSE, known |-> DOMAIN events]]
    /\ UNCHANGED tables

\* A game without teams or start is left out with a warning.
SkipGame(s) ==
    /\ At(s, "select")
    /\ txn[s].game <= Len(txn[s].fetch)
    /\ ~Game(s).valid
    /\ Continue(s, [txn[s] EXCEPT !.game = @ + 1, !.warned = TRUE])

\* The select of _resolve_event finds a candidate with the same identity ...
Reuse(s) ==
    /\ At(s, "select")
    /\ txn[s].game <= Len(txn[s].fetch) /\ Game(s).valid
    /\ \E e \in Candidates(s) :
          /\ SameEvent(s, e)
          /\ Continue(s, [txn[s] EXCEPT !.at = "flush", !.event = e,
                             !.status = Visible(s)[e].status, !.updates = {e}])

\* ... or none: a new event, in conflict with all candidates the id has.
Propose(s) ==
    /\ At(s, "select")
    /\ txn[s].game <= Len(txn[s].fetch) /\ Game(s).valid
    /\ \A e \in Candidates(s) : ~SameEvent(s, e)
    /\ Continue(s, [txn[s] EXCEPT !.at = "flush", !.event = <<txn[s].call, txn[s].game>>,
                       !.status = IF Candidates(s) # {} THEN "conflict"
                                  ELSE IF Game(s).pid # NoId THEN "matched" ELSE "needs_review",
                       !.updates = Candidates(s)])

IsNew(s) == txn[s].event \notin DOMAIN Visible(s)

\* The flush: row locks on what it updates, then its own rows.
Flush(s) ==
    /\ At(s, "flush")
    /\ Blockers(s) = {}
    /\ LET own     == txn[s].events
           row     == [pid |-> Game(s).pid, identity |-> Game(s).identity, status |-> txn[s].status]
           marked  == IF IsNew(s) THEN txn[s].updates ELSE {}
           written == [e \in DOMAIN own \cup (IF IsNew(s) THEN {txn[s].event} ELSE {}) |->
                         IF e \notin DOMAIN own THEN row
                         ELSE IF e \in marked THEN [own[e] EXCEPT !.status = "conflict"] ELSE own[e]]
       IN  Continue(s, [txn[s] EXCEPT !.at = "offer", !.offer = 1, !.updates = {},
                           !.events = written,
                           !.marks = @ \cup (marked \ DOMAIN own),
                           !.touched = @ \cup (txn[s].updates \ DOMAIN own)])

EndGame(s) ==
    /\ At(s, "offer")
    /\ txn[s].offer > Len(Game(s).offers)
    /\ Continue(s, [txn[s] EXCEPT !.at = "select", !.game = @ + 1])

\* seen_observations.
Seen(s, o) == \E p \in txn[s].obs : p.event = o.event /\ p.key = o.key /\ p.side = o.side

IdentRows(s, ident) ==
    {i \in idents : i.ident = ident}
        \cup {[ident |-> ident, key |-> Canonical[ident], by |-> txn[s].call] :
                 x \in txn[s].idents \cap {ident}}

\* _resolve_book finds the identifier; _build_observation refuses an offer that is
\* none of this game, and the second of two equal ones is left out.
Observe(s) ==
    /\ At(s, "offer")
    /\ txn[s].offer <= Len(Game(s).offers)
    /\ \E i \in IdentRows(s, Offer(s).ident) :
          LET o == [snapshot |-> txn[s].call, position |-> <<txn[s].game, txn[s].offer>>,
                    event |-> txn[s].event, key |-> i.key, side |-> Offer(s).side,
                    status |-> txn[s].status]
          IN  Continue(s, IF Offer(s).valid /\ ~Seen(s, o)
                          THEN [txn[s] EXCEPT !.offer = @ + 1, !.obs = @ \cup {o}]
                          ELSE [txn[s] EXCEPT !.offer = @ + 1, !.warned = TRUE])

NewIdent(s) ==
    /\ At(s, "offer")
    /\ txn[s].offer <= Len(Game(s).offers)
    /\ IdentRows(s, Offer(s).ident) = {}
    /\ Continue(s, [txn[s] EXCEPT !.at = "findbook"])

FindBook(s) ==
    /\ At(s, "findbook")
    /\ LET key == Canonical[Offer(s).ident]
       IN  Continue(s, [txn[s] EXCEPT !.at =
              IF key \in txn[s].books \cup {r.key : r \in books} THEN "addident" ELSE "addbook"])

\* A row that was committed since the select breaks the unique constraint: that
\* error is none the loop catches.
AddBook(s) ==
    /\ At(s, "addbook")
    /\ Blockers(s) = {}
    /\ LET key == Canonical[Offer(s).ident]
       IN  IF key \in {r.key : r \in books} THEN Rollback(s)
           ELSE Continue(s, [txn[s] EXCEPT !.at = "addident", !.books = @ \cup {key}])

AddIdent(s) ==
    /\ At(s, "addident")
    /\ Blockers(s) = {}
    /\ IF Offer(s).ident \in {i.ident : i \in idents} THEN Rollback(s)
       ELSE Continue(s, [txn[s] EXCEPT !.at = "offer", !.idents = @ \cup {Offer(s).ident}])

\* Mutant: an update writes every column of the event as it was read.
WholeRow(s, e) ==
    IF e \in txn[s].marks THEN [events[e] EXCEPT !.status = "conflict"]
    ELSE IF e = txn[s].event THEN [events[e] EXCEPT !.status = txn[s].status] ELSE events[e]

\* Updates write only the columns that changed.
Updated(s, e) ==
    IF e \in txn[s].marks THEN [events[e] EXCEPT !.status = "conflict"] ELSE events[e]

Commit(s) ==
    /\ At(s, "select")
    /\ txn[s].game > Len(txn[s].fetch)
    /\ LET t == txn[s]
       IN  /\ events' = [e \in DOMAIN events \cup DOMAIN t.events |->
                           IF e \in DOMAIN events THEN Updated(s, e)
                           ELSE [pid |-> t.events[e].pid, identity |-> t.events[e].identity,
                                 status |-> t.events[e].status, known |-> t.known]]
           /\ books' = books \cup {[key |-> k, by |-> t.call] : k \in t.books}
           /\ idents' = idents \cup
                 {[ident |-> i, key |-> Canonical[i], by |-> t.call] : i \in t.idents}
           /\ observations' = observations \cup t.obs
           /\ snapshots' = snapshots \cup
                 {[id |-> t.call, fetch |-> t.fetch, status |-> IF t.warned THEN "partial" ELSE "success"]}
    /\ txn' = [txn EXCEPT ![s] = NoTxn]
    /\ UNCHANGED calls

\* The provider failed: a failed snapshot without rows.
PersistFailure ==
    /\ calls < MaxCalls
    /\ calls' = calls + 1
    /\ snapshots' = snapshots \cup {[id |-> calls + 1, fetch |-> <<>>, status |-> "failed"]}
    /\ UNCHANGED <<events, books, idents, observations, txn>>

DeadlockAbort(s) == Deadlocked(s) /\ Rollback(s)

Crash(s) == Active(s) /\ Rollback(s)

Work(s) ==
    \/ SkipGame(s) \/ Reuse(s) \/ Propose(s) \/ Flush(s) \/ EndGame(s)
    \/ Observe(s) \/ NewIdent(s) \/ FindBook(s) \/ AddBook(s) \/ AddIdent(s)
    \/ Commit(s) \/ DeadlockAbort(s)

Next ==
    \/ \E s \in Session : Work(s)
    \/ \E s \in Session : Crash(s)
    \/ \E s \in Session, f \in Fetch : Begin(s, f)
    \/ PersistFailure

\* The database works on what it was given; fetches need not come, nor crashes.
Spec == Init /\ [][Next]_vars /\ \A s \in Session : WF_vars(Work(s))

------------------------------------------------------------------------------
(* Properties *)

TypeOK ==
    /\ DOMAIN events \subseteq (1..MaxCalls) \X Nat
    /\ \A e \in DOMAIN events : events[e].status \in {"matched", "needs_review", "conflict"}
    /\ calls \in 0..MaxCalls
    /\ {n.id : n \in snapshots} \subseteq 1..calls
    /\ \A s \in Session : Active(s) =>
          /\ txn[s].game \in 1..(Len(txn[s].fetch) + 1)
          /\ txn[s].at \in {"select", "flush", "offer", "findbook", "addbook", "addident"}
          /\ txn[s].touched \subseteq DOMAIN events
          /\ txn[s].marks \subseteq txn[s].touched

\* The provider reuses an id for another game: from the first transaction that
\* could have seen both, neither event is trusted again. Two events of one id are
\* either both in conflict, or their transactions overlapped; and one game of one
\* id has two events only if they overlapped (_resolve_event).
AmbiguityOnlyByOverlap ==
    \A e, f \in DOMAIN events :
        /\ e # f /\ events[e].pid = events[f].pid /\ events[e].pid # NoId
        /\ e \in events[f].known
        => /\ events[e].identity # events[f].identity
           /\ events[e].status = "conflict" /\ events[f].status = "conflict"

\* Quarantine is for ever: no later or overlapping fetch makes an event that is in
\* conflict matched again, and an event never changes its game.
QuarantineFinal ==
    [][ \A e \in DOMAIN events :
          /\ e \in DOMAIN events'
          /\ events'[e].identity = events[e].identity
          /\ events[e].status = "conflict" => events'[e].status = "conflict" ]_vars

\* What a fetch offers: the valid offers of its valid games.
ValidOffers(game) == {j \in DOMAIN game.offers : game.valid /\ game.offers[j].valid}

OfferAt(f, i, j) == <<f[i].identity, Canonical[f[i].offers[j].ident], f[i].offers[j].side>>

Offered(f) == UNION {{OfferAt(f, i, j) : j \in ValidOffers(f[i])} : i \in DOMAIN f}

Recorded(n) ==
    {<<events[o.event].identity, o.key, o.side>> : o \in {p \in observations : p.snapshot = n}}

\* A snapshot is whole: what was offered in its fetch is there, under the game it
\* was offered for and the book it came from, and nothing else; rows of a fetch
\* that failed, crashed or lost a race are not there.
SnapshotsWhole ==
    /\ \A n \in snapshots : Recorded(n.id) = Offered(n.fetch)
    /\ {o.snapshot : o \in observations} \subseteq {n.id : n \in snapshots}

\* Within a snapshot an event, book and side have one price.
OnePricePerIdentity ==
    \A o, p \in observations :
        o.snapshot = p.snapshot /\ o.event = p.event /\ o.key = p.key /\ o.side = p.side => o = p

\* Fetches that meet a new book at once leave one row for it and for each of its
\* names, and every name leads to an existing book.
OneRowPerBook ==
    /\ \A r, q \in books : r.key = q.key => r = q
    /\ \A i, j \in idents : i.ident = j.ident => i = j
    /\ \A i \in idents : \E r \in books : r.key = i.key

\* What an ingestion leaves behind is sound: types, whole snapshots, one price for
\* each identity and one row for each book (persist_fetch).
IngestionSound ==
    /\ TypeOK /\ AmbiguityOnlyByOverlap
    /\ SnapshotsWhole /\ OnePricePerIdentity /\ OneRowPerBook

\* Every ingestion ends, whatever order the fetches list their games in.
IngestionEnds == \A s \in Session : Active(s) ~> ~Active(s)

\* "A repeat with identical league, home team, away team, and UTC start reuses the
\* canonical event": one game of one provider id has one event.
RepeatReusesEvent ==
    \A e, f \in DOMAIN events :
        events[e].pid # NoId /\ events[e].pid = events[f].pid
            /\ events[e].identity = events[f].identity => e = f
=============================================================================
