---------------------------- MODULE PricingReplay ----------------------------
(* Which stored market state a pricing run at a cutoff uses, now or in a later   *)
(* replay: build_pricing_observation_statement and the gates of consensus.py,     *)
(* asked while ingestions are under way. A state is of one family (event, book,   *)
(* market, period); the lines of one snapshot and family stand and fall together. *)
EXTENDS Integers, FiniteSets

CONSTANTS
    Family,
    MaxTime,        \* bound: how far the clock goes
    MaxCalls,       \* bound: ingestions of a whole run; their ids order like UUIDs
    MaxAnswers,     \* bound: pricing runs remembered
    NoState

VARIABLES
    now,            \* the clock
    underway,       \* ingestions that took ingested_at and are not committed
    stored,         \* committed snapshots: [id, families, requested, observed, ingested]
    answers         \* what pricing runs returned

replayVars == <<now, underway, stored, answers>>

\* What an ingestion stores of some families, and what the query chooses among.
State ==
    [id : 1..MaxCalls, families : SUBSET Family, requested : 1..MaxTime,
     observed : 1..MaxTime, ingested : 1..MaxTime]

ASSUME ReplayAssumption ==
    /\ MaxTime \in Nat \ {0} /\ MaxCalls \in Nat \ {0}
    /\ NoState \notin State

ReplayInit ==
    /\ now = 1
    /\ underway = {}
    /\ stored = {}
    /\ answers = {}

Tick ==
    /\ now < MaxTime
    /\ now' = now + 1
    /\ UNCHANGED <<underway, stored, answers>>

\* A fetch, fresh or from the cache, is persisted: its quotes are as old as the
\* provider says, and ingested_at is read before the transaction begins.
Ingest(id, families, requested, observed) ==
    /\ id \notin {x.id : x \in underway \cup stored}
    /\ requested <= now /\ observed <= now
    /\ underway' = underway \cup
          {[id |-> id, families |-> families, requested |-> requested,
            observed |-> observed, ingested |-> now]}
    /\ UNCHANGED <<now, stored, answers>>

\* The transaction commits, later than others that took their time after it or not.
Commit(x) ==
    /\ x \in underway
    /\ underway' = underway \ {x}
    /\ stored' = stored \cup {x}
    /\ UNCHANGED <<now, answers>>

Fail(x) ==
    /\ x \in underway
    /\ underway' = underway \ {x}
    /\ UNCHANGED <<now, stored, answers>>

------------------------------------------------------------------------------
(* The pricing query *)

\* Mutant: the time of ingestion is not bounded.
KnownWhenObserved(x, family, cutoff) ==
    family \in x.families /\ x.observed <= cutoff /\ x.requested <= cutoff

Known(x, family, cutoff) ==
    /\ family \in x.families
    /\ x.observed <= cutoff /\ x.ingested <= cutoff /\ x.requested <= cutoff

\* Mutant: the newest quote wins, not the newest snapshot.
NewerByQuote(x, y) ==
    \/ x.observed > y.observed
    \/ x.observed = y.observed /\ x.requested > y.requested
    \/ x.observed = y.observed /\ x.requested = y.requested /\ x.id > y.id

\* The order of the window function: request, observation, ingestion, id.
Newer(x, y) ==
    \/ x.requested > y.requested
    \/ /\ x.requested = y.requested
       /\ \/ x.observed > y.observed
          \/ x.observed = y.observed /\ x.ingested > y.ingested
          \/ x.observed = y.observed /\ x.ingested = y.ingested /\ x.id > y.id

KnownStates(family, cutoff) == {x \in stored : Known(x, family, cutoff)}

Newest(states) ==
    IF states = {} THEN NoState
    ELSE CHOOSE x \in states : \A y \in states \ {x} : Newer(x, y)

Latest(family, cutoff) == Newest(KnownStates(family, cutoff))

\* Every ingestion that could still appear at this cutoff has ended.
Settled(cutoff) == cutoff < now /\ \A x \in underway : x.ingested > cutoff

\* analyze at a cutoff, now or in a replay: the latest state of each family.
Price(cutoff) ==
    /\ Cardinality(answers) < MaxAnswers
    /\ cutoff <= now
    /\ answers' = answers \cup
          {[cutoff |-> cutoff, settled |-> Settled(cutoff),
            state |-> [f \in Family |-> Latest(f, cutoff)]]}
    /\ UNCHANGED <<now, underway, stored>>

ReplayNext ==
    \/ Tick
    \/ \E id \in 1..MaxCalls, families \in SUBSET Family \ {{}},
          requested \in 1..MaxTime, observed \in 1..MaxTime :
             Ingest(id, families, requested, observed)
    \/ \E x \in underway : Commit(x) \/ Fail(x)
    \/ \E cutoff \in 1..MaxTime : Price(cutoff)

ReplaySpec == ReplayInit /\ [][ReplayNext]_replayVars

------------------------------------------------------------------------------
(* Properties *)

\* Once the ingestions of its time have ended, a cutoff is answered the same for
\* ever: no later snapshot, late commit or backdated quote leaks into it.
SettledReplaysAgree ==
    \A a, b \in answers :
        a.settled /\ b.settled /\ a.cutoff = b.cutoff => a.state = b.state

\* A line that was superseded at one cutoff is not taken up again at a later one:
\* from cutoff to cutoff the snapshot used never goes back to an older request.
LinesNeverReturn ==
    \A a, b \in answers :
        a.settled /\ b.settled /\ a.cutoff <= b.cutoff =>
            \A f \in Family : a.state[f] # NoState =>
                b.state[f] # NoState /\ b.state[f].requested >= a.state[f].requested
=============================================================================
