---------------------------- MODULE MarketRefresh ----------------------------
(* Calls to the provider and the decisions made from what it answers. Several   *)
(* processes serve requests; each has a cache of the last answer and one lock     *)
(* that keeps refreshes apart. A refresh fetches, stores a snapshot, and decides   *)
(* on every slate with games to come; a reader of the odds fetches and stores      *)
(* without the lock; an analysis decides on one slate at a cutoff of its choice.   *)
EXTENDS Integers, FiniteSets, FiniteSetsExt

CONSTANTS
    Caller, Server,
    Slate,          \* dates, in their order
    Kickoffs,       \* Kickoffs[s]: when the games of a slate start
    Lifetime,       \* how long a cached answer is used
    MaxRetries,
    Freshness,      \* how old a snapshot may be that counts as fresh
    Lead, Window,   \* the horizon before the first kickoff, and its tolerance
    Cutoffs,        \* the cutoffs an analysis may be asked for
    Nobody,
    MaxTime, MaxRequests, MaxRestarts    \* bounds

VARIABLES
    clock,
    caller,         \* caller[c]: the request it serves and how far it is
    busy,           \* busy[p]: p's refresh lock
    cache,          \* cache[p]: the last answer, with the time it is filed under
    answers,        \* stored answers
    lastAttempt,    \* "none", "success" or "failed"
    runs,           \* decision runs
    requests, restarts

refreshVars == <<clock, caller, busy, cache, answers, lastAttempt, runs, requests, restarts>>

ASSUME RefreshAssumption ==
    /\ Slate \subseteq Nat
    /\ Kickoffs \in [Slate -> SUBSET Nat]
    /\ {Lifetime, MaxRetries, Freshness, Lead, Window} \cup Cutoffs \subseteq Nat

Resting == [pc |-> "idle"]

RefreshInit ==
    /\ clock = 1
    /\ caller = [c \in Caller |-> Resting]
    /\ busy = [p \in Server |-> Nobody]
    /\ cache = [p \in Server |-> Nobody]
    /\ answers = {}
    /\ lastAttempt = "none"
    /\ runs = {}
    /\ requests = 0 /\ restarts = 0

Pass ==
    /\ clock < MaxTime
    /\ clock' = clock + 1
    /\ UNCHANGED <<caller, busy, cache, answers, lastAttempt, runs, requests, restarts>>

Advance(c, fields) == caller' = [caller EXCEPT ![c] = fields]

\* Mutant: an error of the provider leaves the lock taken.
FreedOnAnswer(c) ==
    [p \in Server |-> IF busy[p] = c /\ caller[c].pc # "request" THEN Nobody ELSE busy[p]]

Freed(c) == [p \in Server |-> IF busy[p] = c THEN Nobody ELSE busy[p]]

\* The request ends, in any way: a refresh gives its lock back.
Leave(c) ==
    /\ Advance(c, Resting)
    /\ busy' = Freed(c)

Arrive(c) ==
    /\ caller[c].pc = "idle"
    /\ requests < MaxRequests
    /\ requests' = requests + 1
    /\ UNCHANGED <<clock, answers, lastAttempt, runs, restarts>>

------------------------------------------------------------------------------
(* The provider *)

\* An answer to be stored: requested then, asked of the provider maybe earlier.
Storing(p, kind, requested, asked) ==
    [pc |-> "store", server |-> p, kind |-> kind, requested |-> requested, asked |-> asked]

Usable(entry) == entry # Nobody /\ clock - entry.at <= Lifetime

\* The time of the request is read before the cache is, and before any retry.
Ask(c, p, kind) ==
    /\ Advance(c, IF Usable(cache[p]) THEN Storing(p, kind, clock, cache[p].asked)
                  ELSE [pc |-> "request", server |-> p, kind |-> kind, requested |-> clock,
                        attempt |-> 0])
    /\ UNCHANGED cache

StartRefresh(c, p) ==
    /\ Arrive(c)
    /\ busy[p] = Nobody
    /\ busy' = [busy EXCEPT ![p] = c]
    /\ Ask(c, p, "refresh")

ReadOdds(c, p) ==
    /\ Arrive(c)
    /\ Ask(c, p, "read")
    /\ UNCHANGED busy

\* A valid answer; it is cached whatever the cache holds by now.
Answered(c) ==
    /\ caller[c].pc = "request"
    /\ cache' = [cache EXCEPT ![caller[c].server] =
                    [at |-> caller[c].requested, asked |-> caller[c].requested]]
    /\ Advance(c, Storing(caller[c].server, caller[c].kind, caller[c].requested, caller[c].requested))
    /\ UNCHANGED <<clock, busy, answers, lastAttempt, runs, requests, restarts>>

\* A timeout, a lost connection, a status that says try again.
Retried(c) ==
    /\ caller[c].pc = "request" /\ caller[c].attempt < MaxRetries
    /\ Advance(c, [caller[c] EXCEPT !.attempt = @ + 1])
    /\ UNCHANGED <<clock, busy, cache, answers, lastAttempt, runs, requests, restarts>>

\* The retries are used up, the answer is an error that stays or is not valid:
\* the failure is stored.
Refused(c) ==
    /\ caller[c].pc = "request"
    /\ lastAttempt' = "failed"
    /\ Leave(c)
    /\ UNCHANGED <<clock, cache, answers, runs, requests, restarts>>

------------------------------------------------------------------------------
(* The snapshot and the decisions *)

Upcoming(s, cutoff) == {k \in Kickoffs[s] : k > cutoff}

\* Mutant: decisions are made as of the request.
CutoffAtRequest(c) == caller[c].requested

\* Decisions are made as of the completion of the ingestion.
CutoffOf(c) == clock

\* Mutant: a snapshot is dated by its completion.
RequestedAtCompletion(c) == clock

\* A snapshot is dated by its request, also when the cache answered it.
RequestedAt(c) == caller[c].requested

\* Slates that are left to decide as of a cutoff; own is the snapshot the refresh stored, 0 if
\* the cutoff was asked for.
Deciding(p, asOf, todo, own) ==
    [pc |-> "decide", server |-> p, asOf |-> asOf, todo |-> todo, own |-> own]

\* The answer is stored, and a refresh goes on to the slates with games to come.
Store(c) ==
    LET slates == {s \in Slate : Upcoming(s, CutoffOf(c)) # {}} IN
    /\ caller[c].pc = "store"
    /\ answers' = answers \cup
          {[requested |-> RequestedAt(c), asked |-> caller[c].asked, completed |-> clock,
            n |-> Cardinality(answers) + 1]}
    /\ lastAttempt' = "success"
    /\ IF caller[c].kind = "refresh" /\ slates # {}
       THEN /\ Advance(c, Deciding(caller[c].server, CutoffOf(c), slates, Cardinality(answers) + 1))
            /\ UNCHANGED busy
       ELSE Leave(c)
    /\ UNCHANGED <<clock, cache, runs, requests, restarts>>

\* An analysis through the API: a slate and a cutoff, past or to come.
StartAnalysis(c, p, s, asOf) ==
    /\ Arrive(c)
    /\ Advance(c, Deciding(p, asOf, {s}, 0))
    /\ UNCHANGED <<busy, cache>>

StoredBy(asOf) == {x \in answers : x.completed <= asOf /\ x.requested <= asOf}

\* The newest state, by request, then by arrival.
StateAt(asOf) ==
    IF StoredBy(asOf) = {} THEN 0
    ELSE (CHOOSE x \in StoredBy(asOf) : \A y \in StoredBy(asOf) :
             x.requested > y.requested \/ (x.requested = y.requested /\ x.n >= y.n)).n

\* The horizon of a slate, counted from the first of the games still to come.
HorizonOf(s, asOf) == Min(Upcoming(s, asOf)) - Lead

TimingOf(s, asOf) ==
    IF Upcoming(s, asOf) = {} THEN "none"
    ELSE IF asOf < HorizonOf(s, asOf) THEN "early"
    ELSE IF asOf <= HorizonOf(s, asOf) + Window THEN "official"
    ELSE "post"

DecisionFor(c, s) ==
    [slate |-> s, asOf |-> caller[c].asOf, used |-> StateAt(caller[c].asOf),
     timing |-> TimingOf(s, caller[c].asOf)]

\* What the hash of a run covers.
Content(r) == [slate |-> r.slate, asOf |-> r.asOf, used |-> r.used, timing |-> r.timing]

Known(decision) == \E r \in runs : Content(r) = decision

\* The slate is done, and with it, maybe, the request.
Done(c, s) ==
    IF caller[c].todo = {s} THEN Leave(c)
    ELSE /\ Advance(c, Deciding(caller[c].server, caller[c].asOf, caller[c].todo \ {s}, caller[c].own))
         /\ UNCHANGED busy

\* Slates in order of date. A decision that is there already is returned as it is.
Decide(c) ==
    LET s == Min(caller[c].todo) IN
    /\ caller[c].pc = "decide"
    /\ IF Known(DecisionFor(c, s)) THEN Done(c, s)
       ELSE /\ Advance(c, [pc |-> "insert", server |-> caller[c].server, asOf |-> caller[c].asOf,
                           todo |-> caller[c].todo, own |-> caller[c].own,
                           decision |-> DecisionFor(c, s), read |-> clock])
            /\ UNCHANGED busy
    /\ UNCHANGED <<clock, cache, answers, lastAttempt, runs, requests, restarts>>

Collides(decision) == Known(decision)

\* The insert meets the unique hash: a run that came in since fails the request.
InsertRun(c) ==
    LET d == caller[c].decision IN
    /\ caller[c].pc = "insert"
    /\ IF Collides(d) THEN Leave(c) /\ UNCHANGED runs
       ELSE /\ runs' = runs \cup
                  {[slate |-> d.slate, asOf |-> d.asOf, used |-> d.used, timing |-> d.timing,
                    at |-> caller[c].read, own |-> caller[c].own, n |-> Cardinality(runs) + 1]}
            /\ Done(c, d.slate)
    /\ UNCHANGED <<clock, cache, answers, lastAttempt, requests, restarts>>

\* Storing or deciding raises: what was stored of earlier steps stays.
Abandon(c) ==
    /\ caller[c].pc \in {"store", "decide", "insert"}
    /\ Leave(c)
    /\ UNCHANGED <<clock, cache, answers, lastAttempt, runs, requests, restarts>>

Restart(p) ==
    /\ restarts < MaxRestarts
    /\ restarts' = restarts + 1
    /\ caller' = [c \in Caller |-> IF caller[c].pc # "idle" /\ caller[c].server = p THEN Resting
                                   ELSE caller[c]]
    /\ busy' = [busy EXCEPT ![p] = Nobody]
    /\ cache' = [cache EXCEPT ![p] = Nobody]
    /\ UNCHANGED <<clock, answers, lastAttempt, runs, requests>>

Serve(c) == Answered(c) \/ Retried(c) \/ Refused(c) \/ Store(c) \/ Decide(c) \/ InsertRun(c) \/ Abandon(c)

RefreshNext ==
    \/ Pass
    \/ \E c \in Caller, p \in Server :
          \/ StartRefresh(c, p)
          \/ ReadOdds(c, p)
          \/ \E s \in Slate, asOf \in Cutoffs : StartAnalysis(c, p, s, asOf)
    \/ \E c \in Caller : Serve(c)
    \/ \E p \in Server : Restart(p)

\* A call to the provider ends in an answer or a timeout, a statement of the
\* database in a result or an error, and the threads of a server get their turn.
RefreshFairness == \A c \in Caller : WF_refreshVars(Serve(c))

RefreshSpec == RefreshInit /\ [][RefreshNext]_refreshVars /\ RefreshFairness

------------------------------------------------------------------------------
(* The market state the dashboard reports *)

LastSuccess == Max({x.requested : x \in answers})

MarketStatus ==
    IF lastAttempt = "failed" THEN "ERROR"
    ELSE IF answers = {} THEN "UNAVAILABLE"
    ELSE IF clock - LastSuccess > Freshness THEN "STALE"
    ELSE "FRESH"

\* Mutant: the run created last is shown.
ShownCreatedLast(s) ==
    {r \in runs : r.slate = s /\ \A q \in runs : q.slate = s => r.n >= q.n}

\* The runs shown for a slate: those of the latest cutoff. The recommendations are
\* listed of all of them, the watchlist of whichever comes first by its random id.
Shown(s) == {r \in runs : r.slate = s /\ \A q \in runs : q.slate = s => r.asOf >= q.asOf}

------------------------------------------------------------------------------
(* What is called fresh was asked of the provider that long ago, and at most the  *)
(* lifetime of the cache longer, whoever filled the cache and how often it was    *)
(* hit.                                                                        *)
FreshMeansRecent ==
    MarketStatus = "FRESH" =>
        \E x \in answers : x.requested = LastSuccess /\ clock - x.asked <= Freshness + Lifetime

(* A refresh decides with the prices it has just stored, or newer ones.          *)
DecisionsSeeTheirSnapshot ==
    \A r \in runs : r.own # 0 =>
        \E x, y \in answers : x.n = r.own /\ y.n = r.used /\ y.requested >= x.requested

(* No two stored runs are the same decision, however many workers decided it.    *)
RunsAreDistinct ==
    \A q, r \in runs : Content(q) = Content(r) => q = r

(* A decision is stored once, and with the prices of its own refresh or newer ones. *)
DecisionsSound == DecisionsSeeTheirSnapshot /\ RunsAreDistinct

(* Past decisions can be replayed without replacing what is shown: as long as     *)
(* nobody analysed a slate for a cutoff still to come, whatever is shown for it     *)
(* used the newest market state that any decision on the slate used.             *)
ShownUsesNewestState ==
    (\A x, y \in answers : x.completed = y.completed => x = y) =>
        \A s \in {r.slate : r \in runs} :
            (\A r \in runs : r.slate = s => r.own # 0 \/ r.asOf < r.at) =>
                \A r \in runs, shown \in Shown(s) : r.slate = s /\ r.used # 0 =>
                    \E x, y \in answers :
                        x.n = r.used /\ y.n = shown.used /\ y.requested >= x.requested

(* Every request ends, however often the provider fails, and takes no lock with    *)
(* it: the next refresh is not refused for ever.                                *)
RequestsEnd ==
    \A c \in Caller :
        caller[c].pc # "idle" ~> caller[c].pc = "idle" /\ \A p \in Server : busy[p] # c

(* The primary horizon of a slate lies before its first kickoff: once a decision  *)
(* was official or past it, no later cutoff is early. The code fails this when    *)
(* the first game has started: the horizon is then counted from the next one.     *)
HorizonPassesOnce ==
    \A q, r \in runs :
        q.slate = r.slate /\ q.asOf < r.asOf /\ q.timing \in {"official", "post"} => r.timing # "early"
=============================================================================
