---------------------------- MODULE OddsArchive ----------------------------
(***************************************************************************)
(* The paid archive of historical odds: the audit job and the market job   *)
(* fill one directory of immutable answers under a credit ceiling. Each    *)
(* answer is three files, replaced one after the other: the artifact, its  *)
(* manifest, and the request's pointer to the current manifest. Jobs are   *)
(* processes of their own; they crash and are run again, and nothing keeps *)
(* two of them from running at once.                                       *)
(*                                                                         *)
(* A request is an instant and a set of markets (its hash), an answer is   *)
(* the timestamp of the snapshot the provider returned (its content).      *)
(* Credits are counted in tens: one per market.                            *)
(***************************************************************************)
EXTENDS Integers, Sequences, FiniteSets, SequencesExt, Sums

CONSTANTS
    Job,            \* the jobs that run, an audit or a market acquisition each
    Kind,           \* Kind[j] \in {"audit", "market"}
    Plan,           \* Plan[j]: the requests of the job, in order
    Limit,          \* Limit[j]: the credits authorised for one run
    CallLimit,      \* CallLimit[j]: the calls authorised for one run
    Credits,        \* the provider's credits at the start
    KeptBack,        \* the credits a market job leaves untouched
    CadenceChange,  \* the instant from which snapshots are five minutes apart
    Offsets,        \* how far after the requested instant a snapshot may lie
    NoSnapshot,     \* an answer without a valid timestamp
    Nothing,
    MaxAcquisitions, \* bound: runs of all jobs
    MaxLosses       \* bound: crashes, and answers that are lost on the way

VARIABLES
    artifacts, manifests, pointer,   \* the files of the archive
    remaining,                       \* the provider's balance
    jobs,                            \* jobs[j]: what the process of job j holds
    started,
    bought, losses, lostAnswers, unlisted, overlapped, audited   \* history

archive == <<artifacts, manifests, pointer>>
history == <<bought, losses, lostAnswers, unlisted, overlapped, audited>>
archiveVars == <<archive, remaining, jobs, started, history>>

\* The markets that are asked for: all of them, near the kickoff without the moneyline.
FullMarkets == {"h2h", "spreads", "totals"}
CloseMarkets == {"spreads", "totals"}

Requests == UNION {Range(Plan[j]) : j \in Job}
Answers == {NoSnapshot} \cup {r.at + d : r \in Requests, d \in Offsets}
Stored == Requests \X Answers

Cost(request) == Cardinality(request.markets)
Price == [request \in Requests |-> Cost(request)]

\* Every plan asks for something, an audit for all markets.
ASSUME ArchiveAssumption ==
    /\ Credits \in Nat /\ KeptBack \in Nat /\ Offsets \subseteq Int /\ Nothing \notin Answers
    /\ Requests \subseteq [at : Int, markets : {FullMarkets, CloseMarkets}]
    /\ \A j \in Job :
          /\ Plan[j] \in Seq(Range(Plan[j])) /\ Plan[j] # <<>>
          /\ Limit[j] \in Nat /\ CallLimit[j] \in Nat
          /\ Kind[j] \in {"audit", "market"}
          /\ Kind[j] = "audit" => \A r \in Range(Plan[j]) : r.markets = FullMarkets

(* The snapshot is the closest one before the instant: never after it.     *)
\* Mutant: the distance is taken on both sides of the instant.
EligibleNear(request, answer) ==
    /\ answer # NoSnapshot
    /\ answer <= request.at + 5
    /\ request.at - answer <= IF request.at < CadenceChange THEN 10 ELSE 5

Eligible(request, answer) ==
    /\ answer # NoSnapshot
    /\ answer <= request.at
    /\ request.at - answer <= IF request.at < CadenceChange THEN 10 ELSE 5

Idle == [pc |-> "idle", next |-> 1, index |-> {}, before |-> 0, expected |-> 0,
         spent |-> 0, calls |-> 0, answer |-> Nothing, got |-> <<>>]

ArchiveInit ==
    /\ artifacts = {}
    /\ manifests = {}
    /\ pointer = [r \in Requests |-> Nothing]
    /\ remaining = Credits
    /\ jobs = [j \in Job |-> Idle]
    /\ started = 0
    /\ bought = [r \in Requests |-> 0]
    /\ losses = 0
    /\ lostAnswers = {}
    /\ unlisted = {}
    /\ overlapped = FALSE
    /\ audited = FALSE

Running(j) == jobs[j].pc \notin {"idle", "done", "failed"}

-----------------------------------------------------------------------------
(* Looking an answer up. The exact request is read from the disk; a market *)
(* job also takes an answer with more markets at the same instant from the *)
(* manifests it listed when it started and those it has stored itself.     *)

Exact(request) ==
    IF pointer[request] # Nothing /\ <<request, pointer[request]>> \in artifacts
    THEN {<<request, pointer[request]>>} ELSE {}

Supersets(request, index) ==
    {s \in index : s[1].at = request.at /\ request.markets \subseteq s[1].markets}

\* The smallest superset; the path that breaks a tie follows no order of ours.
Smallest(found) ==
    {s \in found : \A t \in found : Cost(s[1]) <= Cost(t[1])}

Cached(request, index, kind) ==
    IF Exact(request) # {} \/ kind = "audit" THEN Exact(request)
    ELSE Smallest(Supersets(request, index))

-----------------------------------------------------------------------------
(* The run of a job.                                                        *)

Current(j) == Plan[j][jobs[j].next]

Start(j) ==
    /\ ~Running(j)
    /\ started < MaxAcquisitions
    /\ started' = started + 1
    /\ jobs' = [jobs EXCEPT ![j] = [Idle EXCEPT !.pc = "usage", !.index = manifests]]
    /\ overlapped' = (overlapped \/ \E k \in Job \ {j} : Running(k))
    /\ audited' = (audited \/ Kind[j] = "audit")
    /\ UNCHANGED <<archive, remaining, bought, losses, lostAnswers, unlisted>>

\* A run that stops early keeps only its account.
Failed(j) ==
    [jobs EXCEPT ![j] = [Idle EXCEPT !.pc = "failed", !.spent = jobs[j].spent,
                         !.expected = jobs[j].expected, !.calls = jobs[j].calls]]

\* The balance is asked for; the call may fail, and nothing is bought then.
Usage(j) ==
    /\ jobs[j].pc = "usage"
    /\ \/ jobs' = [jobs EXCEPT ![j].pc = "preflight", ![j].before = remaining]
       \/ jobs' = Failed(j)
    /\ UNCHANGED <<archive, remaining, started, history>>

Missing(j) == {r \in Range(Plan[j]) : Cached(r, jobs[j].index, Kind[j]) = {}}

\* Mutant: the reserve is compared with the balance and not with what is left.
AuthorizedByBalance(j, expected) ==
    IF Kind[j] = "audit"
    THEN jobs[j].before >= expected
    ELSE /\ expected <= Limit[j]
         /\ jobs[j].before >= KeptBack
         /\ Cardinality(Missing(j)) <= CallLimit[j]

Authorized(j, expected) ==
    IF Kind[j] = "audit"
    THEN jobs[j].before >= expected
    ELSE /\ expected <= Limit[j]
         /\ jobs[j].before - expected >= KeptBack
         /\ Cardinality(Missing(j)) <= CallLimit[j]

Preflight(j) ==
    LET expected == Total(Price, Missing(j)) IN
    /\ jobs[j].pc = "preflight"
    /\ jobs' = IF Authorized(j, expected)
               THEN [jobs EXCEPT ![j].pc = "find", ![j].expected = expected]
               ELSE Failed(j)
    /\ UNCHANGED <<archive, remaining, started, history>>

\* An audit accepts any answer; a market job checks each one it is about to use,
\* also one it has just paid for and stored.
Accepts(j, answer) == Kind[j] = "audit" \/ Eligible(Current(j), answer)

Accept(j, answer) ==
    IF Accepts(j, answer)
    THEN [jobs EXCEPT ![j].got = Append(@, answer), ![j].next = @ + 1, ![j].answer = Nothing,
                      ![j].pc = IF jobs[j].next = Len(Plan[j]) THEN "account" ELSE "find"]
    ELSE Failed(j)

Find(j) ==
    LET found == Cached(Current(j), jobs[j].index, Kind[j]) IN
    /\ jobs[j].pc = "find"
    /\ \/ /\ found = {}
          /\ jobs' = [jobs EXCEPT ![j].pc = "fetch"]
       \/ \E s \in found : jobs' = Accept(j, s[2])
    /\ UNCHANGED <<archive, remaining, started, history>>

\* The provider charges and answers. It may answer an instant differently later.
PaidFetch(j) ==
    /\ jobs[j].pc = "fetch"
    /\ remaining >= Cost(Current(j))
    /\ remaining' = remaining - Cost(Current(j))
    /\ bought' = [bought EXCEPT ![Current(j)] = @ + 1]
    /\ \E answer \in {NoSnapshot} \cup {Current(j).at + d : d \in Offsets} :
          jobs' = [jobs EXCEPT ![j].pc = "artifact", ![j].answer = answer,
                               ![j].calls = @ + 1, ![j].spent = @ + Cost(Current(j))]
    /\ UNCHANGED <<archive, started, losses, lostAnswers, unlisted, overlapped, audited>>

\* The request fails and is not charged: refused, or no credits are left.
FetchRefused(j) ==
    /\ jobs[j].pc = "fetch"
    /\ jobs' = Failed(j)
    /\ UNCHANGED <<archive, remaining, started, history>>

\* The answer is charged and does not arrive, or cannot be parsed.
FetchLost(j) ==
    /\ jobs[j].pc = "fetch"
    /\ losses < MaxLosses
    /\ remaining >= Cost(Current(j))
    /\ remaining' = remaining - Cost(Current(j))
    /\ bought' = [bought EXCEPT ![Current(j)] = @ + 1]
    /\ losses' = losses + 1
    /\ lostAnswers' = lostAnswers \cup {Current(j)}
    /\ jobs' = [jobs EXCEPT ![j].pc = "failed", ![j].calls = @ + 1,
                            ![j].spent = @ + Cost(Current(j))]
    /\ UNCHANGED <<archive, started, unlisted, overlapped, audited>>

\* Mutant: the manifest is written before the artifact it describes.
WriteManifestFirst(j) ==
    /\ jobs[j].pc = "artifact"
    /\ manifests' = manifests \cup {<<Current(j), jobs[j].answer>>}
    /\ jobs' = [jobs EXCEPT ![j].pc = "manifest"]
    /\ UNCHANGED <<artifacts, pointer, remaining, started, history>>

WriteArtifact(j) ==
    /\ jobs[j].pc = "artifact"
    /\ artifacts' = artifacts \cup {<<Current(j), jobs[j].answer>>}
    /\ jobs' = [jobs EXCEPT ![j].pc = "manifest"]
    /\ UNCHANGED <<manifests, pointer, remaining, started, history>>

WriteManifest(j) ==
    /\ jobs[j].pc = "manifest"
    /\ manifests' = manifests \cup {<<Current(j), jobs[j].answer>>}
    /\ jobs' = [jobs EXCEPT ![j].pc = "pointer"]
    /\ UNCHANGED <<artifacts, pointer, remaining, started, history>>

WritePointer(j) ==
    /\ jobs[j].pc = "pointer"
    /\ pointer' = [pointer EXCEPT ![Current(j)] = jobs[j].answer]
    /\ jobs' = [Accept(j, jobs[j].answer) EXCEPT
                   ![j].index = @ \cup {<<Current(j), jobs[j].answer>>}]
    /\ UNCHANGED <<artifacts, manifests, remaining, started, history>>

\* The balance is asked for again. What other runs spent meanwhile counts too.
AccountFor(j) ==
    LET consumed == jobs[j].before - remaining IN
    /\ jobs[j].pc = "account"
    /\ \/ /\ consumed <= Limit[j]
          /\ jobs' = [jobs EXCEPT ![j].pc = "done", ![j].index = {}]
       \/ jobs' = Failed(j)
    /\ UNCHANGED <<archive, remaining, started, history>>

\* What a build of the dataset, begun now, loads for a request of its plan.
Loads(request) == Cached(request, manifests, "market")

\* A crash loses the run, and an answer that no manifest names yet with it.
ProcessDies(j) ==
    /\ Running(j)
    /\ losses < MaxLosses
    /\ losses' = losses + 1
    /\ lostAnswers' = lostAnswers \cup
          {r \in Range(Plan[j]) : jobs[j].pc \in {"artifact", "manifest"} /\ r = Current(j)}
    /\ unlisted' = unlisted \cup
          {r \in Range(Plan[j]) : jobs[j].pc = "pointer" /\ r = Current(j)}
    /\ jobs' = Failed(j)
    /\ UNCHANGED <<archive, remaining, started, bought, overlapped, audited>>

JobStep(j) ==
    \/ Usage(j) \/ Preflight(j) \/ Find(j) \/ PaidFetch(j) \/ FetchRefused(j)
    \/ WriteArtifact(j) \/ WriteManifest(j) \/ WritePointer(j) \/ AccountFor(j)

ArchiveNext ==
    \E j \in Job : Start(j) \/ JobStep(j) \/ FetchLost(j) \/ ProcessDies(j)

ArchiveSpec ==
    /\ ArchiveInit /\ [][ArchiveNext]_archiveVars
    /\ \A j \in Job : WF_archiveVars(JobStep(j))

-----------------------------------------------------------------------------
(* Type invariant: the files, the balance and the runs keep their types.   *)
ArchiveTypeOK ==
    /\ artifacts \subseteq Stored /\ manifests \subseteq Stored
    /\ pointer \in [Requests -> Answers \cup {Nothing}]
    /\ remaining \in 0..Credits
    /\ DOMAIN jobs = Job
    /\ \A j \in Job : jobs[j].next \in 1..(Len(Plan[j]) + 1)

(* A pointer names a manifest and an artifact that are there, and a listed *)
(* manifest has its artifact, whatever crashed between the three writes:   *)
(* the superset lookup opens the artifact without asking whether it exists.*)
ArchiveSound ==
    /\ \A r \in Requests : pointer[r] # Nothing => <<r, pointer[r]>> \in manifests
    /\ manifests \subseteq artifacts

(* One run never spends more than its own preflight found missing, and a   *)
(* market run not more than was authorised, also when others overlap it.    *)
SpendWithinPreflight ==
    \A j \in Job :
        /\ jobs[j].spent <= jobs[j].expected
        /\ Kind[j] = "market" => /\ jobs[j].spent <= Limit[j]
                                 /\ jobs[j].calls <= CallLimit[j]

(* Market runs that do not overlap any other job leave the reserve alone.  *)
ReserveKept == overlapped \/ audited \/ remaining = Credits \/ remaining >= KeptBack

(* A request is paid for once, unless its answer was lost or runs          *)
(* overlapped. A crash before the pointer is written costs only an audit:   *)
(* the next market run finds the manifest.                                 *)
PaidOnce ==
    \A r \in Requests : bought[r] > 1 =>
        overlapped \/ r \in lostAnswers \/ (audited /\ r \in unlisted)

(* Every credit is accounted for: within what a run's preflight authorised, *)
(* above the reserve, and for each request once.                           *)
CreditsAccounted == ArchiveTypeOK /\ SpendWithinPreflight /\ ReserveKept /\ PaidOnce

(* What a finished market run has accepted is what a later build loads from *)
(* the archive, snapshot by snapshot, and lies at or before its cutoff.     *)
FinishedPlanStands ==
    \A j \in Job : jobs[j].pc = "done" /\ Kind[j] = "market" =>
        \A i \in DOMAIN Plan[j] :
            LET r == Plan[j][i] IN
            /\ jobs[j].got[i] # NoSnapshot /\ jobs[j].got[i] <= r.at
            /\ overlapped \/ lostAnswers \cup unlisted # {}
               \/ (Loads(r) # {} /\ \A s \in Loads(r) : s[2] = jobs[j].got[i])

(* Every run ends: done, or failed with its reason.                        *)
RunsEnd == \A j \in Job : Running(j) ~> ~Running(j)
=============================================================================
