--------------------------- MODULE ModelRegistry ---------------------------
(***************************************************************************)
(* The registry of models and artifacts, and the shadow ledger of          *)
(* predictions and outcomes beside it. Every worker installs the committed *)
(* manifest when it starts: one transaction for the models, one for the    *)
(* artifacts, each a sequence of look-ups and inserts. Predictions and     *)
(* outcomes are recorded by commands of their own. Rows are never updated. *)
(*                                                                         *)
(* The database is read committed with unique keys: an insert waits while  *)
(* another transaction holds the key, and fails when that one committed.   *)
(* An entry is a key (id and version) with its hash.                       *)
(***************************************************************************)
EXTENDS Integers, Sequences, FiniteSets, SequencesExt

CONSTANTS
    Worker,
    Manifests,      \* each [models, artifacts]: sequences of [key, hash]
    Drafts,         \* predictions: [model, event, at, market, side, point]
    Finals,         \* outcomes: [of, at, margin, total]
    Kickoff,        \* Kickoff[event]
    None,
    MaxTransactions \* bound: calls of all workers

Tables == {"models", "artifacts"}
Keys(table) == UNION {{e.key : e \in Range(m[table])} : m \in Manifests}

ASSUME RegistryAssumption ==
    /\ \A m \in Manifests, t \in Tables :
          /\ m[t] \in Seq(Range(m[t])) /\ m[t] # <<>>
          /\ IsInjective([i \in DOMAIN m[t] |-> m[t][i].key])
          /\ \A e \in Range(m[t]) : e.hash # None
    /\ \A d \in Drafts : d.market \in {"moneyline", "spread", "total"} /\ d.point \in Int
    /\ \A f \in Finals : f.of \in Drafts /\ f.margin \in Int /\ f.total \in Int

VARIABLES
    registry,       \* registry[table][key]: the hash of the committed entry
    predictions,    \* committed predictions
    outcomes,       \* outcomes[draft]: the committed final and its result
    transaction,    \* transaction[w]: the call in progress
    made            \* how many calls were made

registryVars == <<registry, predictions, outcomes, transaction, made>>

Quiet == [call |-> "none", table |-> "models", next |-> 1, found |-> FALSE, held |-> {},
          manifest |-> None, draft |-> None, final |-> None]

RegistryInit ==
    /\ registry = [t \in Tables |-> [k \in Keys(t) |-> None]]
    /\ predictions = {}
    /\ outcomes = [d \in Drafts |-> None]
    /\ transaction = [w \in Worker |-> Quiet]
    /\ made = 0

Busy(w) == transaction[w].call # "none"

Call(w, call) ==
    /\ ~Busy(w)
    /\ made < MaxTransactions
    /\ made' = made + 1
    /\ transaction' = [transaction EXCEPT ![w] = call]
    /\ UNCHANGED <<registry, predictions, outcomes>>

Finish(w) == transaction' = [transaction EXCEPT ![w] = Quiet]

\* An error rolls back: nothing the transaction inserted is kept or held.
RollBack(w) == Finish(w) /\ UNCHANGED <<registry, predictions, outcomes, made>>

-----------------------------------------------------------------------------
(* Installing a manifest.                                                   *)

Items(w) == transaction[w].manifest[transaction[w].table]
Item(w) == Items(w)[transaction[w].next]
Committed(w) == registry[transaction[w].table][Item(w).key]
More(w) == transaction[w].next <= Len(Items(w))

Install(w) == \E m \in Manifests : Call(w, [Quiet EXCEPT !.call = "install", !.manifest = m])

\* The entry is there with this hash, or with another, or is not there yet.
\* Mutant: a conflict leaves the transaction, and its keys, open.
LookUpAndStay(w) ==
    /\ transaction[w].call = "install" /\ More(w) /\ ~transaction[w].found
    /\ \/ /\ Committed(w) = None
          /\ transaction' = [transaction EXCEPT ![w].found = TRUE]
          /\ UNCHANGED <<registry, predictions, outcomes, made>>
       \/ /\ Committed(w) = Item(w).hash
          /\ transaction' = [transaction EXCEPT ![w].next = @ + 1]
          /\ UNCHANGED <<registry, predictions, outcomes, made>>

LookUp(w) ==
    /\ transaction[w].call = "install" /\ More(w) /\ ~transaction[w].found
    /\ \/ /\ Committed(w) = None
          /\ transaction' = [transaction EXCEPT ![w].found = TRUE]
          /\ UNCHANGED <<registry, predictions, outcomes, made>>
       \/ /\ Committed(w) = Item(w).hash
          /\ transaction' = [transaction EXCEPT ![w].next = @ + 1]
          /\ UNCHANGED <<registry, predictions, outcomes, made>>
       \/ /\ Committed(w) \notin {None, Item(w).hash}
          /\ RollBack(w)

HeldBy(v, table, key) ==
    transaction[v].call = "install" /\ transaction[v].table = table
      /\ key \in {e.key : e \in transaction[v].held}

\* w's insert waits for the transaction of v.
WaitsFor(w, v) ==
    /\ v # w /\ transaction[w].call = "install" /\ transaction[w].found
    /\ HeldBy(v, transaction[w].table, Item(w).key)

\* Mutant: a key that was inserted meanwhile is overwritten.
InsertOrUpdate(w) ==
    /\ transaction[w].call = "install" /\ transaction[w].found
    /\ \A v \in Worker : ~WaitsFor(w, v)
    /\ transaction' = [transaction EXCEPT ![w].held = @ \cup {Item(w)}, ![w].found = FALSE,
                                          ![w].next = @ + 1]
    /\ UNCHANGED <<registry, predictions, outcomes, made>>

Insert(w) ==
    /\ transaction[w].call = "install" /\ transaction[w].found
    /\ \A v \in Worker : ~WaitsFor(w, v)
    /\ IF Committed(w) # None THEN RollBack(w)
       ELSE /\ transaction' = [transaction EXCEPT ![w].held = @ \cup {Item(w)}, ![w].found = FALSE,
                                                  ![w].next = @ + 1]
            /\ UNCHANGED <<registry, predictions, outcomes, made>>

\* The database ends a cycle of waiting transactions by failing one of them.
Victim(w) ==
    /\ \E v \in Worker : WaitsFor(w, v) /\ WaitsFor(v, w)
    /\ RollBack(w)

AfterCommit(w) ==
    IF transaction[w].table = "models"
    THEN transaction' = [transaction EXCEPT ![w].table = "artifacts", ![w].next = 1, ![w].held = {}]
    ELSE Finish(w)

With(rows, entries) ==
    [k \in DOMAIN rows |-> IF \E e \in entries : e.key = k
                           THEN (CHOOSE e \in entries : e.key = k).hash ELSE rows[k]]

\* Mutant: what was inserted is committed entry by entry.
CommitEach(w) ==
    /\ transaction[w].call = "install"
    /\ transaction[w].held # {} \/ ~More(w)
    /\ registry' = [registry EXCEPT ![transaction[w].table] = With(@, transaction[w].held)]
    /\ IF More(w) THEN transaction' = [transaction EXCEPT ![w].held = {}] ELSE AfterCommit(w)
    /\ UNCHANGED <<predictions, outcomes, made>>

CommitInstall(w) ==
    /\ transaction[w].call = "install" /\ ~More(w)
    /\ registry' = [registry EXCEPT ![transaction[w].table] = With(@, transaction[w].held)]
    /\ AfterCommit(w)
    /\ UNCHANGED <<predictions, outcomes, made>>

-----------------------------------------------------------------------------
(* Recording a prediction: the same prediction is returned, a new one needs *)
(* a registered model and a time before the kickoff.                       *)

Record(w) == \E d \in Drafts : Call(w, [Quiet EXCEPT !.call = "record", !.draft = d])

Registered(model) == model \in Keys("models") /\ registry["models"][model] # None

Recordable(d) == Registered(d.model) /\ d.at < Kickoff[d.event]

CheckDraft(w) ==
    LET d == transaction[w].draft IN
    /\ transaction[w].call = "record" /\ ~transaction[w].found
    /\ IF d \in predictions \/ ~Recordable(d) THEN RollBack(w)
       ELSE /\ transaction' = [transaction EXCEPT ![w].found = TRUE]
            /\ UNCHANGED <<registry, predictions, outcomes, made>>

\* A second insert of the same hash fails; either way the row is there.
AppendPrediction(w) ==
    /\ transaction[w].call = "record" /\ transaction[w].found
    /\ predictions' = predictions \cup {transaction[w].draft}
    /\ Finish(w)
    /\ UNCHANGED <<registry, outcomes, made>>

-----------------------------------------------------------------------------
(* Attaching an outcome. The grade is computed from the prediction's line.  *)

Grade(d, margin, total) ==
    LET signed(n) == IF d.side \in {"home", "over"} THEN n ELSE -n
        edge == CASE d.market = "moneyline" -> signed(margin)
                  [] d.market = "spread" -> signed(margin) + d.point
                  [] d.market = "total" -> signed(total - d.point)
    IN  IF edge > 0 THEN "win" ELSE IF edge < 0 THEN "loss" ELSE "push"

Attach(w) ==
    \E f \in Finals : Call(w, [Quiet EXCEPT !.call = "attach", !.draft = f.of, !.final = f])

Attachable(d, f) ==
    d \in predictions /\ outcomes[d] = None /\ f.at >= Kickoff[d.event]

CheckFinal(w) ==
    /\ transaction[w].call = "attach" /\ ~transaction[w].found
    /\ IF ~Attachable(transaction[w].draft, transaction[w].final) THEN RollBack(w)
       ELSE /\ transaction' = [transaction EXCEPT ![w].found = TRUE]
            /\ UNCHANGED <<registry, predictions, outcomes, made>>

\* One outcome per prediction: the slower insert fails.
InsertOutcome(w) ==
    LET d == transaction[w].draft
        f == transaction[w].final
    IN  /\ transaction[w].call = "attach" /\ transaction[w].found
        /\ IF outcomes[d] # None THEN UNCHANGED outcomes
           ELSE outcomes' = [outcomes EXCEPT ![d] = [final |-> f,
                                                     result |-> Grade(d, f.margin, f.total)]]
        /\ Finish(w)
        /\ UNCHANGED <<registry, predictions, made>>

-----------------------------------------------------------------------------
\* A worker dies; its transaction is rolled back, what it committed stays.
Die(w) == Busy(w) /\ RollBack(w)

Progress(w) ==
    \/ LookUp(w) \/ Insert(w) \/ Victim(w) \/ CommitInstall(w)
    \/ CheckDraft(w) \/ AppendPrediction(w) \/ CheckFinal(w) \/ InsertOutcome(w)

RegistryNext ==
    \E w \in Worker : Install(w) \/ Record(w) \/ Attach(w) \/ Progress(w) \/ Die(w)

RegistrySpec ==
    /\ RegistryInit /\ [][RegistryNext]_registryVars
    /\ \A w \in Worker : WF_registryVars(Progress(w))

-----------------------------------------------------------------------------
(* Type invariant: rows are hashes of their manifests' entries.             *)
RegistryTypeOK ==
    /\ \A t \in Tables : \A k \in Keys(t) :
          registry[t][k] = None \/
             \E m \in Manifests : \E e \in Range(m[t]) : e.key = k /\ e.hash = registry[t][k]
    /\ predictions \subseteq Drafts
    /\ \A d \in Drafts : outcomes[d] # None => outcomes[d].final \in Finals

(* A registered version, a recorded prediction and an attached outcome never *)
(* change and never disappear, whichever workers race.                      *)
RowsAreForever ==
    [][/\ \A t \in Tables : \A k \in Keys(t) : registry[t][k] # None => registry'[t][k] = registry[t][k]
       /\ predictions \subseteq predictions'
       /\ \A d \in Drafts : outcomes[d] # None => outcomes'[d] = outcomes[d]]_registryVars

Installed(m, table) == \A e \in Range(m[table]) : registry[table][e.key] = e.hash

(* Manifests are installed whole: each registered entry is of a manifest    *)
(* with all its entries in place, and no artifact is there before the       *)
(* models of its manifest, also when the worker dies in between.            *)
ManifestsWhole ==
    /\ \A t \in Tables : \A k \in Keys(t) : registry[t][k] # None =>
          \E m \in Manifests : k \in {e.key : e \in Range(m[t])} /\ Installed(m, t)
    /\ \A k \in Keys("artifacts") : registry["artifacts"][k] # None =>
          \E m \in Manifests : k \in {e.key : e \in Range(m["artifacts"])}
                                 /\ Installed(m, "models") /\ Installed(m, "artifacts")

(* A prediction is for a model that is registered and a game that had not   *)
(* started by its own timestamp, and an outcome is later than the kickoff.   *)
ShadowInOrder ==
    /\ \A d \in predictions : Recordable(d)
    /\ \A d \in Drafts : outcomes[d] # None =>
          d \in predictions /\ Kickoff[d.event] <= outcomes[d].final.at

Mirror == [win |-> "loss", loss |-> "win", push |-> "push"]

Mirrored(d, e) ==
    /\ d.event = e.event /\ d.market = e.market
    /\ {d.side, e.side} = IF d.market = "total" THEN {"over", "under"} ELSE {"home", "away"}
    /\ d.point = IF d.market = "spread" THEN -e.point ELSE e.point

(* The two sides of one line are graded against each other: when one wins   *)
(* the other loses, and they push together.                                 *)
GradesMirror ==
    \A d, e \in Drafts :
        Mirrored(d, e) /\ outcomes[d] # None /\ outcomes[e] # None =>
            (outcomes[d].final.margin = outcomes[e].final.margin
               /\ outcomes[d].final.total = outcomes[e].final.total
             => outcomes[d].result = Mirror[outcomes[e].result])

(* The registry is sound: types, whole manifests, predictions and outcomes   *)
(* in the order of the games, and grades that mirror each other.             *)
RegistrySound == RegistryTypeOK /\ ManifestsWhole /\ ShadowInOrder /\ GradesMirror

(* Every call ends: nothing waits for a key for ever.                       *)
CallsEnd == \A w \in Worker : Busy(w) ~> ~Busy(w)
=============================================================================
