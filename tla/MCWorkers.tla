------------------------------- MODULE MCWorkers -------------------------------
(* Calls that wait, die or are aborted on the way, each kind on an instance of     *)
(* its own: portfolio transactions that deadlock, workers that install models and  *)
(* record predictions, and paid acquisitions of historical odds. A behavior         *)
(* exercises one kind and owes its progress to the fairness of that one.           *)
(*                                                                               *)
(* The archive: an audit and a market acquisition over the same two instants. The  *)
(* audit asks for three markets of the first, the acquisition for two of them      *)
(* and for all three again; the balance allows both only in part.                 *)
EXTENDS MCMutationTxn, ModelRegistry, OddsArchive

(* Three manifests: one release, the same entries in another order with one more,  *)
(* and one that changes a registered version. Two sides of a spread.               *)
Entry(k, h) == [key |-> k, hash |-> h]
MCManifests ==
    {[models |-> <<Entry("spread", 1), Entry("total", 1)>>, artifacts |-> <<Entry("freeze", 1)>>],
     [models |-> <<Entry("total", 1), Entry("spread", 1)>>,
      artifacts |-> <<Entry("freeze", 1), Entry("holdout", 1)>>],
     [models |-> <<Entry("moneyline", 1), Entry("spread", 2)>>, artifacts |-> <<Entry("freeze", 1)>>]}
HomeSpread ==
    [model |-> "spread", event |-> "game", at |-> 1, market |-> "spread", side |-> "home", point |-> -3]
AwaySpread ==
    [model |-> "spread", event |-> "game", at |-> 1, market |-> "spread", side |-> "away", point |-> 3]
\* Too late, and for a model that no manifest registers alone.
LateSpread == [HomeSpread EXCEPT !.at = 3]
Moneyline == [HomeSpread EXCEPT !.model = "moneyline", !.market = "moneyline", !.point = 0]

MCDrafts == {HomeSpread, AwaySpread, LateSpread, Moneyline}
MCFinals ==
    {[of |-> HomeSpread, at |-> 5, margin |-> 7, total |-> 41],
     [of |-> HomeSpread, at |-> 5, margin |-> 3, total |-> 41],
     [of |-> HomeSpread, at |-> 2, margin |-> 3, total |-> 41],
     [of |-> AwaySpread, at |-> 5, margin |-> 7, total |-> 41]}
MCKickoff == "game" :> 3

(* The plans and limits of the archive.                                           *)
Everything == [at |-> 20, markets |-> {"h2h", "spreads", "totals"}]
LinesOnly == [at |-> 20, markets |-> {"spreads", "totals"}]

MCKind == "audit" :> "audit" @@ "market" :> "market"
MCPlan == "audit" :> <<Everything>> @@ "market" :> <<LinesOnly, Everything>>
MCLimit == "audit" :> 6 @@ "market" :> 5
MCCallLimit == "audit" :> 2 @@ "market" :> 2
MCOffsets == {-7, 2}

VARIABLE kind

workersVars == <<kind, allVars, registryVars, archiveVars>>

WorkersInit ==
    /\ kind \in {"transaction", "registry", "archive"}
    /\ TxnInit /\ RegistryInit /\ ArchiveInit

OnlyTransactions == kind = "transaction" /\ UNCHANGED <<kind, registryVars, archiveVars>>
OnlyRegistry == kind = "registry" /\ UNCHANGED <<kind, allVars, archiveVars>>
OnlyArchive == kind = "archive" /\ UNCHANGED <<kind, allVars, registryVars>>

WorkersNext ==
    \/ OnlyTransactions /\ TxnNext
    \/ OnlyRegistry /\ RegistryNext
    \/ OnlyArchive /\ ArchiveNext

WorkersSpec ==
    /\ WorkersInit /\ [][WorkersNext]_workersVars
    /\ \A s \in Session : WF_workersVars(OnlyTransactions /\ Work(s))
    /\ \A w \in Worker : WF_workersVars(OnlyRegistry /\ Progress(w))
    /\ \A j \in Job : WF_workersVars(OnlyArchive /\ JobStep(j))

(* Every portfolio call, registry call and acquisition ends.                       *)
WorkEnds == EveryCallEnds /\ CallsEnd /\ RunsEnd
=============================================================================
