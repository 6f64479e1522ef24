------------------------------ MODULE MCCommands ------------------------------
(* The commands a person runs over files and tables, each on an instance of its    *)
(* own: what historical odds cover, the sealed holdout, the feature build, the      *)
(* ingestion of game history, the research experiments and the import of legacy     *)
(* portfolios. A behavior exercises one of them.                                  *)
EXTENDS MCMarketCoverage, Holdout, MCFeatureChronology, NcaafHistory, WalkForward, MCJsonImport

VARIABLE tool

MCCohort == [e \in Evaluations |-> 1]
Interchangeable == Permutations(Command)

(* The game history: two teams, the second known late; two games, one of which is   *)
(* corrected.                                                                     *)
MCTeams == {{1}, {1, 2}}
MCRecord(h, a, done, hp, ap) ==
    [home |-> h, away |-> a, completed |-> done, homePoints |-> hp, awayPoints |-> ap]
MCGameAnswers ==
    {1 :> MCRecord(1, 2, TRUE, 3, 0),
     1 :> MCRecord(1, 2, TRUE, 3, 7) @@ 2 :> MCRecord(2, 1, FALSE, Unknown, Unknown)}

(* The experiments: four seasons of three games among four teams, two games on one   *)
(* Saturday, one a week later. All but one game of the market seasons have a market. *)
MCMatch(s, hour, home, away) ==
    [season |-> s, kickoff |-> 1000 * s + hour, home |-> home, away |-> away]

MCSchedule ==
    [g \in 1 .. 12 |->
        LET s == ((g - 1) \div 3) + 1 IN
        CASE g % 3 = 1 -> MCMatch(s, 12, 1, 2)
          [] g % 3 = 2 -> MCMatch(s, 19, 3, 4)
          [] g % 3 = 0 -> MCMatch(s, 180, 1, 3)]

MCAsOfBefore == "morning" :> 10 @@ "day" :> 24
MCQuoted == {7, 9, 10, 11, 12}

------------------------------------------------------------------------------
(* Each command on its own *)

\* The feature build that does nothing, where another command is exercised.
NoBuild ==
    /\ source = CHOOSE c \in Corpora : TRUE
    /\ morning = "fixed"
    /\ requests = <<>> /\ waiting = <<>>
    /\ absorbed = <<>> /\ totals = <<>> /\ population = <<>>
    /\ featureRows = {}

CommandsInit ==
    /\ tool \in {"coverage", "holdout", "features", "history", "research", "import"}
    /\ CoverageInit /\ HoldoutInit /\ HistoryInit /\ ResearchInit /\ ImportInit
    /\ IF tool = "features" THEN ChronicleInit ELSE NoBuild

Offline == <<asked, holdoutVars, chronicleVars, historyVars, researchVars, importVars>>

CommandsNext ==
    /\ UNCHANGED tool
    /\ \/ /\ tool = "coverage" /\ CoverageNext
          /\ UNCHANGED <<holdoutVars, chronicleVars, historyVars, researchVars, importVars>>
       \/ /\ tool = "holdout" /\ HoldoutNext
          /\ UNCHANGED <<asked, chronicleVars, historyVars, researchVars, importVars>>
       \/ /\ tool = "features" /\ ChronicleNext
          /\ UNCHANGED <<asked, holdoutVars, historyVars, researchVars, importVars>>
       \/ /\ tool = "history" /\ HistoryNext
          /\ UNCHANGED <<asked, holdoutVars, chronicleVars, researchVars, importVars>>
       \/ /\ tool = "research" /\ ResearchNext
          /\ UNCHANGED <<asked, holdoutVars, chronicleVars, historyVars, importVars>>
       \/ /\ tool = "import" /\ ImportNext
          /\ UNCHANGED <<asked, holdoutVars, chronicleVars, historyVars, researchVars>>

CommandsSpec == CommandsInit /\ [][CommandsNext]_<<tool, Offline>>
=============================================================================
