------------------------------ MODULE Holdout ------------------------------
(***************************************************************************)
(* The sealed season: one unlock against the frozen tournament, the inputs *)
(* that are built under it, the evaluation that writes two tables, a       *)
(* manifest and a report, and the validation of the report. Every command  *)
(* is a process over one directory; commands crash and overlap.            *)
(*                                                                         *)
(* A table is named by the inputs it was computed from (the hash of a file *)
(* is its content), an unlock by the number of the command that made it.   *)
(***************************************************************************)
EXTENDS Integers, FiniteSets

CONSTANTS
    Command,        \* the processes
    Evaluations,    \* pairs of feature and market manifests to evaluate
    Cohort,         \* Cohort[e]: the games of evaluation e
    Torn,           \* a file whose writer crashed
    Absent,
    MaxCommands,    \* bound: commands run
    MaxCrashes      \* bound: crashes

ASSUME HoldoutAssumption == MaxCommands \in Nat /\ Absent \notin Nat

VARIABLES
    tournament,             \* the manifest of the tournament: "frozen" or "rerun"
    records, unlocked,      \* the unlock records, and the pointer to one
    inputs,                 \* built under the unlock
    points, probabilities,  \* the tables of the evaluation
    manifest, report,       \* their manifest, and the report beside the documents
    commands,               \* commands[c]: what a process holds
    issued, crashes,
    verified, accepted, raced, mixed     \* history

evaluation == <<points, probabilities, manifest, report>>
seal == <<records, unlocked>>
ghosts == <<verified, accepted, raced, mixed>>
holdoutVars == <<tournament, seal, inputs, evaluation, commands, issued, crashes, ghosts>>

Resting == [name |-> "none", at |-> "rest", id |-> 0, of |-> Absent, unlock |-> Absent,
            report |-> Absent]

HoldoutInit ==
    /\ tournament = "frozen"
    /\ records = {} /\ unlocked = Absent
    /\ inputs = {}
    /\ points = Absent /\ probabilities = Absent
    /\ manifest = Absent /\ report = Absent
    /\ commands = [c \in Command |-> Resting]
    /\ issued = 0 /\ crashes = 0
    /\ verified = {} /\ accepted = {} /\ raced = FALSE /\ mixed = FALSE

Goes(c, at) == commands' = [commands EXCEPT ![c].at = at]
Ends(c) == commands' = [commands EXCEPT ![c] = Resting]
At(c, name, at) == commands[c].name = name /\ commands[c].at = at

\* A command is issued; of two that overlap, unlocks race and evaluations mix.
Issue(c, name, of) ==
    LET Others(n) == \E d \in Command \ {c} : commands[d].name = n IN
    /\ commands[c] = Resting
    /\ issued < MaxCommands
    /\ issued' = issued + 1
    /\ commands' = [commands EXCEPT ![c] = [Resting EXCEPT !.name = name, !.at = "start",
                                                           !.id = issued + 1, !.of = of]]
    /\ raced' = (raced \/ (name = "unlock" /\ Others("unlock")))
    /\ mixed' = (mixed \/ (name \in {"evaluate", "validate"} /\ Others("evaluate"))
                       \/ (name = "evaluate" /\ Others("validate")))
    /\ UNCHANGED <<tournament, seal, inputs, evaluation, crashes, verified, accepted>>

\* Another tournament moves the pointer that the freeze is compared with; run on
\* the same artifacts it moves it back.
RerunTournament ==
    /\ issued < MaxCommands
    /\ issued' = issued + 1
    /\ tournament' = IF tournament = "frozen" THEN "rerun" ELSE "frozen"
    /\ UNCHANGED <<seal, inputs, evaluation, commands, crashes, ghosts>>

-----------------------------------------------------------------------------
(* Unlocking: look for the pointer, verify the frozen artifacts, write the  *)
(* record, write the pointer.                                              *)

\* Mutant: the records are looked for, and not the pointer.
CheckSealedByRecord(c) ==
    /\ At(c, "unlock", "start")
    /\ IF unlocked # Absent /\ unlocked \notin records THEN Ends(c) ELSE Goes(c, "verify")
    /\ UNCHANGED <<tournament, seal, inputs, evaluation, issued, crashes, ghosts>>

CheckSealed(c) ==
    /\ At(c, "unlock", "start")
    /\ IF unlocked # Absent THEN Ends(c) ELSE Goes(c, "verify")
    /\ UNCHANGED <<tournament, seal, inputs, evaluation, issued, crashes, ghosts>>

VerifyFreeze(c) ==
    /\ At(c, "unlock", "verify")
    /\ IF tournament = "frozen"
       THEN Goes(c, "record") /\ verified' = verified \cup {commands[c].id}
       ELSE Ends(c) /\ UNCHANGED verified
    /\ UNCHANGED <<tournament, seal, inputs, evaluation, issued, crashes, accepted, raced, mixed>>

WriteRecord(c) ==
    /\ At(c, "unlock", "record")
    /\ records' = records \cup {commands[c].id}
    /\ Goes(c, "point")
    /\ UNCHANGED <<tournament, unlocked, inputs, evaluation, issued, crashes, ghosts>>

WriteUnlockPointer(c) ==
    /\ At(c, "unlock", "point")
    /\ unlocked' = commands[c].id
    /\ Ends(c)
    /\ UNCHANGED <<tournament, records, inputs, evaluation, issued, crashes, ghosts>>

-----------------------------------------------------------------------------
(* Commands that need the unlock load its record by the pointer.            *)

Unlockable == unlocked \in records

\* What each input is made of: the joined corpus, the paid answers for its plan,
\* the market dataset.
Needs == [assemble |-> {}, acquire |-> {"assemble"}, build |-> {"assemble", "acquire"}]

BuildInput(c) ==
    /\ commands[c].name \in DOMAIN Needs /\ commands[c].at = "start"
    /\ IF Unlockable /\ Needs[commands[c].name] \subseteq inputs
       THEN inputs' = inputs \cup {commands[c].name}
       ELSE UNCHANGED inputs
    /\ Ends(c)
    /\ UNCHANGED <<tournament, seal, evaluation, issued, crashes, ghosts>>

-----------------------------------------------------------------------------
(* The evaluation.                                                          *)

LoadUnlock(c) ==
    /\ At(c, "evaluate", "start")
    /\ IF Unlockable
       THEN commands' = [commands EXCEPT ![c].at = "verify", ![c].unlock = unlocked]
       ELSE Ends(c)
    /\ UNCHANGED <<tournament, seal, inputs, evaluation, issued, crashes, ghosts>>

\* The frozen artifacts again, and the market dataset.
Compute(c) ==
    /\ At(c, "evaluate", "verify")
    /\ IF tournament = "frozen" /\ "build" \in inputs THEN Goes(c, "points") ELSE Ends(c)
    /\ UNCHANGED <<tournament, seal, inputs, evaluation, issued, crashes, ghosts>>

\* Mutant: a table that is there is kept, as the artifact store does.
WritePointsOnce(c) ==
    /\ At(c, "evaluate", "points")
    /\ points' = IF points = Absent THEN commands[c].of ELSE points
    /\ Goes(c, "probabilities")
    /\ UNCHANGED <<tournament, seal, inputs, probabilities, manifest, report, issued, crashes, ghosts>>

WritePoints(c) ==
    /\ At(c, "evaluate", "points")
    /\ points' = commands[c].of
    /\ Goes(c, "probabilities")
    /\ UNCHANGED <<tournament, seal, inputs, probabilities, manifest, report, issued, crashes, ghosts>>

WriteProbabilities(c) ==
    /\ At(c, "evaluate", "probabilities")
    /\ probabilities' = commands[c].of
    /\ Goes(c, "manifest")
    /\ UNCHANGED <<tournament, seal, inputs, points, manifest, report, issued, crashes, ghosts>>

\* The hashes are those of the files as they are on the disk by now.
EvaluationOf(c) ==
    [of |-> commands[c].of, unlock |-> commands[c].unlock,
     points |-> points, probabilities |-> probabilities]

WriteEvaluationManifest(c) ==
    /\ At(c, "evaluate", "manifest")
    /\ manifest' = EvaluationOf(c)
    /\ commands' = [commands EXCEPT ![c].at = "report", ![c].report = EvaluationOf(c)]
    /\ UNCHANGED <<tournament, seal, inputs, points, probabilities, report, issued, crashes, ghosts>>

WriteReport(c) ==
    /\ At(c, "evaluate", "report")
    /\ report' = commands[c].report
    /\ Ends(c)
    /\ UNCHANGED <<tournament, seal, inputs, points, probabilities, manifest, issued, crashes, ghosts>>

-----------------------------------------------------------------------------
(* The validation reads the report, the unlock, then the two tables.        *)

ReadReport(c) ==
    /\ At(c, "validate", "start")
    /\ IF report \in {Absent, Torn} \/ ~Unlockable \/ report.unlock # unlocked
       THEN Ends(c)
       ELSE commands' = [commands EXCEPT ![c].at = "tables", ![c].report = report]
    /\ UNCHANGED <<tournament, seal, inputs, evaluation, issued, crashes, ghosts>>

\* The hashes of the report, and the same games on both sides.
TablesMatch(r) ==
    /\ points = r.points /\ probabilities = r.probabilities
    /\ {points, probabilities} \cap {Absent, Torn} = {}
    /\ Cohort[points] = Cohort[r.of] /\ Cohort[points] = Cohort[probabilities]

Validate(c) ==
    /\ At(c, "validate", "tables")
    /\ accepted' = IF TablesMatch(commands[c].report)
                   THEN accepted \cup {[report |-> commands[c].report,
                                        points |-> points, probabilities |-> probabilities]}
                   ELSE accepted
    /\ Ends(c)
    /\ UNCHANGED <<tournament, seal, inputs, evaluation, issued, crashes, verified, raced, mixed>>

-----------------------------------------------------------------------------
(* A crash. Records and pointers are replaced whole; tables, manifest and   *)
(* report are written in place and may be left torn.                       *)
CrashCommand(c) ==
    LET Left(at, file) == IF At(c, "evaluate", at) THEN {file, Torn} ELSE {file} IN
    /\ commands[c] # Resting
    /\ crashes < MaxCrashes
    /\ crashes' = crashes + 1
    /\ points' \in Left("points", points)
    /\ probabilities' \in Left("probabilities", probabilities)
    /\ manifest' \in Left("manifest", manifest)
    /\ report' \in Left("report", report)
    /\ Ends(c)
    /\ UNCHANGED <<tournament, seal, inputs, issued, ghosts>>

StepOf(c) ==
    \/ CheckSealed(c) \/ VerifyFreeze(c) \/ WriteRecord(c) \/ WriteUnlockPointer(c)
    \/ BuildInput(c)
    \/ LoadUnlock(c) \/ Compute(c) \/ WritePoints(c) \/ WriteProbabilities(c)
    \/ WriteEvaluationManifest(c) \/ WriteReport(c)
    \/ ReadReport(c) \/ Validate(c)

HoldoutNext ==
    \/ RerunTournament
    \/ \E c \in Command :
          \/ \E name \in {"unlock", "validate"} \cup DOMAIN Needs : Issue(c, name, Absent)
          \/ \E e \in Evaluations : Issue(c, "evaluate", e)
          \/ StepOf(c)
          \/ CrashCommand(c)

HoldoutSpec == HoldoutInit /\ [][HoldoutNext]_holdoutVars

-----------------------------------------------------------------------------
(* Type invariant: the files and the commands keep their types.             *)
HoldoutTypeOK ==
    /\ records \subseteq 1..MaxCommands /\ unlocked \in records \cup {Absent}
    /\ inputs \subseteq DOMAIN Needs
    /\ points \in Evaluations \cup {Absent, Torn}
    /\ probabilities \in Evaluations \cup {Absent, Torn}
    /\ \A c \in Command : commands[c].name # "none" => commands[c].id \in 1..issued

(* Nothing of the sealed season is joined, bought, built or evaluated       *)
(* before an unlock whose freeze was verified is on the disk, whatever      *)
(* crashed on the way.                                                     *)
SealHolds ==
    inputs # {} \/ points # Absent \/ manifest # Absent \/ report # Absent
        => unlocked \in records \cap verified

(* There is one unlock: once the pointer is written it never names another  *)
(* record, unless two unlock commands ran at once.                         *)
UnlockedOnce == [][unlocked # Absent /\ ~raced' => unlocked' = unlocked]_holdoutVars

(* The seal stands: nothing of the season before a verified unlock, and one *)
(* unlock for all of it.                                                   *)
SealStands == [](HoldoutTypeOK /\ SealHolds) /\ UnlockedOnce

(* A report that was validated describes the tables that lie beside it: both *)
(* are of the evaluation it reports, made under the present unlock, also     *)
(* after evaluations of other inputs and crashes in between - unless an      *)
(* evaluation overlapped another, or the validation itself.                  *)
ValidReportStands ==
    mixed \/ \A a \in accepted :
        /\ a.points = a.report.of /\ a.probabilities = a.report.of
        /\ a.report.unlock \in records
=============================================================================
