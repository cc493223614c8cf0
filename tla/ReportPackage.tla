---------------------------- MODULE ReportPackage ----------------------------
(***************************************************************************)
(* The directory of a static report (src/reporting/static-report.ts):      *)
(* writeStaticReport replaces its artifacts, each by a rename and in any   *)
(* order, removes what the previous manifest listed and the new one will   *)
(* not, and replaces the manifest last.  Several commands may write to one *)
(* directory, and any of them may fail or be killed between two files.     *)
(*                                                                         *)
(* A package is [audit, kind]: the audit whose report it presents, and     *)
(* whether a baseline, or also a verification ledger, went into it.  The   *)
(* content of an artifact is the package it was made for; the report       *)
(* itself is the same in all packages of an audit.                         *)
(***************************************************************************)
EXTENDS Naturals, FiniteSets

CONSTANTS
    Commands,       \* the processes that write
    Audits,         \* the audits they present
    None            \* nothing: no such file, or no package

ASSUME NoneAssumption ==
    None \notin [audit : Audits, kind : {"plain", "baseline", "final"}]

VARIABLES
    files,          \* what the directory holds: [artifact -> its content or None]
    manifest,       \* the package that manifest.json lists, or None
    clutter,        \* are there files that no manifest ever listed?
    stage,          \* where each writer is
    package,        \* what it writes
    todo,           \* the artifacts it still has to write, or to remove
    previous,       \* what the manifest listed when it began, until it removes
    settled,        \* did the last write to the directory end undisturbed?
    crowded,        \* did it begin or go on beside another?
    harmed          \* was any write killed, failed, or beside another?

writerVars == <<stage, package, todo, previous>>
directoryVars == <<files, manifest, clutter>>
monitorVars == <<settled, crowded, harmed>>
packageVars == <<directoryVars, writerVars, monitorVars>>

PackageKinds == {"plain", "baseline", "final"}
Packages == [audit : Audits, kind : PackageKinds]
Required == {"report", "rest"}
Artifacts == Required \cup {"resolution", "verification"}

(* remediation-result.json needs a baseline, verification-ledger.json a    *)
(* ledger; all the others are in every package.                            *)
ArtifactsOf(k) ==
    Required \cup (IF k.kind = "plain" THEN {} ELSE {"resolution"})
             \cup (IF k.kind = "final" THEN {"verification"} ELSE {})

Content(n, k) == IF n = "report" THEN [k EXCEPT !.kind = "plain"] ELSE k

Listed(k) == IF k = None THEN {} ELSE ArtifactsOf(k)

Present == {n \in Artifacts : files[n] # None}

Writers == {p \in Commands : stage[p] # "idle"}

PackageInit ==
    /\ files = [n \in Artifacts |-> None]
    /\ manifest = None
    /\ clutter \in BOOLEAN
    /\ stage = [p \in Commands |-> "idle"]
    /\ package = [p \in Commands |-> None]
    /\ todo = [p \in Commands |-> {}]
    /\ previous = [p \in Commands |-> {}]
    /\ settled = FALSE /\ crowded = FALSE /\ harmed = FALSE

-----------------------------------------------------------------------------
(* ensureManagedOutputRoot: an empty directory, or one with a manifest.    *)
Managed == (Present = {} /\ ~clutter) \/ manifest # None

Begin(p, k) ==
    /\ stage[p] = "idle"
    /\ Managed
    /\ stage' = [stage EXCEPT ![p] = "writing"]
    /\ package' = [package EXCEPT ![p] = k]
    /\ todo' = [todo EXCEPT ![p] = ArtifactsOf(k)]
    /\ previous' = [previous EXCEPT ![p] = Listed(manifest)]
    /\ settled' = FALSE
    /\ crowded' = (Writers # {})
    /\ harmed' = (harmed \/ Writers # {})
    /\ UNCHANGED directoryVars

(* replaceFile, for an artifact.                                           *)
WriteArtifact(p, n) ==
    /\ stage[p] = "writing" /\ n \in todo[p]
    /\ files' = [files EXCEPT ![n] = Content(n, package[p])]
    /\ todo' = [todo EXCEPT ![p] = @ \ {n}]
    /\ UNCHANGED <<manifest, clutter, stage, package, previous, monitorVars>>

(* Mutant: everything the previous manifest listed is removed.             *)
WrittenRemoveAll(p) ==
    /\ stage[p] = "writing" /\ todo[p] = {}
    /\ stage' = [stage EXCEPT ![p] = "removing"]
    /\ todo' = [todo EXCEPT ![p] = previous[p]]
    /\ previous' = [previous EXCEPT ![p] = {}]
    /\ UNCHANGED <<directoryVars, package, monitorVars>>

Written(p) ==
    /\ stage[p] = "writing" /\ todo[p] = {}
    /\ stage' = [stage EXCEPT ![p] = "removing"]
    /\ todo' = [todo EXCEPT ![p] = previous[p] \ ArtifactsOf(package[p])]
    /\ previous' = [previous EXCEPT ![p] = {}]
    /\ UNCHANGED <<directoryVars, package, monitorVars>>

RemoveArtifact(p, n) ==
    /\ stage[p] = "removing" /\ n \in todo[p]
    /\ files' = [files EXCEPT ![n] = None]
    /\ todo' = [todo EXCEPT ![p] = @ \ {n}]
    /\ UNCHANGED <<manifest, clutter, stage, package, previous, monitorVars>>

Quit(p) ==
    /\ stage' = [stage EXCEPT ![p] = "idle"]
    /\ package' = [package EXCEPT ![p] = None]
    /\ todo' = [todo EXCEPT ![p] = {}]
    /\ previous' = [previous EXCEPT ![p] = {}]

(* The manifest is written, by a rename as well.                           *)
List(p) ==
    /\ stage[p] = "removing" /\ todo[p] = {}
    /\ manifest' = package[p]
    /\ settled' = ~crowded
    /\ Quit(p)
    /\ UNCHANGED <<files, clutter, crowded, harmed>>

(* A write fails, and those that had begun beside it come to their end; or *)
(* the command is killed.  In the middle of a rename it may leave a        *)
(* temporary file.                                                         *)
GiveUp(p) ==
    /\ stage[p] # "idle"
    /\ clutter' \in {clutter, TRUE}
    /\ harmed' = TRUE
    /\ Quit(p)
    /\ UNCHANGED <<files, manifest, settled, crowded>>

PackageStep(p) ==
    \/ \E k \in Packages : Begin(p, k)
    \/ \E n \in Artifacts : WriteArtifact(p, n) \/ RemoveArtifact(p, n)
    \/ Written(p) \/ List(p) \/ GiveUp(p)

PackageNext == \E p \in Commands : PackageStep(p)

PackageSpec == PackageInit /\ [][PackageNext]_packageVars

-----------------------------------------------------------------------------
PackageTypeOK ==
    /\ files \in [Artifacts -> Packages \cup {None}]
    /\ manifest \in Packages \cup {None}
    /\ clutter \in BOOLEAN
    /\ stage \in [Commands -> {"idle", "writing", "removing"}]
    /\ package \in [Commands -> Packages \cup {None}]
    /\ todo \in [Commands -> SUBSET Artifacts]
    /\ previous \in [Commands -> SUBSET Artifacts]
    /\ settled \in BOOLEAN /\ crowded \in BOOLEAN /\ harmed \in BOOLEAN
    /\ \A p \in Commands : stage[p] # "idle" => package[p] # None

(* loadReportPackage (src/reporting/report-server.ts) accepts a package    *)
(* when every artifact that its manifest lists has the listed content, and *)
(* the report, the page and the run manifest are among them.               *)
Loads(k) ==
    /\ k # None
    /\ Required \subseteq ArtifactsOf(k)
    /\ \A n \in ArtifactsOf(k) : files[n] = Content(n, k)

(* A report directory whose last write came to its end undisturbed holds   *)
(* a package that verifies; what earlier audits left is gone, unless some  *)
(* write before was killed, failed, or ran beside another.                 *)
PackageLoads ==
    settled => /\ Loads(manifest)
               /\ ~harmed => Present = ArtifactsOf(manifest)
=============================================================================
