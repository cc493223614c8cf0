----------------------------- MODULE ScannerRun -----------------------------
(***************************************************************************)
(* A scan in a worker: the body of an analyser's node                      *)
(* (src/engine/audit-pipeline.ts) from its abort check to the run it       *)
(* returns, through the cache for the scanners that have one and through   *)
(* two subprocess calls, one for the version and one for the scan, for     *)
(* those that are programs (src/scanners/external.ts, mechanical.ts,       *)
(* quality.ts).                                                            *)
(*                                                                         *)
(* The scans of one round of the pipeline overlap.  They share the abort   *)
(* signal and the cache and nothing else, so one of them is followed here, *)
(* and what the rest may do to the cache is in the actions of the others.  *)
(*                                                                         *)
(*   off -> idle -> reading -> staging -> probing -> scanning -> cleaning  *)
(*       -> storing -> renaming -> pruning -> idle                         *)
(*                                                                         *)
(* A tree is what captureSnapshot made of the project: its digest, which   *)
(* covers the captured files, and whether files were left out.             *)
(***************************************************************************)
EXTENDS ScannerProcess, ScannerCache

CONSTANTS
    Trees,          \* [digest, truncated]
    Internal,       \* cached scanners that are functions of this program
    Tools,          \* cached scanners that are programs
    External,       \* programs that are never cached
    FindingsExit,   \* programs that exit with 1 when they found something
    MaxFiles        \* bound: others add no files to a directory of so many

ASSUME TreesAssumption == Trees \subseteq [digest : Digests, truncated : BOOLEAN]
ASSUME ScannersAssumption ==
    /\ Scanners = Internal \cup Tools \cup External
    /\ Internal \cap (Tools \cup External) = {}
    /\ Tools \cap External = {}
    /\ FindingsExit \subseteq External
ASSUME MaxFilesAssumption == MaxFiles \in Nat

VARIABLES
    pc,             \* where the process is
    build,          \* the version of the scanners it was started with
    job,            \* [key, truncated] of the scan it makes, if any
    identified,     \* did the version probe answer with a tested version?
    result,         \* the value the scan has come to, if any
    stages,         \* scanners whose staging directories are on the disk
    returned        \* [value, replayed] of the last scan, if any

runVars == <<pc, build, job, identified, result, stages, returned>>
vars == <<processVars, aborted, entries, runVars>>

Jobs == [key : Keys, truncated : BOOLEAN]
Returns == [value : Values, replayed : BOOLEAN]
Scanning == {"staging", "probing", "scanning", "cleaning"}
Storing == {"storing", "renaming", "pruning"}

TypeOK ==
    /\ ProcessTypeOK
    /\ CacheTypeOK
    /\ pc \in {"off", "idle", "reading"} \cup Scanning \cup Storing
    /\ build \in Versions
    /\ job \in AtMostOne(Jobs)
    /\ identified \in BOOLEAN
    /\ result \in AtMostOne(Values)
    /\ stages \in SUBSET Scanners
    /\ returned \in AtMostOne(Returns)

Init ==
    /\ ProcessInit
    /\ aborted = FALSE
    /\ CacheInit
    /\ pc = "off"
    /\ build \in Versions
    /\ job = {}
    /\ identified = FALSE
    /\ result = {}
    /\ stages = {}
    /\ returned = {}

Goto(from, to) == pc = from /\ pc' = to

Value(key, status, ended) == [key |-> key, status |-> status, ended |-> ended]

-----------------------------------------------------------------------------
(* The process starts and removes what a killed one has left.              *)
Start(v) ==
    /\ Goto("off", "idle")
    /\ build' = v
    /\ stages' = {}
    /\ UNCHANGED <<processVars, aborted, entries, job, identified, result, returned>>

(* checkedSnapshot of a node: an aborted audit ends, else its scan begins. *)
Begin(s, tree) ==
    /\ pc = "idle"
    /\ ~aborted
    /\ pc' = IF s \in External THEN "staging" ELSE "reading"
    /\ job' = {[key |-> [digest |-> tree.digest, scanner |-> s, version |-> build],
                truncated |-> tree.truncated]}
    /\ returned' = {}
    /\ UNCHANGED <<processVars, aborted, entries, build, identified, result, stages>>

EndAudit ==
    /\ pc = "idle"
    /\ aborted
    /\ aborted' = FALSE
    /\ UNCHANGED <<processVars, entries, runVars>>

Hit ==
    /\ Goto("reading", "idle")
    /\ \E j \in job : \E v \in ReadEntry(j.key) :
            returned' = {[value |-> v, replayed |-> TRUE]}
    /\ job' = {}
    /\ UNCHANGED <<processVars, aborted, entries, build, identified, result, stages>>

(* A function of this program never fails, and knows of the truncation.    *)
Analyse ==
    /\ Goto("reading", "storing")
    /\ \E j \in job :
         /\ ReadEntry(j.key) = {}
         /\ j.key.scanner \in Internal
         /\ \E status \in {"completed", "partial"} :
              /\ j.truncated => status = "partial"
              /\ result' = {Value(j.key, status, "well")}
    /\ UNCHANGED <<processVars, aborted, entries, build, job, identified, stages, returned>>

(* There is nothing a program could scan.                                  *)
Skip ==
    /\ Goto("reading", "storing")
    /\ \E j \in job :
         /\ ReadEntry(j.key) = {}
         /\ j.key.scanner \in Tools
         /\ result' = {Value(j.key, "skipped", "well")}
    /\ UNCHANGED <<processVars, aborted, entries, build, job, identified, stages, returned>>

Miss ==
    /\ Goto("reading", "staging")
    /\ \E j \in job : ReadEntry(j.key) = {} /\ j.key.scanner \in Tools
    /\ UNCHANGED <<processVars, aborted, entries, build, job, identified, result, stages, returned>>

(* The staging directory cannot be made: the node throws, the audit fails. *)
MakeThrows ==
    /\ Goto("staging", "idle")
    /\ job' = {}
    /\ UNCHANGED <<processVars, aborted, entries, build, identified, result, stages, returned>>

(* The staging directory is made and filled, and the version is asked for. *)
Stage ==
    /\ Goto("staging", "probing")
    /\ \E j \in job : stages' = stages \cup {j.key.scanner}
    /\ Call
    /\ UNCHANGED <<aborted, entries, build, job, identified, result, returned>>

(* Filling it throws.  External scanners fill it after the version probe.  *)
StageThrows ==
    /\ pc' = "cleaning"
    /\ \E j \in job :
         /\ \/ pc = "staging"
            \/ pc = "probing" /\ promise \in Settled /\ j.key.scanner \in External
         /\ stages' = stages \cup {j.key.scanner}
         /\ result' = {Value(j.key, "failed", "badly")}
    /\ identified' = FALSE
    /\ Forget
    /\ UNCHANGED <<aborted, entries, build, job, returned>>

(* Whatever became of the version probe, the scan itself is started.       *)
Probed ==
    /\ Goto("probing", "scanning")
    /\ promise \in Settled
    /\ identified' \in BOOLEAN
    /\ promise = "rejected" \/ code # "0" => ~identified'
    /\ Call
    /\ UNCHANGED <<aborted, entries, build, job, result, stages, returned>>

AcceptedCode(s) == code = "0" \/ (code = "1" /\ s \in FindingsExit)

(* Mutant: the exit code is not looked at. *)
ScannedUnchecked ==
    /\ Goto("scanning", "cleaning")
    /\ promise = "resolved"
    /\ \E j \in job, status \in {"completed", "partial"} :
         /\ status = "completed" => identified /\ ~j.truncated
         /\ result' = {Value(j.key, status,
                             IF AcceptedCode(j.key.scanner) THEN "well" ELSE "badly")}
    /\ Forget
    /\ UNCHANGED <<aborted, entries, build, job, identified, stages, returned>>

(* The scanner finished and its report is understood: the status is        *)
(* partial when the version is unknown or untested, when results were cut  *)
(* off or when the snapshot was truncated.                                 *)
Scanned ==
    /\ Goto("scanning", "cleaning")
    /\ promise = "resolved"
    /\ \E j \in job, status \in {"completed", "partial"} :
         /\ AcceptedCode(j.key.scanner)
         /\ status = "completed" => identified /\ ~j.truncated
         /\ result' = {Value(j.key, status, "well")}
    /\ Forget
    /\ UNCHANGED <<aborted, entries, build, job, identified, stages, returned>>

(* The catch block: the call was rejected, the exit code is an error, or   *)
(* the report is missing, too large, malformed, or empty after exit code 1.*)
ScanThrows ==
    /\ Goto("scanning", "cleaning")
    /\ promise \in Settled
    /\ \E j \in job : result' = {Value(j.key, "failed", "badly")}
    /\ Forget
    /\ UNCHANGED <<aborted, entries, build, job, identified, stages, returned>>

(* The node returns what its scan has come to.                             *)
Answer ==
    /\ returned' = {[value |-> v, replayed |-> FALSE] : v \in result}
    /\ job' = {}
    /\ result' = {}
    /\ identified' = FALSE

(* Mutant: the staging directory of a failed scan is kept. *)
CleanFinished ==
    /\ pc = "cleaning"
    /\ \E j \in job, value \in result :
         /\ stages' = IF value.status = "failed" THEN stages
                      ELSE stages \ {j.key.scanner}
         /\ IF j.key.scanner \in External
            THEN pc' = "idle" /\ Answer
            ELSE pc' = "storing" /\ UNCHANGED <<job, result, identified, returned>>
    /\ UNCHANGED <<processVars, aborted, entries, build>>

(* The finally block. *)
Clean ==
    /\ pc = "cleaning"
    /\ \E j \in job :
         /\ stages' = stages \ {j.key.scanner}
         /\ IF j.key.scanner \in External
            THEN pc' = "idle" /\ Answer
            ELSE pc' = "storing" /\ UNCHANGED <<job, result, identified, returned>>
    /\ UNCHANGED <<processVars, aborted, entries, build>>

(* writeEntry, with whatever status: the temporary file is written, ...    *)
Write ==
    /\ Goto("storing", "renaming")
    /\ UNCHANGED <<processVars, aborted, entries, build, job, identified, result, stages, returned>>

Publish ==
    /\ Goto("renaming", "pruning")
    /\ \E j \in job, value \in result : Rename(j.key, value)
    /\ UNCHANGED <<processVars, aborted, build, job, identified, result, stages, returned>>

Prune ==
    /\ Goto("pruning", "idle")
    /\ PruneScannerCache
    /\ Answer
    /\ UNCHANGED <<processVars, aborted, build, stages>>

(* The entry is too large, or a step of writeEntry throws.                 *)
WriteFails ==
    /\ pc \in Storing
    /\ pc' = "idle"
    /\ Answer
    /\ UNCHANGED <<processVars, aborted, entries, build, stages>>

(* A cancellation or a stop: the listener of a pending call runs at once.  *)
Abort ==
    /\ pc # "off"
    /\ ~aborted
    /\ aborted' = TRUE
    /\ IF promise = "pending" THEN Fail ELSE UNCHANGED processVars
    /\ UNCHANGED <<entries, runVars>>

(* The subprocess and the event loop. *)
ProcessStep ==
    /\ \/ SpawnError \/ OutputLimit \/ Timeout
       \/ ChildExits \/ HelpersExit \/ Close
    /\ UNCHANGED <<aborted, entries, runVars>>

(* The process is killed; its subprocess and its files stay behind.        *)
Crash ==
    /\ pc # "off"
    /\ pc' = "off"
    /\ Forget
    /\ aborted' = FALSE
    /\ job' = {}
    /\ identified' = FALSE
    /\ result' = {}
    /\ returned' = {}
    /\ UNCHANGED <<entries, build, stages>>

(* Command line audits share the cache and scan as the worker does, in a   *)
(* staging area of their own.                                              *)
OthersStore(k) ==
    /\ k.scanner \notin External
    /\ Cardinality(Present \cup {k}) <= MaxFiles
    /\ \E status \in Statuses :
         /\ k.scanner \in Internal => status \in {"completed", "partial"}
         /\ Rename(k, Value(k, status, IF status = "failed" THEN "badly" ELSE "well"))
    /\ UNCHANGED <<processVars, aborted, runVars>>

OthersRemove(k) ==
    /\ OtherUnlink(k) \/ Damage(k)
    /\ UNCHANGED <<processVars, aborted, runVars>>

-----------------------------------------------------------------------------
Progress ==
    \/ Hit \/ Analyse \/ Skip \/ Miss \/ MakeThrows
    \/ Stage \/ StageThrows \/ Probed \/ Scanned \/ ScanThrows
    \/ Clean
    \/ Write \/ Publish \/ Prune \/ WriteFails

Next ==
    \/ \E v \in Versions : Start(v)
    \/ \E s \in Scanners, tree \in Trees : Begin(s, tree)
    \/ EndAudit \/ Progress \/ Abort \/ ProcessStep \/ Crash
    \/ \E k \in Keys : OthersStore(k) \/ OthersRemove(k)

Spec == Init /\ [][Next]_vars

(* The program goes on, a pipe that is closed is noticed, and an armed     *)
(* timer fires.  That a subprocess ever exits is not assumed.              *)
Fairness ==
    /\ WF_vars(Progress)
    /\ WF_vars((Close \/ SpawnError \/ Timeout) /\ UNCHANGED <<aborted, entries, runVars>>)

FairSpec == Spec /\ Fairness

-----------------------------------------------------------------------------
Earned(v) == v.status \in {"completed", "partial"} => v.ended = "well"

(* Whatever interrupts a scan - an abort in the version probe or the scan, *)
(* a timeout, a crash of the scanner, output without end - a run that is   *)
(* not reported as failed comes from a scanner that ended well, be it of   *)
(* this process or, through the cache, of another.                         *)
CompletedIsEarned ==
    /\ \A v \in result : Earned(v)
    /\ \A r \in returned : Earned(r.value)
    /\ \A k \in Keys : \A v \in entries[k] : Earned(v)

(* A replayed result is one of the same files by the same version of the   *)
(* same scanner, and external scanners are never replayed.                 *)
HitsAreOwn ==
    [][\A r \in returned' \ returned : r.replayed =>
          /\ \E j \in job : r.value.key = j.key
          /\ r.value.key.scanner \notin External]_vars

(* Between two scans no copy of the audited source is left in the staging  *)
(* area, also not of a scan that failed, was aborted, or was going on when *)
(* an earlier process was killed.                                          *)
StagingIsRemoved == pc \in {"idle", "reading"} \cup Storing => stages = {}

(* Why that is so: a staging directory is there only while its scan works  *)
(* in it, or after the worker was killed; and only scanners that may be    *)
(* cached look for an entry.                                               *)
IInv ==
    /\ \A s \in stages :
         \/ pc = "off"
         \/ /\ pc \in {"probing", "scanning", "cleaning"}
            /\ \E j \in job : j.key.scanner = s
    /\ pc = "reading" => \A j \in job : j.key.scanner \notin External

(* Every scan ends, also when its scanner hangs.                           *)
ScansEnd == pc \notin {"off", "idle"} ~> pc \in {"off", "idle"}

(* A scanner that is a program is run again for each audit when it failed: *)
(* its failure, which a timeout or a cancellation of one audit may have    *)
(* caused, is not replayed in the reports of later audits.                 *)
FailuresAreNotReplayed ==
    \A r \in returned : r.replayed => r.value.status # "failed"

(* A run tells of a truncated snapshot also when it is replayed: no run of  *)
(* an audit whose snapshot left files out counts as complete coverage.     *)
TruncationIsTold ==
    [][\A r \in returned' \ returned, j \in job :
          j.truncated => r.value.status # "completed"]_vars
=============================================================================
