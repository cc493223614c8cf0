---------------------------- MODULE AuditCommand -----------------------------
(***************************************************************************)
(* The commands of src/cli/main.ts that audit a project and gate on the    *)
(* result (audit, finalize), and those that keep the ledgers an audit      *)
(* reads (review, suppress).  Each command is a process of its own; they   *)
(* share the report directory and the ledgers beside it, the people who    *)
(* run them may run two at once, and each may be killed at any step.       *)
(*                                                                         *)
(*   audit:            scan -> inputs -> publish and gate                  *)
(*   review, suppress: load report and ledger -> save                      *)
(*                                                                         *)
(* A version of a project is [project, tree, candidates]: its entries, as  *)
(* in SnapshotBudget, each with a name, and the findings there are for an  *)
(* analyser that sees the files of their evidence.  The project may change *)
(* at any time, so a command picks a version whenever it looks at it.  The *)
(* steps of writing a report directory are those of ReportPackage; here    *)
(* the report in it is replaced as a whole.                                *)
(***************************************************************************)
EXTENDS SnapshotBudget, Ledgers

CONSTANTS
    Procs,          \* the processes of commands
    Statuses,       \* outcomes of the analysers of an audit
    Histories,      \* sets of versions that projects go through, each a
                    \* [project, tree, candidates]
    Expiries,       \* times given to --expires, and 0
    MaxAudits,      \* bound: audits that get as far as a report
    MaxNotes        \* bound: decisions and suppressions that are recorded

ASSUME BoundsAssumption == MaxAudits \in Nat /\ MaxNotes \in Nat

(* The entries of a project from which an analyser takes evidence.         *)
Readable(e) == e.kind \in Supported \ {"binary"}

(* A tree is two sequences of entries, and a candidate a finding with      *)
(* evidence in entries that can be read.                                   *)
ASSUME HistoriesAssumption == \A V \in Histories : \A v \in V :
    /\ v.tree.entries \in Seq(ElementsOf(v.tree.entries))
    /\ v.tree.artifacts \in Seq(ElementsOf(v.tree.artifacts))
    /\ v.candidates \in Seq(ElementsOf(v.candidates))
    /\ \A f \in ElementsOf(v.candidates) :
        /\ {"fingerprint", "rule", "evidence", "disposition", "suppression"} \subseteq DOMAIN f
        /\ Paths(f) \subseteq {e.name : e \in {d \in ElementsOf(v.tree.entries) : Readable(d)}}

VARIABLES
    versions,       \* the versions there are in this behaviour
    pc,             \* where each process is
    report,         \* the report it works on, if any
    bases,          \* its baseline, if any
    draft,          \* the ledger it is about to save, if any
    audits,         \* how many audits got as far as a report
    saved,          \* the reports that were ever written: copies may exist
    shown,          \* the report that the directory holds, if any
    reviews,        \* the review ledger, if there is one
    suppressions,   \* the suppression ledger, if there is one
    torn,           \* is the suppression ledger cut off in the middle?
    recorded        \* [project, entry]: every entry that was ever saved

localVars == <<pc, report, bases, draft>>
ledgerVars == <<reviews, suppressions, torn, recorded>>
reportVars == <<audits, saved, shown>>
vars == <<versions, localVars, ledgerVars, reportVars>>

Stages == {"idle", "inputs", "publish", "saveReview", "saveSuppression", "flushing"}

AtMostOne(S) == \A x, y \in S : x = y

TypeOK ==
    /\ pc \in [Procs -> Stages]
    /\ \A p \in Procs :
        /\ AtMostOne(report[p]) /\ AtMostOne(bases[p]) /\ AtMostOne(draft[p])
        /\ pc[p] \in {"inputs", "publish"} => report[p] # {}
    /\ \A l \in reviews \cup suppressions : \A e1, e2 \in l.entries :
            e1.fingerprint = e2.fingerprint => e1 = e2
    /\ shown \subseteq saved /\ AtMostOne(shown)
    /\ \A r1, r2 \in saved : r1.audit = r2.audit => r1 = r2
    /\ \A r \in saved : r.audit \in 1..audits
    /\ torn \in BOOLEAN

Init ==
    /\ versions \in Histories
    /\ pc = [p \in Procs |-> "idle"]
    /\ report = [p \in Procs |-> {}]
    /\ bases = [p \in Procs |-> {}]
    /\ draft = [p \in Procs |-> {}]
    /\ audits = 0 /\ saved = {} /\ shown = {}
    /\ reviews = {} /\ suppressions = {} /\ torn = FALSE /\ recorded = {}

Set(f, p, x) == [f EXCEPT ![p] = x]
Goto(p, from, to) == pc[p] = from /\ pc' = Set(pc, p, to)

(* The process ends without a gate: an error, or nothing to gate on.       *)
Ends(p) ==
    /\ pc' = Set(pc, p, "idle")
    /\ report' = Set(report, p, {})
    /\ bases' = Set(bases, p, {})
    /\ draft' = Set(draft, p, {})

-----------------------------------------------------------------------------
(* audit.                                                                  *)

Names(capture) == {capture.files[i].name : i \in DOMAIN capture.files}

(* What the analysers find: the candidates whose files were captured, with *)
(* the default disposition.  A run that fails finds nothing, a partial one *)
(* any part of it.                                                         *)
Findable(v) ==
    {i \in DOMAIN v.candidates : Paths(v.candidates[i]) \subseteq Names(Capture(v.tree))}

Fresh(f) == [f EXCEPT !.disposition = "needs_review", !.suppression = {}]

AddFound(list, c) == IF c.found THEN Append(list, Fresh(c.finding)) ELSE list

Found(v, indexes) ==
    FoldLeft(AddFound, <<>>,
             [i \in DOMAIN v.candidates |-> [found |-> i \in indexes, finding |-> v.candidates[i]]])

MayFind(v, status) ==
    CASE status = "COMPLETE" -> {Findable(v)}
      [] status = "PARTIAL"  -> SUBSET Findable(v)
      [] OTHER               -> {{}}

(* Mutant: audits are numbered by the reports that were saved.             *)
NewReportOfSaved(v, approved, status, indexes) ==
    [audit |-> Cardinality(saved) + 1, created |-> audits + 1, project |-> v.project,
     version |-> v, approved |-> approved, truncated |-> Capture(v.tree).truncated,
     coverage |-> {status}, findings |-> Found(v, indexes)]

NewReport(v, approved, status, indexes) ==
    [audit |-> audits + 1, created |-> audits + 1, project |-> v.project,
     version |-> v, approved |-> approved, truncated |-> Capture(v.tree).truncated,
     coverage |-> {status}, findings |-> Found(v, indexes)]

(* preflight, then executeAudit in a store of its own: the estimate is of  *)
(* the version the project has first, the snapshot of the one it has then. *)
(* An approval is asked for, and here given, if a truncation is predicted. *)
Scan(p) ==
    /\ audits < MaxAudits
    /\ Goto(p, "idle", "inputs")
    /\ \E estimated, v \in versions, status \in Statuses :
        /\ estimated.project = v.project
        /\ ~Capture(v.tree).failed
        /\ \E indexes \in MayFind(v, status) :
            report' = Set(report, p, {NewReport(v, PredictedTruncated(estimated.tree), status, indexes)})
    /\ audits' = audits + 1
    /\ UNCHANGED <<ledgerVars, bases, draft, saved, shown>>

Fail(p) == Ends(p) /\ UNCHANGED <<ledgerVars, reportVars>>

(* --reviews, --suppressions and --baseline, each of which may be absent.  *)
(* The baseline is the report of the directory, or a copy of an earlier    *)
(* one.  Nothing relates the three files, so they are read in one step.    *)
Reviewed(r) ==
    {r} \cup {ApplyReviewLedger(r, l) : l \in {k \in reviews : Belongs({k}, r.project)}}

Suppressed(r) ==
    {r} \cup {ApplySuppressionLedger(r, l) :
                l \in {k \in suppressions : ~torn /\ Belongs({k}, r.project)}}

Baselines(r) == {{}} \cup {{b} : b \in {c \in saved : c.project = r.project}}

ReadInputs(p) ==
    /\ Goto(p, "inputs", "publish")
    /\ \E r \in report[p] : \E reviewed \in Reviewed(r) :
        \E final \in Suppressed(reviewed), base \in Baselines(r) :
            report' = Set(report, p, {final}) /\ bases' = Set(bases, p, base)
    /\ UNCHANGED <<ledgerVars, reportVars, draft>>

(* One of them is missing, does not parse, or is of another project.       *)
InputRefused(p) ==
    /\ pc[p] = "inputs"
    /\ \E r \in report[p] :
        \/ reviews = {} \/ ~Belongs(reviews, r.project)
        \/ torn \/ suppressions = {} \/ ~Belongs(suppressions, r.project)
        \/ \E b \in saved : b.project # r.project
    /\ Fail(p)

-----------------------------------------------------------------------------
(* The exit code, of a policy profile or of the older severity gate.  It   *)
(* is computed before the report is written and set after it, and nothing  *)
(* of it stays in the state.                                               *)
ExitCode(r, gate, base) ==
    IF gate \in Profiles THEN PolicyExit(r, gate, base) ELSE SeverityExit(r, gate, base)

(* writeStaticReport; or, with --output or --format, one file of its own.  *)
Finish(p) ==
    /\ pc[p] = "publish"
    /\ saved' = saved \cup report[p]
    /\ shown' \in {shown, report[p]}
    /\ Ends(p)
    /\ UNCHANGED <<ledgerVars, audits>>

(* The directory is not managed, the file exists, or a write fails.        *)
PublishFails(p) == pc[p] = "publish" /\ Fail(p)

(* finalize writes a report again, with a baseline and a verification      *)
(* ledger.  The reports it reads do not change, so that it is one step.    *)
Finalizable(after, before) == {after, before} \subseteq saved /\ before.project = after.project

Finalize(p, after, before) ==
    /\ pc[p] = "idle"
    /\ Finalizable(after, before)
    /\ shown' = {after}
    /\ UNCHANGED <<localVars, ledgerVars, audits, saved>>

(* The reports, with their baselines, that a command may exit for now.     *)
Exiting ==
    (UNION {report[p] \X {bases[p]} : p \in {q \in Procs : pc[q] = "publish"}})
      \cup {<<pair[1], {pair[2]}>> : pair \in {c \in saved \X saved : Finalizable(c[1], c[2])}}

-----------------------------------------------------------------------------
(* review and suppress: the ledger is read, and written back later.        *)

(* The entries of the ledger that is saved, with its project.              *)
Noted(ledgers) ==
    UNION {{[project |-> l.project, entry |-> e] : e \in l.entries} : l \in ledgers}

MayNote(p) == pc[p] = "idle" /\ Cardinality(recorded) < MaxNotes

Review(p, f, decision) ==
    /\ MayNote(p)
    /\ Goto(p, "idle", "saveReview")
    /\ \E r \in shown : \E finding \in FindingOf(r, f) :
        /\ Belongs(reviews, r.project)
        /\ draft' = Set(draft, p, {Upsert(reviews, r.project,
                                          ReviewEntry(r, finding, decision))})
    /\ UNCHANGED <<ledgerVars, reportVars, report, bases>>

(* writePrivateLedger replaces the file by a rename.                       *)
SaveReview(p) ==
    /\ pc[p] = "saveReview"
    /\ reviews' = draft[p]
    /\ recorded' = recorded \cup Noted(draft[p])
    /\ Ends(p)
    /\ UNCHANGED <<reportVars, suppressions, torn>>

Suppress(p, f, until) ==
    /\ MayNote(p)
    /\ ~torn
    /\ Goto(p, "idle", "saveSuppression")
    /\ \E r \in shown : \E finding \in FindingOf(r, f) :
        /\ Belongs(suppressions, r.project)
        /\ draft' = Set(draft, p, {Upsert(suppressions, r.project,
                                          SuppressionEntry(r, finding, until))})
    /\ UNCHANGED <<ledgerVars, reportVars, report, bases>>

(* The suppression ledger is written in place: between the opening and the *)
(* last byte the file does not parse.                                      *)
OpenSuppressions(p) ==
    /\ Goto(p, "saveSuppression", "flushing")
    /\ torn' = TRUE
    /\ UNCHANGED <<reportVars, reviews, suppressions, recorded,
                   report, bases, draft>>

SaveSuppressions(p) ==
    /\ pc[p] = "flushing"
    /\ suppressions' = draft[p]
    /\ torn' = FALSE
    /\ recorded' = recorded \cup Noted(draft[p])
    /\ Ends(p)
    /\ UNCHANGED <<reportVars, reviews>>

(* The process is killed.                                                  *)
Crash(p) ==
    /\ pc[p] # "idle"
    /\ Ends(p)
    /\ UNCHANGED <<ledgerVars, reportVars>>

-----------------------------------------------------------------------------
Fingerprints == {f.fingerprint : f \in UNION {ElementsOf(v.candidates) : v \in versions}}

Step(p) ==
    \/ Scan(p) \/ ReadInputs(p) \/ InputRefused(p) \/ Finish(p) \/ PublishFails(p)
    \/ \E after, before \in saved : Finalize(p, after, before)
    \/ \E f \in Fingerprints, d \in Decisions : Review(p, f, d)
    \/ \E f \in Fingerprints, until \in Expiries : Suppress(p, f, until)
    \/ SaveReview(p) \/ OpenSuppressions(p) \/ SaveSuppressions(p)
    \/ Crash(p)

Next == (\E p \in Procs : Step(p)) /\ UNCHANGED versions

Spec == Init /\ [][Next]_vars

-----------------------------------------------------------------------------
(* What a clean exit may leave undecided.  The human decision about a      *)
(* finding was recorded for this very evidence, in this project.           *)
Decided(r, f) ==
    /\ Resolved(f)
    /\ \E n \in recorded : /\ n.project = r.project
                           /\ "decision" \in DOMAIN n.entry
                           /\ n.entry.decision = f.disposition
                           /\ ReviewApplies(n.entry, f)

Excepted(r, f) ==
    \E n \in recorded : /\ n.project = r.project
                        /\ "until" \in DOMAIN n.entry
                        /\ SuppressionApplies(n.entry, f, r.created)

Accounted(r, f, gate, base) ==
    \/ Decided(r, f)
    \/ Excepted(r, f)
    \/ gate # "strict" /\ \E b \in base : f.key \in LifecycleKeys(b)

(* The supported text of a version that its snapshot leaves out.           *)
LeftOut(v) ==
    {e \in ElementsOf(v.tree.entries) : Readable(e)} \ ElementsOf(Capture(v.tree).files)

Whole(r) ==
    /\ LeftOut(r.version) = {}
    /\ "FAILED" \notin r.coverage
    /\ r.coverage = {"COMPLETE"} =>
            {f.fingerprint : f \in ElementsOf(r.version.candidates)}
                = {f.fingerprint : f \in ElementsOf(r.findings)}

Gated(f, gate) ==
    IF gate \in Profiles THEN MeetsFindingCriteria(f, gate) ELSE AtLeast(f.severity, gate)

Earned(r, gate, base) ==
    /\ gate \in Profiles => Whole(r)
    /\ gate = "strict" => "PARTIAL" \notin r.coverage
    /\ \A f \in ElementsOf(r.findings) : Gated(f, gate) => Accounted(r, f, gate, base)

(* A run that exits with 0 from a gate has earned it, whatever happened to *)
(* project, ledgers and report directory in the meantime: each finding     *)
(* that meets the criteria of the gate was decided by a person for this    *)
(* evidence in this project, is excepted for exactly this target, or is no *)
(* news to the baseline; and under a profile, the snapshot had every       *)
(* supported text file of the tree, and no analyser had failed (or, under  *)
(* strict, been cut short).                                                *)
CleanExitIsEarned ==
    \A x \in Exiting, gate \in {"balanced", "strict"} \cup Severities :
        ExitCode(x[1], gate, x[2]) = 0 => Earned(x[1], gate, x[2])
=============================================================================
