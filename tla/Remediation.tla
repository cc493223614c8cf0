------------------------------ MODULE Remediation ------------------------------
(***************************************************************************)
(* The correction flow of docs/CORRECTION_FLOW.md: an audit's report is    *)
(* turned into a plan of tasks (src/domain/remediation.ts), people or      *)
(* tools change the project and run the commands of the plan, a ledger     *)
(* says what came of them (verification-ledger.ts), and a later audit is   *)
(* finalized against the first: which tasks are resolved?                  *)
(*                                                                         *)
(* A plan is a function of its report, so that it is computed again when   *)
(* it is needed, and stands here for its own digest.  A finding is one of  *)
(* Gates, with                                                             *)
(*   rule, file        its source and rule, or "osv" for an advisory, and  *)
(*                     the first of its files                              *)
(*   package, version  of its advisory, "none" for other findings          *)
(*   fix               the first fixed version of the same major version,  *)
(*                     0 if there is none                                  *)
(*   traits            of "direct", "referenced", "configuration",         *)
(*                     "protected" (its category is authentication,        *)
(*                     authorization or secrets), "located" (the manifest  *)
(*                     of its dependency is known)                         *)
(*   exposure          what can reach it                                   *)
(* A control is [id, status, decision, gaps], where gaps are fingerprints  *)
(* of the findings it has for evidence.                                    *)
(***************************************************************************)
EXTENDS Gates, FiniteSetsExt

CONSTANTS
    MaxTasks,       \* tasks of a plan
    Audited,        \* what the audits of projects may give, each a report
                    \* [project, tree, findings, controls, commands]
    Scripts,       \* commands that a ledger may speak of, [kind, script]
    MaxReports,     \* bound: reports that are stored
    MaxLedgers      \* bound: ledgers that are written

ASSUME RemediationBounds == MaxTasks \in Nat /\ MaxReports \in Nat /\ MaxLedgers \in Nat

(* Reports list findings that are typed, and the commands of a plan are    *)
(* the tests and builds that the project declares.                         *)
ASSUME AuditsAssumption == \A A \in Audited :
    /\ A.findings \in Seq(ElementsOf(A.findings)) /\ IsFiniteSet(A.controls)
    /\ \A c \in A.commands : c.kind \in {"test", "build"}
    /\ \A f \in ElementsOf(A.findings) :
        /\ f.severity \in Severities /\ f.confidence \in Confidences
        /\ f.exposure \in {"potentially_public", "authenticated", "unknown", "local"}
        /\ f.package # "none" <=> f.rule = "osv"

(* The source and the rule of a finding are part of what is hashed for its *)
(* fingerprint and its key (makeFinding, findingLifecycleKey).             *)
ASSUME IdentitiesAssumption == \A A, B \in Audited :
    \A f \in ElementsOf(A.findings), g \in ElementsOf(B.findings) :
        f.fingerprint = g.fingerprint \/ f.key = g.key => f.rule = g.rule

(* A control is evidenced only where nothing is found of the rules that    *)
(* make its gaps anywhere: EvidenceIsEarned, of AuditAnalysis.             *)
ASSUME ControlsAssumption == \A A, B \in Audited :
    \A c \in A.controls, d \in B.controls : c.id = d.id /\ d.status = "EVIDENCED" =>
        \A f \in ElementsOf(A.findings), g \in ElementsOf(B.findings) :
            f.fingerprint \in c.gaps => g.rule # f.rule

VARIABLES
    stored,         \* the reports that were written, a sequence
    ledgers,        \* the verification ledgers that were written
    finalized       \* the last results of a finalization, if any

remediationVars == <<stored, ledgers, finalized>>

RemediationInit == stored = <<>> /\ ledgers = {} /\ finalized = {}

-----------------------------------------------------------------------------
(* The priority of a task: the scores of its factors, at most 100.         *)
SeverityScore == [critical |-> 70, high |-> 55, medium |-> 35, low |-> 15, info |-> 0]
ExposureScore == [potentially_public |-> 15, authenticated |-> 8, unknown |-> 3, local |-> 0]
ConfidenceScore == [high |-> 8, medium |-> 4, low |-> 0]

Priority(severity, exposure, confidence, more) ==
    Min({100, SeverityScore[severity] + ExposureScore[exposure]
                 + ConfidenceScore[confidence] + more})

Gravest(F) == CHOOSE s \in {f.severity : f \in F} : \A f \in F : AtLeast(s, f.severity)

HighestExposure(F) ==
    CHOOSE e \in {f.exposure : f \in F} :
        \A f \in F : ExposureScore[f.exposure] <= ExposureScore[e]

LowestConfidence(F) ==
    CHOOSE c \in {f.confidence : f \in F} :
        \A f \in F : ConfidenceScore[c] <= ConfidenceScore[f.confidence]

Having(F, trait) == {f \in F : trait \in f.traits}

FingerprintsOf(F) == {f.fingerprint : f \in F}

-----------------------------------------------------------------------------
(* buildRemediationPlan.                                                   *)
Unresolved(report) == {f \in ElementsOf(report.findings) : ~Resolved(f)}

AdvisoriesOf(report) == {f \in Unresolved(report) : f.package # "none"}

(* dependencyTasks: one for each package that has unresolved advisories.   *)
(* The fix of a version is the last of the first fixes of its advisories,  *)
(* and complete if each advisory has one.                                  *)
DependencyTask(report, F, package) ==
    LET complete == \A f \in F : f.fix # 0
        candidates == {Max({g.fix : g \in {h \in F : h.version = f.version}}) : f \in F}
        direct == Having(F, "direct") # {}
        automatic == complete /\ direct /\ Cardinality(candidates) = 1
                        /\ Having(F, "located") # {}
    IN  [id |-> <<"upgrade_dependency", package, {f.version : f \in F}>>,
         kind |-> IF complete THEN "upgrade_dependency" ELSE "investigate_finding",
         priority |-> Priority(Gravest(F), HighestExposure(F), LowestConfidence(F),
                        IF Having(F, "referenced") # {} THEN 7 ELSE IF direct THEN 3 ELSE 0),
         severity |-> Gravest(F), findings |-> FingerprintsOf(F), controls |-> {},
         dependsOn |-> {}, blocked |-> FALSE, automatic |-> automatic,
         human |-> ~automatic]

DependencyTasks(report) ==
    {DependencyTask(report, {f \in AdvisoriesOf(report) : f.package = p}, p) :
        p \in {f.package : f \in AdvisoriesOf(report)}}

FindingTaskKind(f) ==
    IF f.disposition # "confirmed" THEN "investigate_finding"
    ELSE IF "configuration" \in f.traits THEN "review_configuration" ELSE "patch_source"

(* Mutant: one task for what is found in a file.                           *)
FindingGroupKeyOfFile(f) == <<FindingTaskKind(f), "any", f.file>>

FindingGroupKey(f) == <<FindingTaskKind(f), f.rule, f.file>>

FindingTask(F) ==
    LET kind == FindingTaskKind(CHOOSE f \in F : TRUE)
    IN  [id |-> FindingGroupKey(CHOOSE f \in F : TRUE), kind |-> kind,
         priority |-> Priority(Gravest(F), HighestExposure(F), LowestConfidence(F), 0),
         severity |-> Gravest(F), findings |-> FingerprintsOf(F), controls |-> {},
         dependsOn |-> {}, blocked |-> FALSE, automatic |-> FALSE,
         human |-> kind = "investigate_finding" \/ Having(F, "protected") # {}]

FindingTasks(report) ==
    LET others == Unresolved(report) \ AdvisoriesOf(report)
    IN  {FindingTask({f \in others : FindingGroupKey(f) = key}) :
            key \in {FindingGroupKey(f) : f \in others}}

ControlPriority == [FAILED |-> 80, GAP_CANDIDATE |-> 60, PARTIAL |-> 45, UNVERIFIED |-> 35]

HumanDecisions == {"verified_external", "accepted_gap", "not_applicable"}

(* A control waits for the tasks of the findings that are its evidence.    *)
ControlTask(c, tasks) ==
    LET severity == IF c.status = "FAILED" THEN "high" ELSE "medium"
        confidence == IF c.status = "UNVERIFIED" THEN "low" ELSE "medium"
    IN  [id |-> <<"verify_control", c.id>>, kind |-> "verify_control",
         priority |-> Max({ControlPriority[c.status],
                           Priority(severity, "unknown", confidence, 0)}),
         severity |-> severity, findings |-> {}, controls |-> {c.id},
         dependsOn |-> {t.id : t \in {u \in tasks : u.findings \cap c.gaps # {}}},
         blocked |-> c.status = "FAILED", automatic |-> FALSE, human |-> TRUE]

AllTasks(report) ==
    LET tasks == DependencyTasks(report) \cup FindingTasks(report)
        open == {c \in report.controls : /\ c.status \in DOMAIN ControlPriority
                                         /\ c.decision \notin HumanDecisions}
    IN  tasks \cup {ControlTask(c, tasks) : c \in open}

Outranks(t, u) ==
    \/ t.priority > u.priority
    \/ t.priority = u.priority /\ t.severity # u.severity /\ AtLeast(t.severity, u.severity)

(* The first tasks in the order of their priorities; equal ones come in    *)
(* the order of their hashes, which is fixed.                              *)
Plan(report) ==
    LET all == AllTasks(report)
        size == Min({MaxTasks, Cardinality(all)})
    IN  [audit |-> report.audit, tree |-> report.tree,
         tasks |-> CHOOSE kept \in SUBSET all :
                    /\ Cardinality(kept) = size
                    /\ \A t \in kept, u \in all \ kept : ~Outranks(u, t),
         commands |-> report.commands,
         truncated |-> Cardinality(all) > size]

-----------------------------------------------------------------------------
(* evaluateVerificationLedger.  A ledger is                                *)
(* [project, before, after, plan, passed], passed a function on the        *)
(* commands it speaks of: parseVerificationLedger refuses a second         *)
(* execution of a command.                                                 *)
Reference(report) == [audit |-> report.audit, tree |-> report.tree]

(* Mutant: a ledger of another run of the plan is accepted.                *)
AcceptsAnyAfter(ledger, before, after) ==
    /\ ledger.project = before.project /\ ledger.project = after.project
    /\ ledger.before = Reference(before)
    /\ ledger.plan = Plan(before)

Accepts(ledger, before, after) ==
    /\ ledger.project = before.project /\ ledger.project = after.project
    /\ ledger.before = Reference(before) /\ ledger.after = Reference(after)
    /\ ledger.plan = Plan(before)

(* The commands of the plan that a ledger speaks of; others are unmatched. *)
Applied(ledger, plan) == DOMAIN ledger.passed \cap plan.commands

-----------------------------------------------------------------------------
(* buildRemediationResult.                                                 *)
ProjectCheck(plan, evidence, kind) ==
    LET declared == {c \in plan.commands : c.kind = kind}
        Ran(c) == \E l \in evidence : c \in Applied(l, plan)
        Failed(c) == \E l \in evidence : c \in Applied(l, plan) /\ ~l.passed[c]
    IN  IF declared = {} THEN "none declared"
        ELSE IF \E c \in declared : Failed(c) THEN "failed"
        ELSE IF \A c \in declared : Ran(c) THEN "passed" ELSE "not_run"

Remains(fingerprint, before, after) ==
    \E f \in ElementsOf(before.findings) :
        f.fingerprint = fingerprint /\ f.key \in LifecycleKeys(after)

ControlsResolved(task, after) ==
    \A id \in task.controls : \E c \in after.controls :
        c.id = id /\ c.status \in {"EVIDENCED", "NOT_APPLICABLE"}

TaskResult(task, plan, before, after, evidence) ==
    LET remaining == {f \in task.findings : Remains(f, before, after)}
        verified == \A kind \in {"test", "build"} :
                        ProjectCheck(plan, evidence, kind) \in {"none declared", "passed"}
        gone == remaining = {} /\ ControlsResolved(task, after)
    IN  [task |-> task, remaining |-> remaining,
         control |-> ControlsResolved(task, after),
         outcome |-> IF gone /\ verified THEN "resolved"
                    ELSE IF gone \/ remaining # task.findings THEN "partial" ELSE "remaining"]

Result(before, after, evidence) ==
    LET plan == Plan(before)
    IN  [before |-> before, after |-> after, truncated |-> plan.truncated,
         tasks |-> {TaskResult(t, plan, before, after, evidence) : t \in plan.tasks},
         new |-> NewFindings(before, after)]

-----------------------------------------------------------------------------
(* An audit, of whatever the project has become, is stored as a report.    *)
StoreAudit(content) ==
    /\ Len(stored) < MaxReports
    /\ stored' = Append(stored, [audit |-> Len(stored) + 1, project |-> content.project,
            tree |-> content.tree, findings |-> content.findings,
            controls |-> content.controls, commands |-> content.commands])
    /\ UNCHANGED <<ledgers, finalized>>

(* Somebody runs commands on the tree of a later audit and writes a ledger.*)
RunCommands(before, after, passed) ==
    /\ Cardinality(ledgers) < MaxLedgers
    /\ ledgers' = ledgers \cup
            {[project |-> after.project, before |-> Reference(before),
              after |-> Reference(after), plan |-> Plan(before), passed |-> passed]}
    /\ UNCHANGED <<stored, finalized>>

(* finalize, with a ledger, or an audit with a baseline, without.  Reports *)
(* or ledgers that do not belong together are refused.                     *)
FinalizeRemediation(before, after, evidence) ==
    /\ before.project = after.project
    /\ \A l \in evidence : Accepts(l, before, after)
    /\ finalized' = {Result(before, after, evidence)}
    /\ UNCHANGED <<stored, ledgers>>

Stored == ElementsOf(stored)

RemediationNext ==
    \/ \E content \in Audited : StoreAudit(content)
    \/ \E before, after \in Stored, C \in SUBSET Scripts : \E passed \in [C -> BOOLEAN] :
            RunCommands(before, after, passed)
    \/ \E before, after \in Stored, evidence \in {{}} \cup {{l} : l \in ledgers} :
            FinalizeRemediation(before, after, evidence)

RemediationSpec == RemediationInit /\ [][RemediationNext]_remediationVars

-----------------------------------------------------------------------------
(* Every declared command of the plan passed in an execution that somebody *)
(* recorded for this very audit.                                           *)
RanWell(r) ==
    LET plan == Plan(r.before)
    IN  \/ plan.commands = {}
        \/ \E l \in ledgers :
            /\ l.before = Reference(r.before) /\ l.after = Reference(r.after)
            /\ l.plan = plan
            /\ \A c \in plan.commands : c \in DOMAIN l.passed /\ l.passed[c]

Evidenced(task, after) ==
    \A id \in task.controls : \E c \in after.controls : c.id = id /\ c.status = "EVIDENCED"

(* A task of a result is resolved only if all its findings are gone from   *)
(* the later audit and every test and build the project declares passed on *)
(* that audit's tree; a control that is evidenced only if the tasks it     *)
(* waits for are resolved as well (one that does not apply any more may be *)
(* resolved before them).  And no finding gets lost between two audits: one *)
(* that the later audit still has is new, or remains in a task, unless it  *)
(* had been reviewed before, or the plan says that it was cut.             *)
RemediesAreEarned ==
    \A r \in finalized :
        /\ \A t \in r.tasks : t.outcome = "resolved" =>
            /\ RanWell(r)
            /\ \A f \in ElementsOf(r.before.findings) :
                    f.fingerprint \in t.task.findings => f.key \notin LifecycleKeys(r.after)
            /\ \A u \in r.tasks : u.task.id \in t.task.dependsOn
                                        /\ Evidenced(t.task, r.after) => u.outcome = "resolved"
        /\ \A f \in ElementsOf(r.after.findings) \ r.new :
            \/ r.truncated
            \/ \E t \in r.tasks : \E g \in ElementsOf(r.before.findings) :
                    g.key = f.key /\ g.fingerprint \in t.remaining /\ t.outcome # "resolved"
            \/ \A g \in ElementsOf(r.before.findings) : g.key = f.key => Resolved(g)
        /\ \A t \in r.tasks : r.truncated \/
                t.task.dependsOn \subseteq {u.task.id : u \in r.tasks}
=============================================================================
