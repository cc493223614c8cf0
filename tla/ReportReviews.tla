---------------------------- MODULE ReportReviews ----------------------------
(***************************************************************************)
(* What is inside the stored reports and who changes it: the worker that   *)
(* prepares a report (prepare_report, the last node of the pipeline) and   *)
(* the person who reviews findings, grants and removes project exceptions  *)
(* and picks a baseline, in another process on the same database           *)
(* (src/server/store.ts behind the route handler of one audit).            *)
(*                                                                         *)
(* The life of an audit is the one AuditLifecycle promises; its actions    *)
(* are conjuncts of the actions below.  The worker reads the active        *)
(* exceptions (applySuppressions) and saves the report (saveProgress) in   *)
(* two transactions; every human decision is one.                          *)
(*                                                                         *)
(* A grant is one call of suppressFinding: its number stands for the       *)
(* reason, the creation time and the expiry that the row and the mark in   *)
(* the report share.                                                       *)
(***************************************************************************)
EXTENDS AuditLifecycle, Sequences

CONSTANTS
    Fingerprints,   \* the findings a scan of any project may produce
    Dispositions,   \* what a reviewer may decide about a finding
    MaxGrants,      \* bound on the calls of suppressFinding
    MaxRevisions    \* bound on the revisions of one audit

ASSUME NoProjectAssumption == NoProject \notin Projects
ASSUME BoundsAssumption == MaxGrants \in Nat /\ MaxRevisions \in Nat

VARIABLES
    report,         \* audits.report_json, read only where reported
    revisions,      \* report_revisions, oldest first
    exceptions,     \* project_suppressions: [project -> [fingerprint -> grant]]
    expired,        \* grants whose expires_at has passed
    grants,         \* grants so far
    draft,          \* the report a worker has marked but not yet saved, if any
    saved,          \* audits whose current attempt saved its report
    baseline,       \* projects.baseline_audit_id, 0 for NULL
    choice          \* a baseline request between its check and its update

contents == <<report, revisions>>
ledger == <<exceptions, expired, grants>>
selection == <<baseline, choice>>
attemptVars == <<draft, saved>>
allVars == <<vars, contents, ledger, selection, attemptVars>>

NoChoice == 0
Sources == {"workflow", "human-review", "suppression", "suppression-removed"}
Entries == [disposition : Dispositions \cup {"needs_review"}, grant : 0..MaxGrants]
Reports == UNION {[F -> Entries] : F \in SUBSET Fingerprints}
NoFindings == [f \in {} |-> 0]

TypeOK ==
    /\ stage \in [AuditIds -> Active \cup {"absent", "completed", "failed", "cancelled"}]
    /\ owner \in [AuditIds -> Projects \cup {NoProject}]
    /\ reported \in SUBSET AuditIds
    /\ report \in [AuditIds -> Reports]
    /\ \A a \in AuditIds : \A i \in DOMAIN revisions[a] :
         revisions[a][i].source \in Sources /\ revisions[a][i].report \in Reports
    /\ exceptions \in [Projects -> [Fingerprints -> 0..MaxGrants]]
    /\ expired \in SUBSET (1..MaxGrants)
    /\ grants \in 0..MaxGrants
    /\ draft \in [AuditIds -> SUBSET Reports]
    /\ saved \in SUBSET AuditIds
    /\ baseline \in [Projects -> {0} \cup AuditIds]
    /\ choice \in {NoChoice} \cup AuditIds

(* A legacy audit that waits for its review has a report with findings.    *)
InitAll ==
    /\ Init
    /\ report = [a \in AuditIds |->
                   IF a \in reported
                   THEN [f \in Fingerprints |-> [disposition |-> "needs_review", grant |-> 0]]
                   ELSE NoFindings]
    /\ revisions = [a \in AuditIds |->
                      IF a \in reported
                      THEN <<[source |-> "workflow", report |-> report[a]]>>
                      ELSE <<>>]
    /\ exceptions = [p \in Projects |-> [f \in Fingerprints |-> 0]]
    /\ expired = {}
    /\ grants = 0
    /\ draft = [a \in AuditIds |-> {}]
    /\ saved = {}
    /\ baseline = [p \in Projects |-> 0]
    /\ choice = NoChoice

-----------------------------------------------------------------------------
(* Mutant: removing an exception records no revision. *)
StoreUnrecorded(a, r, source) ==
    /\ Len(revisions[a]) < MaxRevisions
    /\ report' = [report EXCEPT ![a] = r]
    /\ revisions' = IF source = "suppression-removed" THEN revisions
                    ELSE [revisions EXCEPT ![a] =
                            Append(@, [source |-> source, report |-> r])]

(* saveHumanReport and its copies: the row and its revision in one         *)
(* transaction.                                                            *)
Store(a, r, source) ==
    /\ Len(revisions[a]) < MaxRevisions
    /\ report' = [report EXCEPT ![a] = r]
    /\ revisions' = [revisions EXCEPT ![a] =
                       Append(@, [source |-> source, report |-> r])]

(* Mutant: the query forgets project_id. *)
ActiveGrantAnywhere(p, f) ==
    LET granted == {exceptions[q][f] : q \in Projects} \ (expired \cup {0})
    IN  IF granted = {} THEN 0 ELSE CHOOSE g \in granted : TRUE

ActiveGrant(p, f) ==
    IF exceptions[p][f] \in expired THEN 0 ELSE exceptions[p][f]

-----------------------------------------------------------------------------
(* The worker.  It executes one audit at a time and starts the next one    *)
(* after the last one has left its pipeline.                               *)
Run(a) ==
    /\ \A b \in AuditIds : draft[b] = {}
    /\ Begin(a)
    /\ saved' = saved \ {a}
    /\ UNCHANGED <<contents, ledger, selection, draft>>

(* applySuppressions, on the findings F of this scan. *)
ApplySuppressions(a, F) ==
    /\ stage[a] = "running"
    /\ a \notin saved
    /\ draft[a] = {}
    /\ draft' = [draft EXCEPT ![a] =
                   {[f \in F |-> [disposition |-> "needs_review",
                                  grant |-> ActiveGrant(owner[a], f)]]}]
    /\ UNCHANGED <<vars, contents, ledger, selection, saved>>

(* Mutant: saveProgress does not look at the status. *)
SaveProgressLate(a) ==
    /\ \E r \in draft[a] :
         /\ Store(a, r, "workflow")
         /\ reported' = reported \cup {a}
         /\ saved' = saved \cup {a}
    /\ draft' = [draft EXCEPT ![a] = {}]
    /\ UNCHANGED <<stage, owner, ledger, selection>>

(* saveProgress writes nothing once the audit has left "running".          *)
SaveProgress(a) ==
    /\ \E r \in draft[a] :
         \/ /\ Report(a)
            /\ Store(a, r, "workflow")
            /\ saved' = saved \cup {a}
         \/ /\ stage[a] # "running"
            /\ UNCHANGED <<vars, contents, saved>>
    /\ draft' = [draft EXCEPT ![a] = {}]
    /\ UNCHANGED <<ledger, selection>>

Finish(a) ==
    /\ a \in saved
    /\ Complete(a)
    /\ UNCHANGED <<contents, ledger, selection, attemptVars>>

(* The worker fails, stops or dies, before or after it saved.              *)
GiveUp(a) ==
    /\ Abandon(a)
    /\ draft' = [draft EXCEPT ![a] = {}]
    /\ UNCHANGED <<contents, ledger, selection, saved>>

-----------------------------------------------------------------------------
(* The reviewer. *)
Reviewable(a) == stage[a] \in {"awaiting_review", "completed"} /\ a \in reported

Enqueue(a, p) ==
    /\ Submit(a, p)
    /\ UNCHANGED <<contents, ledger, selection, attemptVars>>

Resume(a) ==
    /\ Publish(a)
    /\ UNCHANGED <<contents, ledger, selection, attemptVars>>

Withdraw(a) ==
    /\ Cancel(a)
    /\ UNCHANGED <<contents, ledger, selection, attemptVars>>

ReviewFinding(a, f, d) ==
    /\ Reviewable(a)
    /\ f \in DOMAIN report[a]
    /\ Store(a, [report[a] EXCEPT ![f].disposition = d], "human-review")
    /\ UNCHANGED <<vars, ledger, selection, attemptVars>>

(* The assessment of a checklist control changes no finding. *)
ReviewControl(a) ==
    /\ Reviewable(a)
    /\ Store(a, report[a], "human-review")
    /\ UNCHANGED <<vars, ledger, selection, attemptVars>>

SuppressFinding(a, f) ==
    /\ Reviewable(a)
    /\ f \in DOMAIN report[a]
    /\ grants < MaxGrants
    /\ grants' = grants + 1
    /\ exceptions' = [exceptions EXCEPT ![owner[a]][f] = grants']
    /\ Store(a, [report[a] EXCEPT ![f].grant = grants'], "suppression")
    /\ UNCHANGED <<vars, expired, selection, attemptVars>>

(* Any report will do, also that of a queued, running or failed audit.     *)
RemoveSuppression(a, f) ==
    /\ a \in reported
    /\ f \in DOMAIN report[a]
    /\ exceptions' = [exceptions EXCEPT ![owner[a]][f] = 0]
    /\ Store(a, [report[a] EXCEPT ![f].grant = 0], "suppression-removed")
    /\ UNCHANGED <<vars, expired, grants, selection, attemptVars>>

(* Time passes: expires_at of a grant is reached. *)
Expire(g) ==
    /\ g \in 1..grants
    /\ g \notin expired
    /\ expired' = expired \cup {g}
    /\ UNCHANGED <<vars, contents, exceptions, grants, selection, attemptVars>>

(* Mutant: any reported audit may become the baseline. *)
CheckBaselineReported(a) ==
    /\ choice = NoChoice
    /\ a \in reported
    /\ choice' = a
    /\ UNCHANGED <<vars, contents, ledger, baseline, attemptVars>>

(* setProjectBaseline reads the audit, then updates the project. *)
CheckBaseline(a) ==
    /\ choice = NoChoice
    /\ stage[a] = "completed"
    /\ a \in reported
    /\ choice' = a
    /\ UNCHANGED <<vars, contents, ledger, baseline, attemptVars>>

SetBaseline ==
    /\ choice # NoChoice
    /\ baseline' = [baseline EXCEPT ![owner[choice]] = choice]
    /\ choice' = NoChoice
    /\ UNCHANGED <<vars, contents, ledger, attemptVars>>

-----------------------------------------------------------------------------
NextAll ==
    \/ \E a \in AuditIds :
         \/ \E p \in Projects : Enqueue(a, p)
         \/ Run(a) \/ SaveProgress(a) \/ Finish(a) \/ GiveUp(a)
         \/ \E F \in SUBSET Fingerprints : ApplySuppressions(a, F)
         \/ Resume(a) \/ Withdraw(a) \/ ReviewControl(a)
         \/ CheckBaseline(a)
         \/ \E f \in Fingerprints :
              \/ \E d \in Dispositions : ReviewFinding(a, f, d)
              \/ SuppressFinding(a, f) \/ RemoveSuppression(a, f)
    \/ \E g \in 1..MaxGrants : Expire(g)
    \/ SetBaseline

SpecAll == InitAll /\ [][NextAll]_allVars

-----------------------------------------------------------------------------
(* The revisions are the whole history of a report: the report a reader    *)
(* sees is the last revision, whoever wrote it and however workflow saves, *)
(* reviews, grants and removals interleave.                                *)
TrailIsComplete ==
    \A a \in AuditIds :
        /\ a \in reported <=> revisions[a] # <<>>
        /\ a \in reported => report[a] = revisions[a][Len(revisions[a])].report

(* Where a grant was given: the revision that recorded it. *)
GrantedIn(p, f, g) ==
    \E a \in AuditIds : owner[a] = p /\
        \E i \in DOMAIN revisions[a] :
            /\ revisions[a][i].source = "suppression"
            /\ f \in DOMAIN revisions[a][i].report
            /\ revisions[a][i].report[f].grant = g

(* No finding is marked as excepted, in any report, and no exception is in *)
(* force, that a person did not grant for that finding of that project.    *)
MarksWereGranted ==
    /\ \A a \in AuditIds : \A f \in DOMAIN report[a] :
         report[a][f].grant # 0 => GrantedIn(owner[a], f, report[a][f].grant)
    /\ \A p \in Projects, f \in Fingerprints :
         exceptions[p][f] # 0 => GrantedIn(p, f, exceptions[p][f])

(* The baseline of a project is a completed, reported audit of its own,    *)
(* although it is checked in one transaction and stored in another.        *)
BaselineIsUsable ==
    \A p \in Projects : baseline[p] # 0 =>
        /\ stage[baseline[p]] = "completed"
        /\ owner[baseline[p]] = p
        /\ baseline[p] \in reported

(* Once an audit is settled only persons revise its report: a worker that  *)
(* saves late, after a cancellation it has not noticed, changes nothing.   *)
SettledReportsAreHuman ==
    [][\A a \in AuditIds :
          /\ stage[a] \in {"completed", "failed", "cancelled"}
          /\ revisions'[a] # revisions[a]
          => revisions'[a][Len(revisions'[a])].source # "workflow"]_allVars

(* An exception propagates into a new report only while it is active: no   *)
(* report is saved with an exception that a person has already removed.    *)
RemovedExceptionsStayRemoved ==
    [][\A a \in AuditIds : a \in saved' \ saved =>
          \A f \in DOMAIN report'[a] :
              report'[a][f].grant \in {0, exceptions[owner[a]][f]}]_allVars
=============================================================================
