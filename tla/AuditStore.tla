----------------------------- MODULE AuditStore -----------------------------
(***************************************************************************)
(* The rows of the local SQLite database that decide what an audit may do  *)
(* next (src/server/store.ts): the audits table, one variable per column,  *)
(* and the worker_lock table.  Every operator below is the body of one     *)
(* method of AuditStore, one transaction each; the processes that call     *)
(* them are in AuditService.                                               *)
(*                                                                         *)
(* Identifiers are the rank of the row's creation, which is the order the  *)
(* queue is served in (ORDER BY created_at).  A report is the number of    *)
(* the attempt that produced it, 0 for NULL.  Error texts, resume notes,   *)
(* timestamps and the events log steer nothing and are left out.           *)
(***************************************************************************)
EXTENDS Naturals

CONSTANTS
    Projects,       \* registered projects
    NoProject,      \* the project column of a row that is not inserted yet
    MaxAudits,      \* bound on the rows of the audits table
    Workers,        \* worker processes; each also stands for its lock token
    Pids            \* operating system process identifiers

ASSUME ProjectAssumption == NoProject \notin Projects
ASSUME MaxAuditsAssumption == MaxAudits \in Nat

VARIABLES
    status,         \* audits.status, "absent" before the INSERT
    project,        \* audits.project_id
    workflow,       \* audits.workflow_version: this build's or an older one
    attempts,       \* audits.attempts
    report,         \* audits.report_json
    lock            \* the rows of worker_lock

auditRows == <<status, project, workflow, attempts, report>>
storeVars == <<status, project, workflow, attempts, report, lock>>

AuditIds == 1..MaxAudits
ActiveStatuses == {"queued", "running", "awaiting_review"}
SettledStatuses == {"completed", "failed", "cancelled"}
Statuses == {"absent"} \cup ActiveStatuses \cup SettledStatuses
LockRows == [token : Workers, pid : Pids]

(* attempts >= 3 in acquireWorker. *)
RecoveryLimit == 3

StoreTypeOK ==
    /\ status \in [AuditIds -> Statuses]
    /\ project \in [AuditIds -> Projects \cup {NoProject}]
    /\ workflow \in [AuditIds -> {"current", "legacy"}]
    /\ attempts \in [AuditIds -> Nat]
    /\ report \in [AuditIds -> Nat]
    /\ lock \in SUBSET LockRows

-----------------------------------------------------------------------------
(* Mutant: the index forgets that a queued audit is active. *)
OneActiveAllowsQueued(p, a) ==
    \A b \in AuditIds \ {a} :
        project[b] = p => status[b] \notin {"running", "awaiting_review"}

(* The partial unique index one_active_audit: p may gain the active row a. *)
OneActiveAllows(p, a) ==
    \A b \in AuditIds \ {a} : project[b] = p => status[b] \notin ActiveStatuses

(* The identifier the next INSERT gets. *)
Fresh(a) ==
    /\ status[a] = "absent"
    /\ \A b \in AuditIds : b < a => status[b] # "absent"

EnqueueAs(p, a) ==
    /\ Fresh(a)
    /\ OneActiveAllows(p, a)
    /\ status' = [status EXCEPT ![a] = "queued"]
    /\ project' = [project EXCEPT ![a] = p]
    /\ UNCHANGED <<workflow, attempts, report, lock>>

(* Mutant: the claim takes any queued row. *)
AnyQueued(a) == status[a] = "queued"

OldestQueued(a) ==
    /\ status[a] = "queued"
    /\ \A b \in AuditIds : status[b] = "queued" => a <= b

ClaimRow(a) ==
    /\ OldestQueued(a)
    /\ status' = [status EXCEPT ![a] = "running"]
    /\ attempts' = [attempts EXCEPT ![a] = @ + 1]
    /\ UNCHANGED <<project, workflow, report, lock>>

(* Mutant: an attempt does not replace the report of an earlier one. *)
SaveProgressOnce(a, n) ==
    /\ report' = [report EXCEPT ![a] =
                     IF status[a] = "running" /\ @ = 0 THEN n ELSE @]
    /\ UNCHANGED <<status, project, workflow, attempts, lock>>

(* The report of attempt n reaches the row only while the row is running. *)
SaveProgress(a, n) ==
    /\ report' = [report EXCEPT ![a] = IF status[a] = "running" THEN n ELSE @]
    /\ UNCHANGED <<status, project, workflow, attempts, lock>>

(* transition throws when the index refuses the new status. *)
TransitionThrows(a, s) ==
    /\ status[a] # "cancelled"
    /\ s \in ActiveStatuses
    /\ ~OneActiveAllows(project[a], a)

Transition(a, s) ==
    /\ ~TransitionThrows(a, s)
    /\ status' = [status EXCEPT ![a] = IF @ # "cancelled" THEN s ELSE @]
    /\ UNCHANGED <<project, workflow, attempts, report, lock>>

PublishRow(a) ==
    /\ status[a] = "awaiting_review"
    /\ status' = [status EXCEPT ![a] = "queued"]
    /\ UNCHANGED <<project, workflow, attempts, report, lock>>

(* Mutant: settled audits can be cancelled too. *)
CancelRowSettled(a) ==
    /\ status[a] \notin {"absent", "cancelled"}
    /\ status' = [status EXCEPT ![a] = "cancelled"]
    /\ UNCHANGED <<project, workflow, attempts, report, lock>>

CancelRow(a) ==
    /\ status[a] \in ActiveStatuses
    /\ status' = [status EXCEPT ![a] = "cancelled"]
    /\ UNCHANGED <<project, workflow, attempts, report, lock>>

-----------------------------------------------------------------------------
(* Mutants: a live holder is not looked for; a dead holder keeps the lock. *)
LockFreeAlways(live) == TRUE
LockFreeIfEmpty(live) == lock = {}

(* The lock is free when no row's process answers kill(pid, 0). *)
LockFree(live) == \A r \in lock : r.pid \notin live

(* Mutants: recovery leaves running rows alone; it allows one attempt more. *)
RecoveredNever(a) == status[a]
RecoveredLate(a) ==
    IF status[a] # "running" THEN status[a]
    ELSE IF attempts[a] > RecoveryLimit THEN "failed" ELSE "queued"

Recovered(a) ==
    IF status[a] # "running" THEN status[a]
    ELSE IF attempts[a] >= RecoveryLimit THEN "failed" ELSE "queued"

(* Mutant: the stale row is not deleted. *)
AcquireWorkerBeside(w, p, live) ==
    /\ LockFree(live)
    /\ lock' = lock \cup {[token |-> w, pid |-> p]}
    /\ status' = [a \in AuditIds |-> Recovered(a)]
    /\ UNCHANGED <<project, workflow, attempts, report>>

AcquireWorker(w, p, live) ==
    /\ LockFree(live)
    /\ lock' = {[token |-> w, pid |-> p]}
    /\ status' = [a \in AuditIds |-> Recovered(a)]
    /\ UNCHANGED <<project, workflow, attempts, report>>

ReleaseWorker(w) ==
    /\ lock' = {r \in lock : r.token # w}
    /\ UNCHANGED auditRows
=============================================================================
