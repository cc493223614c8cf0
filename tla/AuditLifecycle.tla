--------------------------- MODULE AuditLifecycle ---------------------------
(***************************************************************************)
(* What the audit service promises to the person who queues an audit,      *)
(* without workers, locks, transactions or recovery:                       *)
(*                                                                         *)
(*   - a project has at most one active audit;                             *)
(*   - audits run one at a time, in the order they were queued;            *)
(*   - an audit is completed only once its report is stored;               *)
(*   - completed, failed and cancelled audits stay as they are.            *)
(*                                                                         *)
(* AuditService implements this specification (see its run and theorem).   *)
(***************************************************************************)
EXTENDS Naturals

CONSTANTS Projects, NoProject, MaxAudits

VARIABLES
    stage,      \* [audit -> where it is]
    owner,      \* [audit -> its project]
    reported    \* the audits with a stored report

vars == <<stage, owner, reported>>

AuditIds == 1..MaxAudits
Active == {"queued", "running", "awaiting_review"}

Init ==
    /\ stage \in [AuditIds -> {"absent", "awaiting_review"}]
    /\ \A a \in AuditIds : stage[a] = "awaiting_review" => a = 1
    /\ owner \in [AuditIds -> Projects \cup {NoProject}]
    /\ \A a \in AuditIds : stage[a] = "absent" <=> owner[a] = NoProject
    /\ reported = {a \in AuditIds : stage[a] # "absent"}

Move(a, from, to) ==
    /\ stage[a] \in from
    /\ stage' = [stage EXCEPT ![a] = to]

(* A project without an active audit queues one. *)
Submit(a, p) ==
    /\ Move(a, {"absent"}, "queued")
    /\ \A b \in AuditIds : b < a => stage[b] # "absent"
    /\ \A b \in AuditIds : stage[b] \in Active => owner[b] # p
    /\ owner' = [owner EXCEPT ![a] = p]
    /\ UNCHANGED reported

(* Nothing runs, and the audit that was queued first begins. *)
Begin(a) ==
    /\ Move(a, {"queued"}, "running")
    /\ \A b \in AuditIds : stage[b] # "running"
    /\ \A b \in AuditIds : stage[b] = "queued" => a <= b
    /\ UNCHANGED <<owner, reported>>

Report(a) ==
    /\ stage[a] = "running"
    /\ reported' = reported \cup {a}
    /\ UNCHANGED <<stage, owner>>

Complete(a) ==
    /\ a \in reported
    /\ Move(a, {"running"}, "completed")
    /\ UNCHANGED <<owner, reported>>

(* It fails, or is given back to the queue at its old place. *)
Abandon(a) ==
    /\ \E to \in {"failed", "queued"} : Move(a, {"running"}, to)
    /\ UNCHANGED <<owner, reported>>

Publish(a) ==
    /\ Move(a, {"awaiting_review"}, "queued")
    /\ UNCHANGED <<owner, reported>>

Cancel(a) ==
    /\ Move(a, Active, "cancelled")
    /\ UNCHANGED <<owner, reported>>

Next ==
    \E a \in AuditIds :
        \/ \E p \in Projects : Submit(a, p)
        \/ Begin(a) \/ Report(a) \/ Complete(a) \/ Abandon(a)
        \/ Publish(a) \/ Cancel(a)

Spec == Init /\ [][Next]_vars
=============================================================================
