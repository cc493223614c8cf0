---------------------------- MODULE AuditService ----------------------------
(***************************************************************************)
(* Worker processes (src/worker/main.ts and src/engine/run.ts) and the     *)
(* web UI's route handlers, all sharing the store of AuditStore.           *)
(*                                                                         *)
(* A worker is single-threaded: signals and the heartbeat timer run only   *)
(* where it awaits.  Its program counter                                   *)
(*                                                                         *)
(*   off -> starting -> booting -> idle -> claimed -> scanning ->          *)
(*          reporting -> reported -> finished -> idle ... exiting -> off   *)
(*                                                                         *)
(* names the stretches between two writes of the store or two awaits;      *)
(* catching is the catch block around executeAudit and refused a process   *)
(* whose acquireWorker threw.  Between any two steps of one process every  *)
(* other process may step, and a process may be killed.                    *)
(***************************************************************************)
EXTENDS AuditStore

CONSTANTS
    NoPid,          \* the pid of a process that does not run
    MaxStops,       \* bound on SIGINT and SIGTERM signals
    PidReuse,       \* the values that reuse may have
    Faults          \* which SQLite statements may throw: "write", "read"

ASSUME NoPidAssumption == NoPid \notin Pids
ASSUME MaxStopsAssumption == MaxStops \in Nat
ASSUME PidReuseAssumption == PidReuse \subseteq BOOLEAN
ASSUME FaultsAssumption == Faults \subseteq {"write", "read"}

VARIABLES
    pc,             \* where each worker process is
    pid,            \* its process identifier
    active,         \* activeId: the audit it executes, 0 for null
    attempt,        \* audit.attempts of the row its claim returned
    stopping,       \* a stop signal arrived
    aborted,        \* the active audit's AbortController has fired
    foreign,        \* pids of live processes that are not workers
    stops,          \* stop signals so far
    reuse           \* may a new process get the pid a stale lock row names?

workerVars == <<pc, pid, active, attempt, stopping, aborted>>
envVars == <<foreign, stops, reuse>>
vars == <<storeVars, workerVars, envVars>>

Stages == {"off", "starting", "refused", "booting", "idle", "claimed",
           "scanning", "reporting", "reported", "finished", "catching",
           "exiting"}
Executing == {"claimed", "scanning", "reporting", "reported", "finished",
              "catching"}
Holding == Executing \cup {"booting", "idle", "exiting"}
Awaiting == {"booting", "idle", "scanning", "reporting"}

WorkerTypeOK ==
    /\ pc \in [Workers -> Stages]
    /\ pid \in [Workers -> Pids \cup {NoPid}]
    /\ active \in [Workers -> 0..MaxAudits]
    /\ attempt \in [Workers -> Nat]
    /\ stopping \in [Workers -> BOOLEAN]
    /\ aborted \in [Workers -> BOOLEAN]
    /\ foreign \in SUBSET Pids
    /\ stops \in 0..MaxStops
    /\ reuse \in BOOLEAN

TypeOK == StoreTypeOK /\ WorkerTypeOK

(* The pids that answer kill(pid, 0). *)
LivePids == foreign \cup {pid[w] : w \in {v \in Workers : pc[v] # "off"}}

FreePid(p) ==
    /\ p \notin LivePids
    /\ reuse \/ \A r \in lock : r.pid # p

(* The database is new, or an older version of the program left an audit   *)
(* in it that waits for its publication review.  Whether the machine comes *)
(* round to a pid that a stale lock row names is settled once.             *)
Init ==
    /\ \/ /\ status = [a \in AuditIds |-> "absent"]
          /\ project = [a \in AuditIds |-> NoProject]
          /\ workflow = [a \in AuditIds |-> "current"]
          /\ attempts = [a \in AuditIds |-> 0]
       \/ \E p \in Projects :
          /\ MaxAudits > 0
          /\ status = [a \in AuditIds |->
                         IF a = 1 THEN "awaiting_review" ELSE "absent"]
          /\ project = [a \in AuditIds |-> IF a = 1 THEN p ELSE NoProject]
          /\ workflow = [a \in AuditIds |->
                           IF a = 1 THEN "legacy" ELSE "current"]
          /\ attempts = [a \in AuditIds |-> IF a = 1 THEN 1 ELSE 0]
    /\ report = attempts
    /\ lock = {}
    /\ pc = [w \in Workers |-> "off"]
    /\ pid = [w \in Workers |-> NoPid]
    /\ active = [w \in Workers |-> 0]
    /\ attempt = [w \in Workers |-> 0]
    /\ stopping = [w \in Workers |-> FALSE]
    /\ aborted = [w \in Workers |-> FALSE]
    /\ foreign = {}
    /\ stops = 0
    /\ reuse \in PidReuse

-----------------------------------------------------------------------------
Goto(w, from, to) ==
    /\ pc[w] \in from
    /\ pc' = [pc EXCEPT ![w] = to]

(* The process is gone and everything it kept in memory with it. *)
Vanish(w) ==
    /\ pc' = [pc EXCEPT ![w] = "off"]
    /\ pid' = [pid EXCEPT ![w] = NoPid]
    /\ active' = [active EXCEPT ![w] = 0]
    /\ attempt' = [attempt EXCEPT ![w] = 0]
    /\ stopping' = [stopping EXCEPT ![w] = FALSE]
    /\ aborted' = [aborted EXCEPT ![w] = FALSE]

(* The inner finally: active and activeId become null. *)
Drop(w) ==
    /\ active' = [active EXCEPT ![w] = 0]
    /\ attempt' = [attempt EXCEPT ![w] = 0]
    /\ aborted' = [aborted EXCEPT ![w] = FALSE]

(* "npm run worker": the process opens the store. *)
Start(w, p) ==
    /\ Goto(w, {"off"}, "starting")
    /\ FreePid(p)
    /\ pid' = [pid EXCEPT ![w] = p]
    /\ UNCHANGED <<active, attempt, stopping, aborted, storeVars, envVars>>

Acquire(w) ==
    /\ Goto(w, {"starting"}, "booting")
    /\ AcquireWorker(w, pid[w], LivePids)
    /\ UNCHANGED <<pid, active, attempt, stopping, aborted, envVars>>

(* "A local worker is already running." *)
Refuse(w) ==
    /\ Goto(w, {"starting"}, "refused")
    /\ ~LockFree(LivePids)
    /\ UNCHANGED <<pid, active, attempt, stopping, aborted, storeVars, envVars>>

(* cleanupStaleScannerStaging and the import of the engine are done. *)
Boot(w) ==
    /\ Goto(w, {"booting"}, "idle")
    /\ UNCHANGED <<pid, active, attempt, stopping, aborted, storeVars, envVars>>

(* One turn of the loop: the oldest queued audit is claimed. *)
Claim(w) ==
    /\ Goto(w, {"idle"}, "claimed")
    /\ ~stopping[w]
    /\ \E a \in AuditIds :
         /\ ClaimRow(a)
         /\ active' = [active EXCEPT ![w] = a]
         /\ attempt' = [attempt EXCEPT ![w] = attempts'[a]]
    /\ UNCHANGED <<pid, stopping, aborted, envVars>>

(* The claim is committed, but reading the claimed row back throws: the     *)
(* worker leaves its loop and the row stays running.                       *)
ClaimThrows(w) ==
    /\ Goto(w, {"idle"}, "exiting")
    /\ ~stopping[w]
    /\ "read" \in Faults
    /\ \E a \in AuditIds : ClaimRow(a)
    /\ UNCHANGED <<pid, active, attempt, stopping, aborted, envVars>>

(* executeAudit accepts rows of this workflow version only. *)
Execute(w) ==
    /\ Goto(w, {"claimed"}, "scanning")
    /\ workflow[active[w]] = "current"
    /\ UNCHANGED <<pid, active, attempt, stopping, aborted, storeVars, envVars>>

(* Every analyser passed its abort check and returned. *)
Analyse(w) ==
    /\ Goto(w, {"scanning"}, "reporting")
    /\ ~aborted[w]
    /\ UNCHANGED <<pid, active, attempt, stopping, aborted, storeVars, envVars>>

(* prepare_report, which no abort interrupts any more. *)
PrepareReport(w) ==
    /\ Goto(w, {"reporting"}, "reported")
    /\ SaveProgress(active[w], attempt[w])
    /\ UNCHANGED <<pid, active, attempt, stopping, aborted, envVars>>

(* "if (status !== 'cancelled') transition(id, 'completed')". *)
Finish(w) ==
    /\ Goto(w, {"reported"}, "finished")
    /\ Transition(active[w], "completed")
    /\ UNCHANGED <<pid, active, attempt, stopping, aborted, envVars>>

(* The final status is logged and the loop goes on. *)
Log(w) ==
    /\ Goto(w, {"finished"}, "idle")
    /\ Drop(w)
    /\ UNCHANGED <<pid, stopping, storeVars, envVars>>

(* The stages in which executeAudit, or the log line after it, may throw:  *)
(* a wrong workflow version, an analyser, an abort, a statement.           *)
MayThrow(w) ==
    \/ pc[w] = "claimed" /\ (workflow[active[w]] = "legacy" \/ "read" \in Faults)
    \/ pc[w] \in {"scanning", "reporting"}
    \/ pc[w] = "reported" /\ Faults # {}
    \/ pc[w] = "finished" /\ "read" \in Faults

Throw(w) ==
    /\ Goto(w, Executing, "catching")
    /\ MayThrow(w)
    /\ UNCHANGED <<pid, active, attempt, stopping, aborted, storeVars, envVars>>

(* A stopping worker gives the audit back; any other failure is final. *)
CatchStatus(w) == IF stopping[w] THEN "queued" ELSE "failed"

Catch(w) ==
    /\ Goto(w, {"catching"}, "idle")
    /\ Transition(active[w], CatchStatus(w))
    /\ Drop(w)
    /\ UNCHANGED <<pid, stopping, envVars>>

(* A throw inside the catch block leaves the loop and the audit's row. *)
CatchThrows(w) ==
    /\ Goto(w, {"catching"}, "exiting")
    /\ "write" \in Faults \/ TransitionThrows(active[w], CatchStatus(w))
    /\ Drop(w)
    /\ UNCHANGED <<pid, stopping, storeVars, envVars>>

(* The loop ends: a stop was asked for, or the boot or a claim threw. *)
Leave(w) ==
    /\ Goto(w, {"booting", "idle"}, "exiting")
    /\ \/ pc[w] = "booting"
       \/ pc[w] = "idle" /\ (stopping[w] \/ "write" \in Faults)
    /\ UNCHANGED <<pid, active, attempt, stopping, aborted, storeVars, envVars>>

(* Mutant: the heartbeat timer is not cleared and keeps the process alive. *)
ExitWithTimer(w) ==
    /\ pc[w] = "exiting"
    /\ ReleaseWorker(w)
    /\ UNCHANGED <<workerVars, envVars>>

(* The outer finally: the lock row goes, then the process. *)
Exit(w) ==
    /\ pc[w] = "exiting"
    /\ ReleaseWorker(w)
    /\ Vanish(w)
    /\ UNCHANGED envVars

(* SIGINT or SIGTERM, once the handlers are installed. *)
Stop(w) ==
    /\ pc[w] \in Awaiting
    /\ ~stopping[w]
    /\ stops < MaxStops
    /\ stops' = stops + 1
    /\ stopping' = [stopping EXCEPT ![w] = TRUE]
    /\ aborted' = [aborted EXCEPT ![w] = active[w] # 0]
    /\ UNCHANGED <<pc, pid, active, attempt, foreign, reuse, storeVars>>

(* The heartbeat timer sees that the active audit was cancelled. *)
Heartbeat(w) ==
    /\ pc[w] \in Awaiting
    /\ active[w] # 0
    /\ status[active[w]] = "cancelled"
    /\ ~aborted[w]
    /\ aborted' = [aborted EXCEPT ![w] = TRUE]
    /\ UNCHANGED <<pc, pid, active, attempt, stopping, storeVars, envVars>>

(* SIGKILL, a power loss, a throw in the heartbeat timer or in release, a  *)
(* stop signal before the handlers exist, the end of a refused process.    *)
Crash(w) ==
    /\ pc[w] # "off"
    /\ Vanish(w)
    /\ UNCHANGED <<storeVars, envVars>>

-----------------------------------------------------------------------------
(* Route handlers of the web UI. *)
Enqueue(p) ==
    /\ \E a \in AuditIds : EnqueueAs(p, a)
    /\ UNCHANGED <<workerVars, envVars>>

Publish(a) ==
    /\ PublishRow(a)
    /\ UNCHANGED <<workerVars, envVars>>

Cancel(a) ==
    /\ CancelRow(a)
    /\ UNCHANGED <<workerVars, envVars>>

(* Other programs of the machine come and go: they matter to a worker only *)
(* where they get the pid that a stale row names.                          *)
ForeignStart(p) ==
    /\ reuse
    /\ FreePid(p)
    /\ foreign' = foreign \cup {p}
    /\ UNCHANGED <<storeVars, workerVars, stops, reuse>>

ForeignExit(p) ==
    /\ p \in foreign
    /\ foreign' = foreign \ {p}
    /\ UNCHANGED <<storeVars, workerVars, stops, reuse>>

-----------------------------------------------------------------------------
WorkerStep(w) ==
    \/ Acquire(w) \/ Refuse(w) \/ Boot(w)
    \/ Claim(w) \/ ClaimThrows(w)
    \/ Execute(w) \/ Analyse(w) \/ PrepareReport(w) \/ Finish(w) \/ Log(w)
    \/ Throw(w) \/ Catch(w) \/ CatchThrows(w)
    \/ Leave(w) \/ Exit(w) \/ Heartbeat(w)

Next ==
    \/ \E w \in Workers : \/ WorkerStep(w)
                          \/ \E p \in Pids : Start(w, p)
                          \/ Stop(w)
                          \/ Crash(w)
    \/ \E p \in Projects : Enqueue(p)
    \/ \E a \in AuditIds : Publish(a) \/ Cancel(a)
    \/ \E p \in Pids : ForeignStart(p) \/ ForeignExit(p)

Spec == Init /\ [][Next]_vars

(* A running process keeps running its code, and its analysers and their   *)
(* subprocesses are bounded by timeouts.  The user restarts a worker that  *)
(* is down, and no run of crashes hits every start before its first claim: *)
(* strong fairness, because each crash disables these steps for a while.   *)
Fairness ==
    /\ WF_vars(\E w \in Workers, p \in Pids : Start(w, p))
    /\ \A w \in Workers :
         /\ SF_vars(Acquire(w)) /\ SF_vars(Boot(w)) /\ SF_vars(Claim(w))
         /\ WF_vars(Refuse(w) \/ Execute(w) \/ PrepareReport(w) \/ Finish(w)
                      \/ Log(w) \/ Analyse(w) \/ Throw(w)
                      \/ Catch(w) \/ CatchThrows(w))
         /\ WF_vars(stopping[w] /\ Leave(w)) /\ WF_vars(Exit(w))
         /\ WF_vars(pc[w] = "refused" /\ Crash(w))

FairSpec == Spec /\ Fairness

-----------------------------------------------------------------------------
(* At most one process is past acquireWorker and not yet gone: two workers *)
(* never execute audits, or clean staging directories, at the same time.   *)
OneWorker ==
    \A v, w \in Workers : pc[v] \in Holding /\ pc[w] \in Holding => v = w

(* A row is "running" only if the worker that holds the lock executes it,  *)
(* if that worker is on its way out after a statement threw, or if no      *)
(* worker holds the lock: no audit runs that nobody will ever settle.      *)
RunningIsOwned ==
    \A w \in Workers : pc[w] \in Holding \ {"exiting"} =>
        \A a \in AuditIds : status[a] = "running" => active[w] = a

(* Whatever enqueues, requeues, recovers, publishes and fails audits, a    *)
(* project has at most one active audit.                                   *)
OneActivePerProject ==
    \A a, b \in AuditIds :
        /\ status[a] \in ActiveStatuses
        /\ status[b] \in ActiveStatuses
        /\ project[a] = project[b]
        => a = b

(* A completed audit carries the report of its own last attempt, made by   *)
(* this workflow version: never NULL, never one that an earlier attempt    *)
(* saved before its worker died.                                           *)
CompletedHasOwnReport ==
    \A a \in AuditIds : status[a] = "completed" =>
        /\ report[a] = attempts[a]
        /\ report[a] > 0
        /\ workflow[a] = "current"

(* Crashes alone never make an audit run more than RecoveryLimit times;    *)
(* only a graceful stop, which gives the audit back, adds an attempt.      *)
AttemptsBounded ==
    \A a \in AuditIds : attempts[a] <= RecoveryLimit + stops

(* The strengthening under which the invariants above are inductive: the    *)
(* lock row of a holder carries its own pid, so that nobody else finds it   *)
(* dead; what a worker executes is the row it claimed, still running unless *)
(* it was cancelled; and a stop signal pays for the attempt it gives back.  *)
LockInv ==
    /\ \A r, s \in lock : r = s
    /\ \A w \in Workers : pc[w] \in Holding => [token |-> w, pid |-> pid[w]] \in lock
    /\ \A w \in Workers : pc[w] # "off" => pid[w] \in Pids

Consistent(w) ==
    /\ pc[w] \in Executing <=> active[w] # 0
    /\ pc[w] \in Executing => attempt[w] = attempts[active[w]] /\ attempt[w] > 0
    /\ pc[w] \in Executing \ {"finished", "catching"}
         => status[active[w]] \in {"running", "cancelled"}
    /\ pc[w] = "catching" /\ "read" \notin Faults
         => status[active[w]] \in {"running", "cancelled"}
    /\ pc[w] = "finished" => status[active[w]] \in {"completed", "cancelled"}
    /\ pc[w] \in {"scanning", "reporting", "reported"}
         => workflow[active[w]] = "current"
    /\ pc[w] = "reported" /\ status[active[w]] = "running"
         => report[active[w]] = attempt[w]

ActiveInv == \A w \in Workers : Consistent(w)

OneRunning ==
    \A a, b \in AuditIds : status[a] = "running" /\ status[b] = "running" => a = b

AttemptInv ==
    /\ \A a \in AuditIds : status[a] \in {"absent", "queued", "awaiting_review"}
         => attempts[a] < RecoveryLimit + stops
    /\ \A w \in Workers : pc[w] \in Executing /\ stopping[w]
         => attempts[active[w]] < RecoveryLimit + stops

IInv ==
    /\ TypeOK
    /\ LockInv
    /\ ActiveInv
    /\ RunningIsOwned
    /\ OneRunning
    /\ CompletedHasOwnReport
    /\ AttemptsBounded
    /\ AttemptInv

(* No later write of a worker revives a cancelled audit or reaches its     *)
(* report, however late the worker notices the cancellation.               *)
CancelledIsFinal ==
    [][\A a \in AuditIds : status[a] = "cancelled" =>
          status'[a] = "cancelled" /\ report'[a] = report[a]]_vars

(* A worker refuses to start only because another worker is running: what  *)
(* the error says.  It needs that nobody gets the pid of a stale row.      *)
RefusedOnlyByWorker ==
    [][\A w \in Workers : pc[w] = "starting" /\ pc'[w] = "refused" =>
          \E v \in Workers \ {w} : pc[v] \in Holding]_vars

(* However workers crash, stop, are refused and start again, a lock row    *)
(* that a dead worker left never keeps out the next one, provided that no  *)
(* process is given the pid in the row: a refused worker met another one   *)
(* past acquireWorker.                                                     *)
StaleLocksAreTaken ==
    [][~reuse => \A w \in Workers : pc[w] = "starting" /\ pc'[w] = "refused" =>
          \E v \in Workers \ {w} : pc[v] \in Holding]_vars

(* Every audit that was queued or claimed is settled, however often the    *)
(* worker is killed while it executes it.                                  *)
AuditsSettle ==
    \A a \in AuditIds :
        status[a] \in {"queued", "running"} ~> status[a] \in SettledStatuses

(* A worker that was asked to stop does.                                   *)
StopEnds == \A w \in Workers : stopping[w] ~> pc[w] = "off"

(* An audit that completed is never rerun and never reported as failed.    *)
CompletedIsFinal ==
    [][\A a \in AuditIds : status[a] = "completed" => status'[a] = "completed"]_vars

(* The store and its workers implement the lifecycle the user sees: one    *)
(* audit at a time over all worker processes, first in first out, settled  *)
(* audits final, completed ones with a report.                             *)
Lifecycle == INSTANCE AuditLifecycle WITH
    stage <- status,
    owner <- project,
    reported <- {a \in AuditIds : report[a] > 0}

ImplementsLifecycle == Lifecycle!Spec
=============================================================================
