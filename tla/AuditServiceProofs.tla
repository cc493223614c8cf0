------------------------- MODULE AuditServiceProofs -------------------------
(***************************************************************************)
(* Theorems about AuditService for every number of projects, audits,       *)
(* workers, pids and stop signals.  The order of the lemmas is that of the *)
(* argument: types; the lock names the one live holder; the index keeps    *)
(* one active audit per project; cancelled rows are never written; with    *)
(* these, the row a worker executes is running or cancelled (ActiveInv),   *)
(* so running rows have an owner, completed rows a report and attempts a   *)
(* bound; and with all of them each step is one of AuditLifecycle.         *)
(***************************************************************************)
EXTENDS AuditService, TLAPS

(* Type correctness is inductive once a running process has a pid.         *)
TypeInv ==
    /\ TypeOK
    /\ \A w \in Workers : pc[w] # "off" => pid[w] \in Pids

-----------------------------------------------------------------------------
(* Every operation of the store keeps the types of its columns.            *)
LEMMA StoreOperations ==
    ASSUME StoreTypeOK
    PROVE  /\ \A p \in Projects, a \in AuditIds : EnqueueAs(p, a) => StoreTypeOK'
           /\ \A a \in AuditIds : ClaimRow(a) => StoreTypeOK'
           /\ \A a \in AuditIds, n \in Nat : SaveProgress(a, n) => StoreTypeOK'
           /\ \A a \in AuditIds, s \in Statuses : Transition(a, s) => StoreTypeOK'
           /\ \A a \in AuditIds : PublishRow(a) => StoreTypeOK'
           /\ \A a \in AuditIds : CancelRow(a) => StoreTypeOK'
           /\ \A live : \A w \in Workers, p \in Pids :
                AcquireWorker(w, p, live) => StoreTypeOK'
           /\ \A w \in Workers : ReleaseWorker(w) => StoreTypeOK'
           /\ UNCHANGED storeVars => StoreTypeOK'
  <1> USE DEF StoreTypeOK, auditRows, storeVars
  <1> USE DEF Statuses, ActiveStatuses, SettledStatuses
  <1>1. ASSUME NEW p \in Projects, NEW a \in AuditIds, EnqueueAs(p, a)
        PROVE  StoreTypeOK'
    BY <1>1 DEF EnqueueAs
  <1>2. ASSUME NEW a \in AuditIds, ClaimRow(a) PROVE StoreTypeOK'
    BY <1>2 DEF ClaimRow
  <1>3. ASSUME NEW a \in AuditIds, NEW n \in Nat, SaveProgress(a, n)
        PROVE  StoreTypeOK'
    BY <1>3 DEF SaveProgress
  <1>4. ASSUME NEW a \in AuditIds, NEW s \in Statuses, Transition(a, s)
        PROVE  StoreTypeOK'
    BY <1>4 DEF Transition
  <1>5. ASSUME NEW a \in AuditIds, PublishRow(a) PROVE StoreTypeOK'
    BY <1>5 DEF PublishRow
  <1>6. ASSUME NEW a \in AuditIds, CancelRow(a) PROVE StoreTypeOK'
    BY <1>6 DEF CancelRow
  <1>7. ASSUME NEW w \in Workers, NEW p \in Pids, NEW live,
               AcquireWorker(w, p, live)
        PROVE  StoreTypeOK'
    BY <1>7 DEF AcquireWorker, Recovered, LockRows
  <1>8. ASSUME NEW w \in Workers, ReleaseWorker(w) PROVE StoreTypeOK'
    BY <1>8 DEF ReleaseWorker
  <1>9. ASSUME UNCHANGED storeVars PROVE StoreTypeOK'
    BY <1>9
  <1> QED
    BY <1>1, <1>2, <1>3, <1>4, <1>5, <1>6, <1>7, <1>8, <1>9

(* The columns of a new or an older database have their types. *)
LEMMA TypeInit == Init => TypeInv
  <1> SUFFICES ASSUME Init PROVE TypeInv
    OBVIOUS
  <1>1. StoreTypeOK
    BY DEF Init, StoreTypeOK, Statuses, ActiveStatuses, AuditIds
  <1>2. WorkerTypeOK
    BY MaxAuditsAssumption, MaxStopsAssumption, PidReuseAssumption DEF Init, WorkerTypeOK, Stages
  <1> QED
    BY <1>1, <1>2 DEF Init, TypeInv, TypeOK

(* What the steps of a worker do to the store. *)
LEMMA StoreStep ==
    ASSUME TypeInv, [Next]_vars
    PROVE  StoreTypeOK'
  <1> USE StoreOperations DEF TypeInv, TypeOK, WorkerTypeOK
  <1>1. ASSUME NEW w \in Workers, Acquire(w) PROVE StoreTypeOK'
    BY <1>1 DEF Acquire, Goto
  <1>2. ASSUME NEW w \in Workers, Claim(w) \/ ClaimThrows(w) PROVE StoreTypeOK'
    BY <1>2 DEF Claim, ClaimThrows
  <1>3. ASSUME NEW w \in Workers, PrepareReport(w) PROVE StoreTypeOK'
    <2>1. CASE active[w] \in AuditIds
      BY <1>3, <2>1 DEF PrepareReport
    <2>2. CASE active[w] \notin AuditIds
      BY <1>3, <2>2 DEF PrepareReport, SaveProgress, StoreTypeOK
    <2> QED
      BY <2>1, <2>2
  <1>4. ASSUME NEW w \in Workers, NEW s \in Statuses, Transition(active[w], s)
        PROVE  StoreTypeOK'
    <2>1. CASE active[w] \in AuditIds
      BY <1>4, <2>1
    <2>2. CASE active[w] \notin AuditIds
      BY <1>4, <2>2 DEF Transition, StoreTypeOK
    <2> QED
      BY <2>1, <2>2
  <1>5. ASSUME NEW w \in Workers, Finish(w) \/ Catch(w) PROVE StoreTypeOK'
    BY <1>4, <1>5
       DEF Finish, Catch, CatchStatus, Statuses, ActiveStatuses, SettledStatuses
  <1>6. ASSUME NEW w \in Workers, Exit(w) PROVE StoreTypeOK'
    BY <1>6 DEF Exit
  <1>7. ASSUME NEW p \in Projects, Enqueue(p) PROVE StoreTypeOK'
    BY <1>7 DEF Enqueue
  <1>8. ASSUME NEW a \in AuditIds, Publish(a) \/ Cancel(a) PROVE StoreTypeOK'
    BY <1>8 DEF Publish, Cancel
  <1>9. CASE UNCHANGED storeVars
    BY <1>9
  <1> QED
    BY <1>1, <1>2, <1>3, <1>5, <1>6, <1>7, <1>8, <1>9
       DEF Next, WorkerStep, Start, Refuse, Boot, Execute, Analyse, Log, Throw,
           CatchThrows, Leave, Heartbeat, Stop, Crash, ForeignStart,
           ForeignExit, vars

(* Every step of a worker keeps the types of its own variables. *)
LEMMA WorkerStepTypes ==
    ASSUME TypeInv, [Next]_vars
    PROVE  /\ WorkerTypeOK'
           /\ \A w \in Workers : pc'[w] # "off" => pid'[w] \in Pids
  <1> DEFINE Goal == /\ WorkerTypeOK'
                     /\ \A w \in Workers : pc'[w] # "off" => pid'[w] \in Pids
  <1> SUFFICES Goal
    OBVIOUS
  <1> USE MaxAuditsAssumption, MaxStopsAssumption
      DEF TypeInv, TypeOK, WorkerTypeOK, Goto, Stages, workerVars, envVars
  <1>1. ASSUME NEW w \in Workers, NEW p \in Pids, Start(w, p) PROVE Goal
    BY <1>1 DEF Start
  <1>2. ASSUME NEW w \in Workers,
               \/ Acquire(w) \/ Refuse(w) \/ Boot(w) \/ Execute(w)
               \/ Analyse(w) \/ PrepareReport(w) \/ Finish(w) \/ Leave(w)
               \/ ClaimThrows(w)
        PROVE  Goal
    BY <1>2 DEF ClaimThrows, Acquire, Refuse, Boot, Execute, Analyse, PrepareReport, Finish,
                Leave
  <1>3. ASSUME NEW w \in Workers, Claim(w) PROVE Goal
    <2>1. PICK a \in AuditIds : /\ ClaimRow(a)
                               /\ active' = [active EXCEPT ![w] = a]
                               /\ attempt' = [attempt EXCEPT ![w] = attempts'[a]]
      BY <1>3 DEF Claim
    <2>2. a \in 0..MaxAudits /\ attempts'[a] \in Nat
      BY <2>1 DEF ClaimRow, StoreTypeOK, AuditIds
    <2> QED
      BY <1>3, <2>1, <2>2 DEF Claim
  <1>4. ASSUME NEW w \in Workers, Log(w) \/ Catch(w) \/ CatchThrows(w)
        PROVE  Goal
    <2>1. aborted' \in [Workers -> BOOLEAN] /\ stopping' \in [Workers -> BOOLEAN]
      BY <1>4, Zenon DEF Log, Catch, CatchThrows, Drop
    <2>2. active' \in [Workers -> 0..MaxAudits] /\ attempt' \in [Workers -> Nat]
      BY <1>4 DEF Log, Catch, CatchThrows, Drop
    <2>3. /\ pc' \in [Workers -> Stages] /\ UNCHANGED <<pid, foreign, stops, reuse>>
          /\ \A v \in Workers : pc'[v] # "off" => pc[v] # "off"
      BY <1>4 DEF Log, Catch, CatchThrows
    <2> QED
      BY <2>1, <2>2, <2>3
  <1>5. ASSUME NEW w \in Workers, Throw(w) PROVE Goal
    BY <1>5 DEF Throw, Executing
  <1>6. ASSUME NEW w \in Workers, Exit(w) \/ Crash(w) PROVE Goal
    <2>1. aborted' \in [Workers -> BOOLEAN] /\ stopping' \in [Workers -> BOOLEAN]
      BY <1>6, Zenon DEF Exit, Crash, Vanish
    <2>2. active' \in [Workers -> 0..MaxAudits] /\ attempt' \in [Workers -> Nat]
      BY <1>6 DEF Exit, Crash, Vanish
    <2>3. /\ pc' \in [Workers -> Stages] /\ pid' \in [Workers -> Pids \cup {NoPid}]
          /\ UNCHANGED <<foreign, stops, reuse>>
          /\ \A v \in Workers : pc'[v] # "off" => pid'[v] \in Pids
      BY <1>6 DEF Exit, Crash, Vanish
    <2> QED
      BY <2>1, <2>2, <2>3
  <1>7. ASSUME NEW w \in Workers, Stop(w) \/ Heartbeat(w) PROVE Goal
    <2>1. aborted' \in [Workers -> BOOLEAN] /\ stopping' \in [Workers -> BOOLEAN]
      BY <1>7, Zenon DEF Stop, Heartbeat
    <2>2. stops' \in 0..MaxStops
      BY <1>7 DEF Stop, Heartbeat
    <2>3. UNCHANGED <<pc, pid, active, attempt, foreign, reuse>>
      BY <1>7 DEF Stop, Heartbeat
    <2> QED
      BY <2>1, <2>2, <2>3
  <1>8. ASSUME NEW p \in Pids, ForeignStart(p) \/ ForeignExit(p) PROVE Goal
    BY <1>8 DEF ForeignStart, ForeignExit
  <1>9. CASE \/ \E p \in Projects : Enqueue(p)
             \/ \E a \in AuditIds : Publish(a) \/ Cancel(a)
             \/ UNCHANGED vars
    BY <1>9 DEF Enqueue, Publish, Cancel, vars
  <1> QED
    BY <1>1, <1>2, <1>3, <1>4, <1>5, <1>6, <1>7, <1>8, <1>9
       DEF Next, WorkerStep

(* The columns of the database and the variables of every process keep     *)
(* their types whatever the processes of AuditService do.                  *)
THEOREM TypeCorrect == Spec => []TypeOK
  <1>1. TypeInv /\ [Next]_vars => TypeInv'
    BY StoreStep, WorkerStepTypes DEF TypeInv, TypeOK
  <1>2. TypeInv => TypeOK
    BY DEF TypeInv
  <1> QED
    BY <1>1, <1>2, TypeInit, PTL DEF Spec

-----------------------------------------------------------------------------
(* The lock names the one worker that may act.                             *)

(* A holder is a live process named by the lock row, so the lock is taken. *)
LEMMA HolderIsAlive ==
    ASSUME LockInv, NEW w \in Workers, pc[w] \in Holding
    PROVE  pid[w] \in LivePids /\ ~LockFree(LivePids)
  <1>1. pc[w] # "off"
    BY DEF Holding, Executing
  <1>2. pid[w] \in LivePids
    BY <1>1 DEF LivePids
  <1> QED
    BY <1>2 DEF LockInv, LockFree

(* One lock row with one token excludes a second holder. *)
LEMMA LockGivesOneWorker == LockInv => OneWorker
  <1> SUFFICES ASSUME LockInv,
                      NEW v \in Workers, NEW w \in Workers,
                      pc[v] \in Holding, pc[w] \in Holding
               PROVE  v = w
    BY DEF OneWorker
  <1>1. [token |-> v, pid |-> pid[v]] = [token |-> w, pid |-> pid[w]]
    BY DEF LockInv
  <1> QED
    BY <1>1

(* Acquiring, releasing and dying keep the lock row the holder's own. *)
LEMMA LockStep ==
    ASSUME TypeInv, LockInv, [Next]_vars
    PROVE  LockInv'
  <1> USE DEF TypeInv, TypeOK, WorkerTypeOK, Goto
  <1>1. ASSUME NEW w \in Workers, NEW p \in Pids, Start(w, p) PROVE LockInv'
    BY <1>1 DEF Start, LockInv, Holding, Executing, storeVars
  <1>2. ASSUME NEW w \in Workers, Acquire(w) PROVE LockInv'
    <2>1. \A v \in Workers : pc[v] \notin Holding
      BY <1>2, HolderIsAlive DEF Acquire, AcquireWorker
    <2>2. lock' = {[token |-> w, pid |-> pid[w]]} /\ pid' = pid
      BY <1>2 DEF Acquire, AcquireWorker
    <2>3. \A v \in Workers : pc'[v] \in Holding => v = w
      BY <1>2, <2>1 DEF Acquire
    <2>4. \A v \in Workers : pc'[v] # "off" => pc[v] # "off"
      BY <1>2 DEF Acquire
    <2> QED
      BY <2>2, <2>3, <2>4 DEF LockInv
  <1>3. ASSUME NEW w \in Workers,
               \/ Refuse(w) \/ Boot(w) \/ Claim(w) \/ Execute(w)
               \/ Analyse(w) \/ PrepareReport(w) \/ Finish(w) \/ Log(w)
               \/ Throw(w) \/ Catch(w) \/ CatchThrows(w) \/ Leave(w)
               \/ ClaimThrows(w)
        PROVE  LockInv'
    <2>1. lock' = lock /\ pid' = pid
      BY <1>3 DEF Refuse, Boot, Claim, ClaimThrows, ClaimRow, Execute, Analyse,
                  PrepareReport, SaveProgress, Finish, Transition, Log, Throw,
                  Catch, CatchThrows, Leave, storeVars
    <2>2. pc[w] # "off" /\ (pc[w] \in Holding \/ Refuse(w))
      BY <1>3 DEF Refuse, Boot, Claim, ClaimThrows, Execute, Analyse,
                  PrepareReport, Finish, Log, Throw, Catch, CatchThrows, Leave, Holding, Executing
    <2>3. /\ \A v \in Workers \ {w} : pc'[v] = pc[v]
          /\ Refuse(w) => pc'[w] = "refused"
      BY <1>3 DEF Refuse, Boot, Claim, ClaimThrows, Execute, Analyse,
                  PrepareReport, Finish, Log, Throw, Catch, CatchThrows, Leave
    <2>4. \A v \in Workers : pc'[v] \in Holding => pc[v] \in Holding
      BY <2>2, <2>3 DEF Holding, Executing
    <2>5. \A v \in Workers : pc'[v] # "off" => pc[v] # "off"
      BY <2>2, <2>3
    <2> QED
      BY <2>1, <2>4, <2>5 DEF LockInv
  <1>4. ASSUME NEW w \in Workers, Exit(w) PROVE LockInv'
    <2>1. \A v \in Workers \ {w} : pc[v] \notin Holding
      BY <1>4, LockGivesOneWorker DEF OneWorker, Exit, Holding
    <2>2. /\ \A v \in Workers \ {w} : pc'[v] = pc[v] /\ pid'[v] = pid[v]
          /\ pc'[w] = "off"
          /\ lock' \subseteq lock
      BY <1>4 DEF Exit, Vanish, ReleaseWorker
    <2>3. \A v \in Workers : pc'[v] \notin Holding
      BY <2>1, <2>2 DEF Holding, Executing
    <2> QED
      BY <2>2, <2>3 DEF LockInv
  <1>5. ASSUME NEW w \in Workers, Crash(w) PROVE LockInv'
    <2>1. /\ \A v \in Workers \ {w} : pc'[v] = pc[v] /\ pid'[v] = pid[v]
          /\ pc'[w] = "off"
          /\ lock' = lock
      BY <1>5 DEF Crash, Vanish, storeVars
    <2> QED
      BY <2>1 DEF LockInv, Holding, Executing
  <1>6. CASE UNCHANGED <<lock, pc, pid>>
    BY <1>6 DEF LockInv
  <1> QED
    BY <1>1, <1>2, <1>3, <1>4, <1>5, <1>6
       DEF Next, WorkerStep, Stop, Heartbeat, ForeignStart, ForeignExit,
           Enqueue, EnqueueAs, Publish, PublishRow, Cancel, CancelRow, vars,
           storeVars, workerVars

(* Two worker processes never execute audits at the same time: the lock,   *)
(* the liveness check on its pid and the operating system's unique pids    *)
(* exclude it, even when a stale row's pid is taken by another process.    *)
THEOREM WorkersExclude == Spec => []OneWorker
  <1>1. Init => TypeInv /\ LockInv
    BY TypeInit DEF Init, LockInv, Holding, Executing
  <1>2. TypeInv /\ LockInv /\ [Next]_vars => TypeInv' /\ LockInv'
    BY StoreStep, WorkerStepTypes, LockStep DEF TypeInv, TypeOK
  <1> QED
    BY <1>1, <1>2, LockGivesOneWorker, PTL DEF Spec

-----------------------------------------------------------------------------
(* The unique index one_active_audit and what the methods do to it.        *)

(* The unique index guards the INSERT of enqueue. *)
LEMMA EnqueueKeepsOneActive ==
    ASSUME StoreTypeOK, OneActivePerProject,
           NEW p \in Projects, NEW a \in AuditIds, EnqueueAs(p, a)
    PROVE  OneActivePerProject'
  <1> SUFFICES ASSUME NEW b \in AuditIds, NEW c \in AuditIds,
                      status'[b] \in ActiveStatuses, status'[c] \in ActiveStatuses,
                      project'[b] = project'[c]
               PROVE  b = c
    BY DEF OneActivePerProject
  <1>1. /\ \A d \in AuditIds \ {a} : status'[d] = status[d] /\ project'[d] = project[d]
        /\ project'[a] = p
    BY DEF EnqueueAs, StoreTypeOK
  <1>2. \A d \in AuditIds \ {a} : project[d] = p => status[d] \notin ActiveStatuses
    BY DEF EnqueueAs, OneActiveAllows
  <1> QED
    BY <1>1, <1>2 DEF OneActivePerProject

(* The unique index guards the UPDATE of transition. *)
LEMMA TransitionKeepsOneActive ==
    ASSUME StoreTypeOK, OneActivePerProject,
           NEW a, NEW s \in Statuses, Transition(a, s)
    PROVE  OneActivePerProject'
  <1> SUFFICES ASSUME NEW b \in AuditIds, NEW c \in AuditIds,
                      status'[b] \in ActiveStatuses, status'[c] \in ActiveStatuses,
                      project'[b] = project'[c]
               PROVE  b = c
    BY DEF OneActivePerProject
  <1>1. /\ \A d \in AuditIds \ {a} : status'[d] = status[d]
        /\ a \in AuditIds => status'[a] \in {s, status[a]}
        /\ project' = project
    BY DEF Transition, StoreTypeOK
  <1>2. CASE status'[a] = status[a] \/ a \notin AuditIds
    BY <1>1, <1>2 DEF OneActivePerProject
  <1>3. CASE a \in AuditIds /\ status'[a] # status[a]
    <2>1. status[a] # "cancelled" /\ status'[a] = s
      BY <1>1, <1>3 DEF Transition, StoreTypeOK
    <2>2. s \in ActiveStatuses => OneActiveAllows(project[a], a)
      BY <2>1 DEF Transition, TransitionThrows
    <2> QED
      BY <1>1, <1>3, <2>1, <2>2 DEF OneActivePerProject, OneActiveAllows
  <1> QED
    BY <1>2, <1>3

(* No step of the service gives a project a second active audit. *)
LEMMA OneActiveStep ==
    ASSUME TypeInv, OneActivePerProject, [Next]_vars
    PROVE  OneActivePerProject'
  <1> USE DEF TypeInv, TypeOK
  <1>1. ASSUME NEW w \in Workers, Acquire(w) PROVE OneActivePerProject'
    <2>1. project' = project /\ status' = [a \in AuditIds |-> Recovered(a)]
      BY <1>1 DEF Acquire, AcquireWorker
    <2>2. \A a \in AuditIds : status'[a] \in ActiveStatuses => status[a] \in ActiveStatuses
      BY <2>1 DEF Recovered, ActiveStatuses
    <2> QED
      BY <2>1, <2>2 DEF OneActivePerProject
  <1>2. ASSUME NEW a \in AuditIds, ClaimRow(a) \/ PublishRow(a) \/ CancelRow(a)
        PROVE  OneActivePerProject'
    <2>1. /\ project' = project
          /\ \A b \in AuditIds : status'[b] \in ActiveStatuses => status[b] \in ActiveStatuses
      BY <1>2 DEF ClaimRow, OldestQueued, PublishRow, CancelRow, ActiveStatuses, StoreTypeOK
    <2> QED
      BY <2>1 DEF OneActivePerProject
  <1>3. ASSUME NEW w \in Workers, Finish(w) \/ Catch(w) PROVE OneActivePerProject'
    BY <1>3, TransitionKeepsOneActive
       DEF Finish, Catch, CatchStatus, Statuses, ActiveStatuses, SettledStatuses
  <1>4. ASSUME NEW p \in Projects, Enqueue(p) PROVE OneActivePerProject'
    BY <1>4, EnqueueKeepsOneActive DEF Enqueue
  <1>5. CASE UNCHANGED <<status, project>>
    BY <1>5 DEF OneActivePerProject
  <1> QED
    BY <1>1, <1>2, <1>3, <1>4, <1>5
       DEF Next, WorkerStep, Start, Refuse, Boot, Claim, ClaimThrows, Execute, Analyse,
           PrepareReport, SaveProgress, Log, Throw, CatchThrows, Leave, Exit,
           ReleaseWorker, Heartbeat, Stop, Crash, Publish, Cancel,
           ForeignStart, ForeignExit, vars, storeVars, auditRows

(* Recovery, graceful stops, late failures and publications never give a   *)
(* project a second active audit.                                          *)
THEOREM ProjectsHaveOneActiveAudit == Spec => []OneActivePerProject
  <1>1. Init => OneActivePerProject
    BY DEF Init, OneActivePerProject, ActiveStatuses
  <1>2. TypeInv /\ OneActivePerProject /\ [Next]_vars
          => TypeInv' /\ OneActivePerProject'
    BY StoreStep, WorkerStepTypes, OneActiveStep DEF TypeInv, TypeOK
  <1> QED
    BY <1>1, <1>2, TypeInit, PTL DEF Spec

-----------------------------------------------------------------------------
(* No step of the service writes the status or report of a cancelled row. *)
LEMMA CancelledStep ==
    ASSUME TypeInv, [Next]_vars,
           NEW a \in AuditIds, status[a] = "cancelled"
    PROVE  status'[a] = "cancelled" /\ report'[a] = report[a]
  <1> USE DEF TypeInv, TypeOK, StoreTypeOK
  <1>1. ASSUME NEW w \in Workers, Acquire(w)
        PROVE  status'[a] = "cancelled" /\ report'[a] = report[a]
    BY <1>1 DEF Acquire, AcquireWorker, Recovered
  <1>2. ASSUME NEW b \in AuditIds, ClaimRow(b) \/ PublishRow(b) \/ CancelRow(b)
        PROVE  status'[a] = "cancelled" /\ report'[a] = report[a]
    BY <1>2 DEF ClaimRow, OldestQueued, PublishRow, CancelRow, ActiveStatuses
  <1>3. ASSUME NEW b, NEW n, SaveProgress(b, n)
        PROVE  status'[a] = "cancelled" /\ report'[a] = report[a]
    BY <1>3 DEF SaveProgress
  <1>4. ASSUME NEW b, NEW s, Transition(b, s)
        PROVE  status'[a] = "cancelled" /\ report'[a] = report[a]
    BY <1>4 DEF Transition
  <1>5. ASSUME NEW p \in Projects, Enqueue(p)
        PROVE  status'[a] = "cancelled" /\ report'[a] = report[a]
    BY <1>5 DEF Enqueue, EnqueueAs, Fresh
  <1>6. CASE UNCHANGED <<status, report>>
    BY <1>6
  <1> QED
    BY <1>1, <1>2, <1>3, <1>4, <1>5, <1>6
       DEF Next, WorkerStep, Start, Refuse, Boot, Claim, ClaimThrows, Execute, Analyse,
           PrepareReport, Finish, Log, Throw, Catch, CatchThrows, Leave, Exit,
           ReleaseWorker, Heartbeat, Stop, Crash, Publish, Cancel,
           ForeignStart, ForeignExit, vars, storeVars, auditRows

(* A cancelled audit stays cancelled with the report it had, whatever its  *)
(* worker, another worker's recovery or a late save still does.            *)
THEOREM CancellationHolds == Spec => CancelledIsFinal
  <1>1. TypeInv /\ [Next]_vars => TypeInv'
    BY StoreStep, WorkerStepTypes DEF TypeInv, TypeOK
  <1>2. TypeInv /\ [Next]_vars
          => [\A a \in AuditIds : status[a] = "cancelled" =>
                status'[a] = "cancelled" /\ report'[a] = report[a]]_vars
    BY CancelledStep
  <1> QED
    BY <1>1, <1>2, TypeInit, PTL DEF Spec, CancelledIsFinal

-----------------------------------------------------------------------------
(* What a worker knows about the row it executes.                          *)

(* A worker that executes has claimed a row. *)
LEMMA ExecutedRow ==
    ASSUME TypeInv, ActiveInv, NEW w \in Workers, pc[w] \in Executing
    PROVE  active[w] \in AuditIds
  BY DEF TypeInv, TypeOK, WorkerTypeOK, ActiveInv, Consistent, AuditIds

(* A process that executes nothing has nothing to be inconsistent with.    *)
LEMMA BystandersConsistent ==
    ASSUME TypeInv, LockInv, ActiveInv,
           NEW w \in Workers, pc[w] \in Holding,
           \A v \in Workers \ {w} : pc'[v] = pc[v] /\ active'[v] = active[v]
    PROVE  \A v \in Workers \ {w} : Consistent(v)'
  <1> SUFFICES ASSUME NEW v \in Workers \ {w} PROVE Consistent(v)'
    OBVIOUS
  <1>1. pc[v] \notin Executing
    BY LockGivesOneWorker DEF OneWorker, Holding
  <1>2. pc'[v] \notin Executing /\ active'[v] = 0
    BY <1>1 DEF ActiveInv, Consistent
  <1> QED
    BY <1>2 DEF Consistent, Executing

(* What a worker relies on about its row survives every step of the service. *)
LEMMA ActiveStep ==
    ASSUME TypeInv, LockInv, ActiveInv, [Next]_vars
    PROVE  ActiveInv'
  <1> USE DEF TypeInv, TypeOK, WorkerTypeOK, StoreTypeOK, Goto
  <1>1. ASSUME NEW w \in Workers, pc[w] \in Holding, Consistent(w)',
               \A v \in Workers \ {w} : pc'[v] = pc[v] /\ active'[v] = active[v]
        PROVE  ActiveInv'
    BY <1>1, BystandersConsistent DEF ActiveInv
  <1>2. ASSUME NEW w \in Workers, pc[w] \notin Executing, pc'[w] \notin Executing,
               \/ UNCHANGED <<active, attempt, auditRows>>
               \/ UNCHANGED auditRows /\ Vanish(w),
               \A v \in Workers \ {w} : pc'[v] = pc[v]
        PROVE  ActiveInv'
    <2>1. active'[w] = 0
      BY <1>2 DEF ActiveInv, Consistent, Vanish
    <2>2. Consistent(w)'
      BY <1>2, <2>1 DEF Consistent, Executing
    <2>3. \A v \in Workers \ {w} : Consistent(v)'
      BY <1>2 DEF ActiveInv, Consistent, Vanish, auditRows
    <2> QED
      BY <2>2, <2>3 DEF ActiveInv
  <1>3. ASSUME NEW w \in Workers, NEW p \in Pids, Start(w, p) PROVE ActiveInv'
    BY <1>2, <1>3 DEF Start, Executing, storeVars, auditRows
  <1>4. ASSUME NEW w \in Workers, Acquire(w) PROVE ActiveInv'
    <2>1. \A v \in Workers : pc[v] \notin Executing
      BY <1>4, HolderIsAlive DEF Acquire, AcquireWorker, Holding
    <2>2. \A v \in Workers : pc'[v] \notin Executing /\ active'[v] = 0
      BY <1>4, <2>1 DEF Acquire, ActiveInv, Consistent, Executing
    <2> QED
      BY <2>2 DEF ActiveInv, Consistent, Executing
  <1>5. ASSUME NEW w \in Workers, Refuse(w) \/ Boot(w) \/ Leave(w) PROVE ActiveInv'
    BY <1>2, <1>5 DEF Refuse, Boot, Leave, Executing, storeVars, auditRows
  <1>6. ASSUME NEW w \in Workers, Claim(w) PROVE ActiveInv'
    <2>1. PICK a \in AuditIds : /\ ClaimRow(a)
                               /\ active' = [active EXCEPT ![w] = a]
                               /\ attempt' = [attempt EXCEPT ![w] = attempts'[a]]
      BY <1>6 DEF Claim
    <2>2. /\ pc'[w] = "claimed" /\ active'[w] = a /\ attempt'[w] = attempts'[a]
          /\ status'[a] = "running" /\ attempts'[a] = attempts[a] + 1
      BY <1>6, <2>1 DEF Claim, ClaimRow
    <2>3. a # 0
      BY MaxAuditsAssumption DEF AuditIds
    <2>4. attempts[a] \in Nat
      OBVIOUS
    <2>5. Consistent(w)'
      BY <2>2, <2>3, <2>4 DEF Consistent, Executing
    <2> QED
      BY <1>1, <1>6, <2>1, <2>5 DEF Claim, Holding
  <1>14. ASSUME NEW w \in Workers, ClaimThrows(w) PROVE ActiveInv'
    <2>1. pc'[w] = "exiting" /\ active'[w] = 0
      BY <1>14 DEF ClaimThrows, ActiveInv, Consistent, Executing
    <2>2. Consistent(w)'
      BY <2>1 DEF Consistent, Executing
    <2> QED
      BY <1>1, <1>14, <2>2 DEF ClaimThrows, Holding
  <1>7. ASSUME NEW w \in Workers, Execute(w) \/ Analyse(w) \/ Throw(w)
        PROVE  ActiveInv'
    <2>1. Consistent(w)'
      <3>1. CASE Execute(w) \/ Analyse(w)
        BY <3>1 DEF Execute, Analyse, ActiveInv, Consistent, Executing, storeVars
      <3>2. CASE Throw(w)
        <4>1. "read" \notin Faults => status[active[w]] \in {"running", "cancelled"}
          BY <3>2 DEF Throw, MayThrow, ActiveInv, Consistent, Executing
        <4> QED
          BY <3>2, <4>1 DEF Throw, ActiveInv, Consistent, Executing, storeVars
      <3> QED
        BY <1>7, <3>1, <3>2
    <2> QED
      BY <1>1, <1>7, <2>1 DEF Execute, Analyse, Throw, Holding, Executing
  <1>8. ASSUME NEW w \in Workers, PrepareReport(w) PROVE ActiveInv'
    <2>1. active[w] \in AuditIds
      BY <1>8, ExecutedRow DEF PrepareReport, Executing
    <2>2. Consistent(w)'
      BY <1>8, <2>1 DEF PrepareReport, SaveProgress, ActiveInv, Consistent,
                        Executing
    <2> QED
      BY <1>1, <1>8, <2>2 DEF PrepareReport, Holding, Executing
  <1>9. ASSUME NEW w \in Workers, Finish(w) PROVE ActiveInv'
    <2>1. active[w] \in AuditIds
      BY <1>9, ExecutedRow DEF Finish, Executing
    <2>2. Consistent(w)'
      BY <1>9, <2>1 DEF Finish, Transition, ActiveInv, Consistent, Executing
    <2> QED
      BY <1>1, <1>9, <2>2 DEF Finish, Holding, Executing
  <1>10. ASSUME NEW w \in Workers, Log(w) \/ Catch(w) \/ CatchThrows(w)
         PROVE  ActiveInv'
    <2>1. pc'[w] \notin Executing /\ active'[w] = 0
      BY <1>10 DEF Log, Catch, CatchThrows, Drop, Executing
    <2>2. Consistent(w)'
      BY <2>1 DEF Consistent, Executing
    <2> QED
      BY <1>1, <1>10, <2>2 DEF Log, Catch, CatchThrows, Drop, Holding, Executing
  <1>11. ASSUME NEW w \in Workers, Exit(w) \/ Crash(w) PROVE ActiveInv'
    <2>1. UNCHANGED auditRows /\ Vanish(w)
      BY <1>11 DEF Exit, Crash, ReleaseWorker, storeVars, auditRows
    <2>2. Consistent(w)'
      BY <2>1 DEF Vanish, Consistent, Executing
    <2>3. \A v \in Workers \ {w} : Consistent(v)'
      BY <2>1 DEF ActiveInv, Consistent, Vanish, auditRows
    <2> QED
      BY <2>2, <2>3 DEF ActiveInv
  <1>12. CASE UNCHANGED <<pc, active, attempt, auditRows>>
    BY <1>12 DEF ActiveInv, Consistent, auditRows
  <1>13. ASSUME UNCHANGED workerVars,
                \/ \E p \in Projects : Enqueue(p)
                \/ \E a \in AuditIds : Publish(a) \/ Cancel(a)
         PROVE  ActiveInv'
    <2> SUFFICES ASSUME NEW w \in Workers PROVE Consistent(w)'
      BY DEF ActiveInv
    <2>1. CASE pc[w] \notin Executing
      BY <1>13, <2>1 DEF ActiveInv, Consistent, Executing, workerVars
    <2>2. CASE pc[w] \in Executing
      <3>1. active[w] \in AuditIds
        BY <2>2, ExecutedRow
      <3>2. /\ attempts' = attempts /\ workflow' = workflow /\ report' = report
            /\ \A a \in AuditIds : \/ status'[a] = status[a]
                                   \/ status[a] \in {"absent", "awaiting_review"}
                                   \/ status[a] \in ActiveStatuses /\ status'[a] = "cancelled"
        BY <1>13 DEF Enqueue, EnqueueAs, Fresh, Publish, PublishRow, Cancel,
                     CancelRow
      <3> QED
        BY <1>13, <2>2, <3>1, <3>2
           DEF ActiveInv, Consistent, Executing, workerVars, ActiveStatuses
    <2> QED
      BY <2>1, <2>2
  <1> QED
    BY <1>3, <1>4, <1>5, <1>6, <1>7, <1>8, <1>9, <1>10, <1>11, <1>12, <1>13, <1>14
       DEF Next, WorkerStep, Heartbeat, Stop, Enqueue, Publish, Cancel,
           ForeignStart, ForeignExit, vars, storeVars, workerVars, auditRows

-----------------------------------------------------------------------------
(* Every running row has its worker, and recovery settles the others.      *)

(* Claim, recovery and a late throw keep every running row owned. *)
LEMMA OwnedStep ==
    ASSUME TypeInv, LockInv, ActiveInv, RunningIsOwned, [Next]_vars
    PROVE  RunningIsOwned'
  <1> USE DEF TypeInv, TypeOK, WorkerTypeOK, StoreTypeOK, Goto
  <1> DEFINE Owner(w) == pc[w] \in Holding \ {"exiting"}
  (* A step of the holder w: the others hold nothing before and after.     *)
  <1>1. ASSUME NEW w \in Workers, pc[w] \in Holding,
               \A v \in Workers \ {w} : pc'[v] = pc[v],
               \/ pc'[w] \notin Holding \ {"exiting"}
               \/ \A a \in AuditIds : status'[a] = "running" => active'[w] = a
        PROVE  RunningIsOwned'
    <2>1. \A v \in Workers \ {w} : pc[v] \notin Holding
      BY <1>1, LockGivesOneWorker DEF OneWorker
    <2> QED
      BY <1>1, <2>1 DEF RunningIsOwned, Holding, Executing
  (* No row starts to run and nobody becomes an owner or drops its audit.  *)
  <1>2. ASSUME \A a \in AuditIds : status'[a] = "running" => status[a] = "running",
               \A v \in Workers : Owner(v)' => Owner(v) /\ active'[v] = active[v]
        PROVE  RunningIsOwned'
    BY <1>2 DEF RunningIsOwned, Holding, Executing
  <1>3. ASSUME NEW w \in Workers, Acquire(w) PROVE RunningIsOwned'
    <2>1. \A a \in AuditIds : status'[a] # "running"
      BY <1>3 DEF Acquire, AcquireWorker, Recovered
    <2> QED
      BY <2>1 DEF RunningIsOwned, Holding, Executing
  <1>4. ASSUME NEW w \in Workers, Claim(w) PROVE RunningIsOwned'
    <2>1. PICK a \in AuditIds : /\ ClaimRow(a)
                               /\ active' = [active EXCEPT ![w] = a]
      BY <1>4 DEF Claim
    <2>2. pc[w] = "idle" /\ active[w] = 0
      BY <1>4 DEF Claim, ActiveInv, Consistent, Executing
    <2>3. \A b \in AuditIds : status[b] # "running"
      <3>1. 0 \notin AuditIds
        BY MaxAuditsAssumption DEF AuditIds
      <3> QED
        BY <2>2, <3>1 DEF RunningIsOwned, Holding, Executing
    <2>4. \A b \in AuditIds : status'[b] = "running" => active'[w] = b
      BY <2>1, <2>3 DEF ClaimRow
    <2>5. \A v \in Workers \ {w} : pc'[v] = pc[v]
      BY <1>4 DEF Claim
    <2> QED
      BY <1>1, <2>2, <2>4, <2>5 DEF Holding, Executing
  <1>5. ASSUME NEW w \in Workers, Log(w) PROVE RunningIsOwned'
    <2>1. status[active[w]] # "running" /\ pc[w] = "finished"
      BY <1>5 DEF Log, ActiveInv, Consistent
    <2>2. \A a \in AuditIds : status'[a] # "running"
      BY <1>5, <2>1 DEF Log, RunningIsOwned, Holding, Executing, storeVars
    <2> QED
      BY <2>2 DEF RunningIsOwned, Holding, Executing
  <1>6. ASSUME NEW w \in Workers, Catch(w) PROVE RunningIsOwned'
    <2>1. pc[w] = "catching" /\ active[w] \in AuditIds
      BY <1>6, ExecutedRow DEF Catch, Executing
    <2>2. \A a \in AuditIds : status[a] = "running" => a = active[w]
      BY <2>1 DEF RunningIsOwned, Holding, Executing
    <2>3. \A a \in AuditIds : status'[a] # "running"
      BY <1>6, <2>1, <2>2 DEF Catch, CatchStatus, Transition
    <2> QED
      BY <2>3 DEF RunningIsOwned, Holding, Executing
  <1>7. ASSUME NEW w \in Workers, Finish(w) PROVE RunningIsOwned'
    BY <1>2, <1>7 DEF Finish, Transition, Holding, Executing
  <1>8. ASSUME NEW w \in Workers, CatchThrows(w) \/ Leave(w) \/ ClaimThrows(w)
        PROVE  RunningIsOwned'
    BY <1>1, <1>8 DEF CatchThrows, Leave, ClaimThrows, Holding, Executing
  <1>9. ASSUME NEW w \in Workers,
               \/ Refuse(w) \/ Boot(w) \/ Execute(w) \/ Analyse(w) \/ PrepareReport(w)
               \/ Throw(w) \/ Exit(w) \/ Crash(w) \/ \E p \in Pids : Start(w, p)
        PROVE  RunningIsOwned'
    <2>1. status' = status
      BY <1>9 DEF Refuse, Boot, Execute, Analyse, PrepareReport, SaveProgress,
                  Throw, Exit, ReleaseWorker, Crash, Start, storeVars, auditRows
    <2>2. \A v \in Workers \ {w} : pc'[v] = pc[v] /\ active'[v] = active[v]
      BY <1>9 DEF Refuse, Boot, Execute, Analyse, PrepareReport, Throw, Exit,
                  Crash, Vanish, Start
    <2>3. \/ pc'[w] \notin Holding
          \/ Owner(w) /\ active'[w] = active[w]
      BY <1>9 DEF Refuse, Boot, Execute, Analyse, PrepareReport, Throw, Exit,
                  Crash, Vanish, Start, Holding, Executing
    <2>4. \A v \in Workers : Owner(v)' => Owner(v) /\ active'[v] = active[v]
      BY <2>2, <2>3 DEF Holding, Executing
    <2> QED
      BY <1>2, <2>1, <2>4
  <1>10. CASE /\ UNCHANGED <<pc, active>>
              /\ \A a \in AuditIds : status'[a] = "running" => status[a] = "running"
    BY <1>2, <1>10
  <1>11. ASSUME \/ \E p \in Projects : Enqueue(p)
                \/ \E a \in AuditIds : Publish(a) \/ Cancel(a)
         PROVE  RunningIsOwned'
    BY <1>10, <1>11 DEF Enqueue, EnqueueAs, Publish, PublishRow, Cancel,
                        CancelRow, workerVars
  <1> QED
    BY <1>3, <1>4, <1>5, <1>6, <1>7, <1>8, <1>9, <1>10, <1>11
       DEF Next, WorkerStep, Heartbeat, Stop, ForeignStart, ForeignExit, vars,
           storeVars, workerVars

(* A claim finds no other row running. *)
LEMMA OneRunningStep ==
    ASSUME TypeInv, ActiveInv, RunningIsOwned, OneRunning, [Next]_vars
    PROVE  OneRunning'
  <1> USE DEF TypeInv, TypeOK, WorkerTypeOK, StoreTypeOK, Goto
  <1>1. ASSUME \A a \in AuditIds : status'[a] = "running" => status[a] = "running"
        PROVE  OneRunning'
    BY <1>1 DEF OneRunning
  <1>2. ASSUME NEW w \in Workers, Claim(w) \/ ClaimThrows(w) PROVE OneRunning'
    <2>1. PICK a \in AuditIds : ClaimRow(a)
      BY <1>2 DEF Claim, ClaimThrows
    <2>2. pc[w] = "idle" /\ active[w] = 0
      BY <1>2 DEF Claim, ClaimThrows, ActiveInv, Consistent, Executing
    <2>3. 0 \notin AuditIds
      BY MaxAuditsAssumption DEF AuditIds
    <2>4. \A b \in AuditIds : status[b] # "running"
      BY <2>2, <2>3 DEF RunningIsOwned, Holding, Executing
    <2> QED
      BY <2>1, <2>4 DEF ClaimRow, OneRunning
  <1>3. ASSUME NEW w \in Workers, Acquire(w) \/ Finish(w) \/ Catch(w)
        PROVE  OneRunning'
    BY <1>1, <1>3 DEF Acquire, AcquireWorker, Recovered, Finish, Catch,
                      CatchStatus, Transition
  <1>4. ASSUME \/ \E p \in Projects : Enqueue(p)
               \/ \E a \in AuditIds : Publish(a) \/ Cancel(a)
        PROVE  OneRunning'
    BY <1>1, <1>4 DEF Enqueue, EnqueueAs, Publish, PublishRow, Cancel, CancelRow
  <1>5. CASE UNCHANGED status
    BY <1>1, <1>5
  <1> QED
    BY <1>2, <1>3, <1>4, <1>5
       DEF Next, WorkerStep, Start, Refuse, Boot, Execute, Analyse,
           PrepareReport, SaveProgress, Log, Throw, CatchThrows, Leave, Exit,
           ReleaseWorker, Heartbeat, Stop, Crash, ForeignStart, ForeignExit,
           vars, storeVars, auditRows

-----------------------------------------------------------------------------
(* Only Finish completes, and it finds the report of its own attempt. *)
LEMMA CompletedStep ==
    ASSUME TypeInv, ActiveInv, CompletedHasOwnReport, [Next]_vars
    PROVE  CompletedHasOwnReport'
  <1> USE DEF TypeInv, TypeOK, WorkerTypeOK, StoreTypeOK, Goto
  (* No audit completes, and completed rows keep their report and attempts. *)
  <1>1. ASSUME \A a \in AuditIds : status'[a] = "completed" =>
                 /\ status[a] = "completed"
                 /\ report'[a] = report[a] /\ attempts'[a] = attempts[a]
                 /\ workflow'[a] = workflow[a]
        PROVE  CompletedHasOwnReport'
    BY <1>1 DEF CompletedHasOwnReport
  <1>2. ASSUME NEW w \in Workers, Acquire(w) PROVE CompletedHasOwnReport'
    BY <1>1, <1>2 DEF Acquire, AcquireWorker, Recovered
  <1>3. ASSUME NEW a \in AuditIds, ClaimRow(a) \/ PublishRow(a) \/ CancelRow(a)
        PROVE  CompletedHasOwnReport'
    BY <1>1, <1>3 DEF ClaimRow, OldestQueued, PublishRow, CancelRow, ActiveStatuses
  <1>4. ASSUME NEW w \in Workers, PrepareReport(w) PROVE CompletedHasOwnReport'
    BY <1>1, <1>4 DEF PrepareReport, SaveProgress
  <1>5. ASSUME NEW w \in Workers, Finish(w) PROVE CompletedHasOwnReport'
    <2>1. active[w] \in AuditIds /\ pc[w] = "reported"
      BY <1>5, ExecutedRow DEF Finish, Executing
    <2>2. status[active[w]] = "running" =>
             /\ report[active[w]] = attempts[active[w]]
             /\ report[active[w]] > 0
             /\ workflow[active[w]] = "current"
      BY <2>1 DEF ActiveInv, Consistent, Executing
    <2>3. /\ status[active[w]] \in {"running", "cancelled"}
          /\ UNCHANGED <<report, attempts, workflow>>
          /\ \A a \in AuditIds \ {active[w]} : status'[a] = status[a]
          /\ status[active[w]] = "cancelled" => status'[active[w]] = "cancelled"
      BY <1>5, <2>1 DEF Finish, Transition, ActiveInv, Consistent, Executing
    <2> QED
      BY <2>1, <2>2, <2>3 DEF CompletedHasOwnReport
  <1>6. ASSUME NEW w \in Workers, Catch(w) PROVE CompletedHasOwnReport'
    BY <1>1, <1>6 DEF Catch, CatchStatus, Transition
  <1>7. ASSUME NEW p \in Projects, Enqueue(p) PROVE CompletedHasOwnReport'
    BY <1>1, <1>7 DEF Enqueue, EnqueueAs
  <1>8. CASE UNCHANGED auditRows
    BY <1>1, <1>8 DEF auditRows
  <1> QED
    BY <1>2, <1>3, <1>4, <1>5, <1>6, <1>7, <1>8
       DEF Next, WorkerStep, Start, Refuse, Boot, Claim, ClaimThrows, Execute, Analyse, Log,
           Throw, CatchThrows, Leave, Exit, ReleaseWorker, Heartbeat, Stop,
           Crash, Publish, Cancel, ForeignStart, ForeignExit, vars, storeVars,
           auditRows

-----------------------------------------------------------------------------
(* A stop signal pays for the attempt its catch block gives back. *)
LEMMA AttemptStep ==
    ASSUME TypeInv, LockInv, ActiveInv, AttemptsBounded, AttemptInv, [Next]_vars
    PROVE  AttemptsBounded' /\ AttemptInv'
  <1> DEFINE Waiting == {"absent", "queued", "awaiting_review"}
             Goal == AttemptsBounded' /\ AttemptInv'
  <1> SUFFICES Goal
    OBVIOUS
  <1> USE DEF TypeInv, TypeOK, WorkerTypeOK, StoreTypeOK, Goto
  (* Steps that count nothing, queue nothing and stop nobody.              *)
  <1>1. ASSUME attempts' = attempts, stops' = stops,
               \A a \in AuditIds : status'[a] \in Waiting =>
                  status[a] \in Waiting \/ attempts[a] < RecoveryLimit + stops,
               \A v \in Workers : pc'[v] \in Executing /\ stopping'[v] =>
                  /\ pc[v] \in Executing /\ stopping[v]
                  /\ active'[v] = active[v]
        PROVE  Goal
    BY <1>1 DEF AttemptsBounded, AttemptInv
  <1>2. ASSUME NEW w \in Workers, Acquire(w) PROVE Goal
    <2>1. \A a \in AuditIds : status'[a] \in Waiting =>
             status[a] \in Waiting \/ attempts[a] < RecoveryLimit + stops
      BY <1>2, MaxStopsAssumption
         DEF Acquire, AcquireWorker, Recovered, RecoveryLimit
    <2>2. \A v \in Workers : pc'[v] \in Executing => pc[v] \in Executing
      BY <1>2 DEF Acquire, Executing
    <2> QED
      BY <1>1, <1>2, <2>1, <2>2 DEF Acquire, AcquireWorker, envVars
  <1>3. ASSUME NEW w \in Workers, Claim(w) \/ ClaimThrows(w) PROVE Goal
    <2>1. PICK a \in AuditIds : ClaimRow(a)
      BY <1>3 DEF Claim, ClaimThrows
    <2>2. attempts[a] < RecoveryLimit + stops /\ stops \in Nat
      BY <2>1, MaxStopsAssumption DEF ClaimRow, OldestQueued, AttemptInv
    <2>3. /\ attempts'[a] = attempts[a] + 1
          /\ \A b \in AuditIds \ {a} : attempts'[b] = attempts[b] /\ status'[b] = status[b]
          /\ status'[a] = "running" /\ stops' = stops
      BY <1>3, <2>1 DEF Claim, ClaimThrows, ClaimRow, envVars
    <2>4. \A b \in AuditIds : attempts'[b] <= RecoveryLimit + stops'
      BY <2>2, <2>3 DEF AttemptsBounded, RecoveryLimit
    <2>5. \A v \in Workers : ~(pc'[v] \in Executing /\ stopping'[v])
      BY <1>3, LockGivesOneWorker DEF Claim, ClaimThrows, OneWorker, Holding, Executing
    <2> QED
      BY <2>3, <2>4, <2>5 DEF AttemptsBounded, AttemptInv
  <1>4. ASSUME NEW w \in Workers, Catch(w) PROVE Goal
    <2>1. active[w] \in AuditIds /\ pc[w] = "catching"
      BY <1>4, ExecutedRow DEF Catch, Executing
    <2>2. \A a \in AuditIds : status'[a] \in Waiting =>
             status[a] \in Waiting \/ attempts[a] < RecoveryLimit + stops
      BY <1>4, <2>1 DEF Catch, CatchStatus, Transition, AttemptInv, Executing
    <2>3. \A v \in Workers : pc'[v] \in Executing => v # w /\ pc[v] \in Executing
      BY <1>4 DEF Catch, Executing
    <2> QED
      BY <1>1, <1>4, <2>2, <2>3 DEF Catch, Transition, Drop, envVars
  <1>5. ASSUME NEW w \in Workers, Finish(w) PROVE Goal
    <2>1. \A a \in AuditIds : status'[a] \in Waiting => status[a] \in Waiting
      BY <1>5 DEF Finish, Transition
    <2>2. \A v \in Workers : pc'[v] \in Executing => pc[v] \in Executing
      BY <1>5 DEF Finish, Executing
    <2> QED
      BY <1>1, <1>5, <2>1, <2>2 DEF Finish, Transition, envVars
  <1>6. ASSUME NEW w \in Workers, Stop(w) PROVE Goal
    <2>1. stops' = stops + 1 /\ UNCHANGED <<status, attempts, pc, active>>
      BY <1>6 DEF Stop, storeVars
    <2>2. \A a \in AuditIds : attempts[a] < RecoveryLimit + stops'
      BY <2>1, MaxStopsAssumption DEF AttemptsBounded, RecoveryLimit
    <2>3. \A v \in Workers : pc[v] \in Executing => active[v] \in AuditIds
      BY ExecutedRow
    <2>4. AttemptInv'
      BY <2>1, <2>2, <2>3 DEF AttemptInv
    <2>5. AttemptsBounded'
      BY <2>1, <2>2, MaxStopsAssumption DEF AttemptsBounded, RecoveryLimit
    <2> QED
      BY <2>4, <2>5
  <1>7. ASSUME NEW w \in Workers, Exit(w) \/ Crash(w) PROVE Goal
    <2>1. \A v \in Workers : pc'[v] \in Executing =>
             /\ pc[v] \in Executing /\ active'[v] = active[v]
             /\ stopping'[v] = stopping[v]
      BY <1>7 DEF Exit, Crash, Vanish, Executing
    <2>2. UNCHANGED <<status, attempts, stops>>
      BY <1>7 DEF Exit, Crash, ReleaseWorker, auditRows, storeVars, envVars
    <2> QED
      BY <1>1, <2>1, <2>2
  <1>8. ASSUME NEW w \in Workers,
               \/ Refuse(w) \/ Boot(w) \/ Execute(w) \/ Analyse(w) \/ PrepareReport(w)
               \/ Log(w) \/ Throw(w) \/ CatchThrows(w) \/ Leave(w)
               \/ \E p \in Pids : Start(w, p)
        PROVE  Goal
    <2>1. UNCHANGED <<status, attempts, stops, stopping>>
      BY <1>8 DEF Refuse, Boot, Execute, Analyse, PrepareReport, SaveProgress,
                  Log, Throw, CatchThrows, Leave, Start, storeVars, envVars
    <2>2. \A v \in Workers \ {w} : pc'[v] = pc[v] /\ active'[v] = active[v]
      BY <1>8 DEF Refuse, Boot, Execute, Analyse, PrepareReport, Log, Throw,
                  CatchThrows, Drop, Leave, Start
    <2>3. pc'[w] \in Executing => pc[w] \in Executing /\ active'[w] = active[w]
      BY <1>8 DEF Refuse, Boot, Execute, Analyse, PrepareReport, Log, Throw,
                  CatchThrows, Leave, Start, Executing
    <2> QED
      BY <1>1, <2>1, <2>2, <2>3
  <1>9. ASSUME \/ \E p \in Projects : Enqueue(p)
               \/ \E a \in AuditIds : Publish(a) \/ Cancel(a)
        PROVE  Goal
    <2>1. \A a \in AuditIds : status'[a] \in Waiting => status[a] \in Waiting
      BY <1>9 DEF Enqueue, EnqueueAs, Fresh, Publish, PublishRow, Cancel, CancelRow
    <2> QED
      BY <1>1, <1>9, <2>1 DEF Enqueue, EnqueueAs, Publish, PublishRow, Cancel,
                              CancelRow, workerVars, envVars
  <1>10. CASE UNCHANGED <<status, attempts, stops, pc, active, stopping>>
    BY <1>1, <1>10
  <1> QED
    BY <1>2, <1>3, <1>4, <1>5, <1>6, <1>7, <1>8, <1>9, <1>10
       DEF Next, WorkerStep, Heartbeat, ForeignStart, ForeignExit, vars,
           storeVars, workerVars, envVars

-----------------------------------------------------------------------------
(* The initial states satisfy the inductive invariant. *)
LEMMA InductiveInit == Init => IInv
  <1> SUFFICES ASSUME Init PROVE IInv
    OBVIOUS
  <1>1. TypeOK
    BY TypeInit DEF TypeInv
  <1>2. LockInv
    BY DEF Init, LockInv, Holding, Executing
  <1>3. ActiveInv
    BY DEF Init, ActiveInv, Consistent, Executing
  <1>4. RunningIsOwned /\ OneRunning
    BY DEF Init, RunningIsOwned, OneRunning, Holding, Executing
  <1>5. CompletedHasOwnReport
    BY DEF Init, CompletedHasOwnReport
  <1>6. \A a \in AuditIds : attempts[a] \in {0, 1}
    BY DEF Init
  <1>7. stops = 0 /\ \A w \in Workers : pc[w] \notin Executing
    BY DEF Init, Executing
  <1>8. AttemptsBounded /\ AttemptInv
    BY <1>6, <1>7 DEF AttemptsBounded, AttemptInv, RecoveryLimit
  <1> QED
    BY <1>1, <1>2, <1>3, <1>4, <1>5, <1>8 DEF IInv

(* Every step, or stutter, keeps the inductive invariant. *)
LEMMA InductiveStep == IInv /\ [Next]_vars => IInv'
  <1> SUFFICES ASSUME IInv, [Next]_vars PROVE IInv'
    OBVIOUS
  <1>1. TypeInv
    BY DEF IInv, TypeInv, LockInv
  <1>2. TypeOK' /\ LockInv'
    BY <1>1, StoreStep, WorkerStepTypes, LockStep DEF IInv, TypeOK
  <1>3. ActiveInv' /\ RunningIsOwned' /\ OneRunning'
    BY <1>1, ActiveStep, OwnedStep, OneRunningStep DEF IInv
  <1>4. CompletedHasOwnReport' /\ AttemptsBounded' /\ AttemptInv'
    BY <1>1, CompletedStep, AttemptStep DEF IInv
  <1> QED
    BY <1>2, <1>3, <1>4 DEF IInv

(* The conjunction that carries the theorems below.                        *)
THEOREM InductiveInvariant == Spec => []IInv
  BY InductiveInit, InductiveStep, PTL DEF Spec

(* Whenever a worker holds the lock, the only row that is "running" is the *)
(* one it executes: a crash leaves no audit running that nobody settles.   *)
THEOREM RunningAuditsAreOwned == Spec => []RunningIsOwned
  <1>1. IInv => RunningIsOwned
    BY DEF IInv
  <1> QED
    BY <1>1, InductiveInvariant, PTL

(* A completed audit has the report of its own last attempt.               *)
THEOREM CompletedAuditsAreReported == Spec => []CompletedHasOwnReport
  <1>1. IInv => CompletedHasOwnReport
    BY DEF IInv
  <1> QED
    BY <1>1, InductiveInvariant, PTL

(* Crash recovery is bounded: without graceful stops no audit is attempted *)
(* more than three times, and each stop adds at most one attempt.          *)
THEOREM RecoveryIsBounded == Spec => []AttemptsBounded
  <1>1. IInv => AttemptsBounded
    BY DEF IInv
  <1> QED
    BY <1>1, InductiveInvariant, PTL

-----------------------------------------------------------------------------
(* The refinement of AuditLifecycle, when no read of the database throws.  *)

(* A new or older database is an initial state of the lifecycle. *)
LEMMA LifecycleInit == Init => Lifecycle!Init
  <1> SUFFICES ASSUME Init PROVE Lifecycle!Init
    OBVIOUS
  <1>0. Lifecycle!AuditIds = AuditIds
    BY DEF Lifecycle!AuditIds, AuditIds
  <1>1. CASE /\ status = [a \in AuditIds |-> "absent"]
             /\ project = [a \in AuditIds |-> NoProject]
             /\ report = [a \in AuditIds |-> 0]
    BY <1>0, <1>1 DEF Lifecycle!Init
  <1>2. ASSUME NEW p \in Projects,
               status = [a \in AuditIds |->
                           IF a = 1 THEN "awaiting_review" ELSE "absent"],
               project = [a \in AuditIds |-> IF a = 1 THEN p ELSE NoProject],
               report = [a \in AuditIds |-> IF a = 1 THEN 1 ELSE 0]
        PROVE  Lifecycle!Init
    <2>1. p # NoProject
      BY ProjectAssumption
    <2>2. {a \in AuditIds : report[a] > 0} = {a \in AuditIds : status[a] # "absent"}
      BY <1>2
    <2> QED
      BY <1>0, <1>2, <2>1, <2>2 DEF Lifecycle!Init
  <1> QED
    BY <1>1, <1>2 DEF Init

(* Every step of the service is a step of the lifecycle, or a stutter of it. *)
LEMMA LifecycleStep ==
    ASSUME "read" \notin Faults, IInv, [Next]_vars
    PROVE  [Lifecycle!Next]_(Lifecycle!vars)
  <1> USE DEF IInv, TypeOK, WorkerTypeOK, StoreTypeOK, Goto
  <1>0. Lifecycle!AuditIds = AuditIds /\ Lifecycle!Active = ActiveStatuses
    BY DEF Lifecycle!AuditIds, AuditIds, Lifecycle!Active, ActiveStatuses
  <1>1. ASSUME UNCHANGED <<status, project, report>>
        PROVE  UNCHANGED Lifecycle!vars
    BY <1>1 DEF Lifecycle!vars
  <1>2. ASSUME NEW w \in Workers, Acquire(w)
        PROVE  (\E a \in AuditIds : Lifecycle!Abandon(a)) \/ UNCHANGED Lifecycle!vars
    <2>1. /\ status' = [a \in AuditIds |-> Recovered(a)]
          /\ UNCHANGED <<project, report>>
      BY <1>2 DEF Acquire, AcquireWorker
    <2>2. CASE \A a \in AuditIds : status[a] # "running"
      <3>1. status' = status
        BY <2>1, <2>2 DEF Recovered
      <3> QED
        BY <1>1, <2>1, <3>1
    <2>3. ASSUME NEW a \in AuditIds, status[a] = "running"
          PROVE  Lifecycle!Abandon(a)
      <3>1. \A b \in AuditIds \ {a} : Recovered(b) = status[b]
        BY <2>3 DEF OneRunning, Recovered
      <3>2. /\ status' = [status EXCEPT ![a] = Recovered(a)]
            /\ Recovered(a) \in {"failed", "queued"}
        BY <2>1, <2>3, <3>1 DEF Recovered
      <3> QED
        BY <2>1, <2>3, <3>2 DEF Lifecycle!Abandon, Lifecycle!Move
    <2> QED
      BY <2>2, <2>3
  <1>3. ASSUME NEW w \in Workers, Claim(w)
        PROVE  \E a \in AuditIds : Lifecycle!Begin(a)
    <2>1. PICK a \in AuditIds : ClaimRow(a)
      BY <1>3 DEF Claim
    <2>2. pc[w] = "idle" /\ active[w] = 0
      BY <1>3 DEF Claim, ActiveInv, Consistent, Executing
    <2>3. 0 \notin AuditIds
      BY MaxAuditsAssumption DEF AuditIds
    <2>4. \A b \in AuditIds : status[b] # "running"
      BY <2>2, <2>3 DEF RunningIsOwned, Holding, Executing
    <2> QED
      BY <1>0, <2>1, <2>4
         DEF ClaimRow, OldestQueued, Lifecycle!Begin, Lifecycle!Move
  <1>4. ASSUME NEW w \in Workers, PrepareReport(w)
        PROVE  \/ \E a \in AuditIds : Lifecycle!Report(a)
               \/ UNCHANGED Lifecycle!vars
    <2>1. active[w] \in AuditIds /\ pc[w] = "reporting" /\ attempt[w] > 0
      BY <1>4, ExecutedRow
         DEF PrepareReport, Executing, TypeInv, LockInv, ActiveInv, Consistent
    <2>2. CASE status[active[w]] = "running"
      <3>1. /\ report' = [report EXCEPT ![active[w]] = attempt[w]]
            /\ UNCHANGED <<status, project>>
        BY <1>4, <2>2 DEF PrepareReport, SaveProgress
      <3>2. {a \in AuditIds : report'[a] > 0}
              = {a \in AuditIds : report[a] > 0} \cup {active[w]}
        BY <2>1, <3>1
      <3> QED
        BY <2>1, <2>2, <3>1, <3>2 DEF Lifecycle!Report
    <2>3. CASE status[active[w]] # "running"
      <3>1. UNCHANGED <<status, project, report>>
        BY <1>4, <2>1, <2>3 DEF PrepareReport, SaveProgress
      <3> QED
        BY <1>1, <3>1
    <2> QED
      BY <2>2, <2>3
  <1>5. ASSUME NEW w \in Workers, Finish(w)
        PROVE  \/ \E a \in AuditIds : Lifecycle!Complete(a)
               \/ UNCHANGED Lifecycle!vars
    <2>1. active[w] \in AuditIds /\ pc[w] = "reported"
      BY <1>5, ExecutedRow DEF Finish, Executing, TypeInv, LockInv
    <2>2. status[active[w]] \in {"running", "cancelled"} /\ UNCHANGED <<project, report>>
      BY <1>5, <2>1 DEF ActiveInv, Consistent, Executing, Finish, Transition
    <2>3. CASE status[active[w]] = "running"
      <3>1. report[active[w]] > 0
        BY <2>1, <2>3 DEF ActiveInv, Consistent, Executing
      <3>2. status' = [status EXCEPT ![active[w]] = "completed"]
        BY <1>5, <2>3 DEF Finish, Transition
      <3> QED
        BY <2>1, <2>2, <2>3, <3>1, <3>2 DEF Lifecycle!Complete, Lifecycle!Move
    <2>4. CASE status[active[w]] = "cancelled"
      <3>1. status' = status
        BY <1>5, <2>4 DEF Finish, Transition
      <3> QED
        BY <1>1, <2>2, <3>1
    <2> QED
      BY <2>2, <2>3, <2>4
  <1>6. ASSUME NEW w \in Workers, Catch(w)
        PROVE  \/ \E a \in AuditIds : Lifecycle!Abandon(a)
               \/ UNCHANGED Lifecycle!vars
    <2>1. active[w] \in AuditIds /\ pc[w] = "catching"
      BY <1>6, ExecutedRow DEF Catch, Executing, TypeInv, LockInv
    <2>2. status[active[w]] \in {"running", "cancelled"} /\ UNCHANGED <<project, report>>
      BY <1>6, <2>1 DEF ActiveInv, Consistent, Catch, Transition
    <2>3. CASE status[active[w]] = "running"
      <3>1. /\ status' = [status EXCEPT ![active[w]] = CatchStatus(w)]
            /\ CatchStatus(w) \in {"failed", "queued"}
        BY <1>6, <2>3 DEF Catch, CatchStatus, Transition
      <3> QED
        BY <2>1, <2>2, <2>3, <3>1 DEF Lifecycle!Abandon, Lifecycle!Move
    <2>4. CASE status[active[w]] = "cancelled"
      <3>1. status' = status
        BY <1>6, <2>4 DEF Catch, Transition
      <3> QED
        BY <1>1, <2>2, <3>1
    <2> QED
      BY <2>2, <2>3, <2>4
  <1>7. ASSUME NEW p \in Projects, NEW a \in AuditIds, EnqueueAs(p, a)
        PROVE  Lifecycle!Submit(a, p)
    <2>1. \A b \in AuditIds : status[b] \in ActiveStatuses => project[b] # p
      BY <1>7 DEF EnqueueAs, OneActiveAllows, Fresh, ActiveStatuses
    <2> QED
      BY <1>0, <1>7, <2>1
         DEF EnqueueAs, Fresh, Lifecycle!Submit, Lifecycle!Move
  <1>8. ASSUME NEW a \in AuditIds, Publish(a) \/ Cancel(a)
        PROVE  Lifecycle!Publish(a) \/ Lifecycle!Cancel(a)
    BY <1>0, <1>8 DEF Publish, PublishRow, Cancel, CancelRow,
                      Lifecycle!Publish, Lifecycle!Cancel, Lifecycle!Move
  <1>9. \A a \in AuditIds :
          \/ \E p \in Projects : Lifecycle!Submit(a, p)
          \/ Lifecycle!Begin(a) \/ Lifecycle!Report(a) \/ Lifecycle!Complete(a)
          \/ Lifecycle!Abandon(a) \/ Lifecycle!Publish(a) \/ Lifecycle!Cancel(a)
          => Lifecycle!Next
    BY <1>0 DEF Lifecycle!Next
  <1>10. ASSUME NEW p \in Projects, Enqueue(p) PROVE Lifecycle!Next
    BY <1>7, <1>9, <1>10 DEF Enqueue
  <1>11. ASSUME NEW w \in Workers,
                Acquire(w) \/ Claim(w) \/ PrepareReport(w) \/ Finish(w) \/ Catch(w)
         PROVE  Lifecycle!Next \/ UNCHANGED Lifecycle!vars
    <2>1. \/ \E a \in AuditIds :
               \/ Lifecycle!Begin(a) \/ Lifecycle!Report(a)
               \/ Lifecycle!Complete(a) \/ Lifecycle!Abandon(a)
          \/ UNCHANGED Lifecycle!vars
      BY <1>2, <1>3, <1>4, <1>5, <1>6, <1>11
    <2> QED
      BY <1>9, <2>1
  <1>12. ASSUME NEW w \in Workers,
                \/ Refuse(w) \/ Boot(w) \/ Execute(w) \/ Analyse(w) \/ Log(w)
                \/ Throw(w) \/ CatchThrows(w) \/ Leave(w) \/ Exit(w)
                \/ Heartbeat(w) \/ Stop(w) \/ Crash(w)
                \/ \E p \in Pids : Start(w, p)
         PROVE  UNCHANGED Lifecycle!vars
    BY <1>1, <1>12
       DEF Refuse, Boot, Execute, Analyse, Log, Throw, CatchThrows, Leave, Exit,
           ReleaseWorker, Heartbeat, Stop, Crash, Start, storeVars, auditRows
  <1>14. \A w \in Workers : ~ClaimThrows(w)
    BY DEF ClaimThrows
  <1>13. CASE \/ \E p \in Pids : ForeignStart(p) \/ ForeignExit(p)
              \/ UNCHANGED vars
    BY <1>1, <1>13 DEF ForeignStart, ForeignExit, vars, storeVars
  <1> QED
    BY <1>8, <1>9, <1>10, <1>11, <1>12, <1>13, <1>14 DEF Next, WorkerStep

(* A worker finds the row it settles running or cancelled, so the only     *)
(* writes of a status leave completed rows alone.                          *)
LEMMA CompletedStaysStep ==
    ASSUME "read" \notin Faults, IInv, [Next]_vars,
           NEW a \in AuditIds, status[a] = "completed"
    PROVE  status'[a] = "completed"
  <1> USE DEF IInv, TypeOK, WorkerTypeOK, StoreTypeOK, Goto
  <1>1. ASSUME NEW w \in Workers, Acquire(w) PROVE status'[a] = "completed"
    BY <1>1 DEF Acquire, AcquireWorker, Recovered
  <1>2. ASSUME NEW b \in AuditIds, ClaimRow(b) \/ PublishRow(b) \/ CancelRow(b)
        PROVE  status'[a] = "completed"
    BY <1>2 DEF ClaimRow, OldestQueued, PublishRow, CancelRow, ActiveStatuses
  <1>3. ASSUME NEW w \in Workers, Finish(w) PROVE status'[a] = "completed"
    BY <1>3 DEF Finish, Transition
  <1>4. ASSUME NEW w \in Workers, Catch(w) PROVE status'[a] = "completed"
    <2>1. status[active[w]] \in {"running", "cancelled"}
      BY <1>4 DEF Catch, ActiveInv, Consistent
    <2>2. a # active[w]
      BY <2>1
    <2> QED
      BY <1>4, <2>2 DEF Catch, Transition
  <1>5. ASSUME NEW p \in Projects, Enqueue(p) PROVE status'[a] = "completed"
    BY <1>5 DEF Enqueue, EnqueueAs, Fresh
  <1>6. CASE UNCHANGED status
    BY <1>6
  <1> QED
    BY <1>1, <1>2, <1>3, <1>4, <1>5, <1>6
       DEF Next, WorkerStep, Start, Refuse, Boot, Claim, ClaimThrows, Execute, Analyse,
           PrepareReport, SaveProgress, Log, Throw, CatchThrows, Leave, Exit,
           ReleaseWorker, auditRows, Stop, Heartbeat, Crash, Publish, Cancel,
           ForeignStart, ForeignExit, vars, storeVars

(* An audit that completed is never rerun, recovered or reported as        *)
(* failed, as long as no read of the database throws: the log line that    *)
(* follows the completion inside the same try block is such a read.        *)
THEOREM CompletionHolds ==
    ASSUME "read" \notin Faults
    PROVE  Spec => CompletedIsFinal
  <1>1. ASSUME IInv, [Next]_vars
        PROVE  \A a \in AuditIds : status[a] = "completed" => status'[a] = "completed"
    BY <1>1, CompletedStaysStep
  <1> QED
    BY <1>1, InductiveInvariant, PTL DEF Spec, CompletedIsFinal

(* Store, workers, crashes and recovery together do what the lifecycle     *)
(* promises: one audit at a time, first in first out, completed only with  *)
(* a report, and settled for good.                                         *)
THEOREM ServiceImplementsLifecycle ==
    ASSUME "read" \notin Faults
    PROVE  Spec => ImplementsLifecycle
  <1>1. Init => Lifecycle!Init
    BY LifecycleInit
  <1>2. IInv /\ [Next]_vars => [Lifecycle!Next]_(Lifecycle!vars)
    BY LifecycleStep
  <1> QED
    BY <1>1, <1>2, InductiveInvariant, PTL
       DEF Spec, ImplementsLifecycle, Lifecycle!Spec

-----------------------------------------------------------------------------
(* Why a worker refuses to start, where no pid comes back in another       *)
(* process while a row of the lock still names it.                         *)

(* Living processes have pids of their own, and the pid of the row is that *)
(* of a worker that holds the lock or of nobody who is alive.              *)
RefusalInv ==
    /\ foreign = {}
    /\ \A v, w \in Workers : pc[v] # "off" /\ pc[w] # "off" /\ pid[v] = pid[w] => v = w
    /\ \A r \in lock, w \in Workers : pc[w] # "off" /\ pid[w] = r.pid => pc[w] \in Holding

(* Nothing changes whether pids come back.                                 *)
LEMMA ReuseStep == ASSUME [Next]_vars PROVE reuse' = reuse
  <1>1. ASSUME NEW w \in Workers, WorkerStep(w) PROVE reuse' = reuse
    BY <1>1 DEF WorkerStep, Acquire, Refuse, Boot, Claim, ClaimThrows, Execute, Analyse,
                PrepareReport, Finish, Log, Throw, Catch, CatchThrows, Leave, Exit,
                Heartbeat, envVars
  <1>2. ASSUME NEW w \in Workers, Stop(w) \/ Crash(w) \/ \E p \in Pids : Start(w, p)
        PROVE  reuse' = reuse
    BY <1>2 DEF Stop, Crash, Start, envVars
  <1>3. ASSUME \/ \E p \in Projects : Enqueue(p)
               \/ \E a \in AuditIds : Publish(a) \/ Cancel(a)
               \/ \E p \in Pids : ForeignStart(p) \/ ForeignExit(p)
        PROVE  reuse' = reuse
    BY <1>3 DEF Enqueue, Publish, Cancel, ForeignStart, ForeignExit, envVars
  <1> QED
    BY <1>1, <1>2, <1>3 DEF Next, vars, envVars

LEMMA RefusalStep ==
    ASSUME ~reuse, TypeInv, RefusalInv, [Next]_vars
    PROVE  RefusalInv'
  <1> USE DEF TypeInv, TypeOK, WorkerTypeOK, Goto
  <1>1. ASSUME NEW w \in Workers, NEW p \in Pids, Start(w, p) PROVE RefusalInv'
    <2>1. p \notin LivePids /\ \A r \in lock : r.pid # p
      BY <1>1 DEF Start, FreePid
    <2>2. \A v \in Workers \ {w} : pc'[v] = pc[v] /\ pid'[v] = pid[v]
      BY <1>1 DEF Start
    <2>3. pid'[w] = p /\ lock' = lock /\ foreign' = foreign
      BY <1>1 DEF Start, storeVars, envVars
    <2>4. \A v \in Workers : pc[v] # "off" => pid[v] # p
      BY <2>1 DEF LivePids
    <2> QED
      BY <2>1, <2>2, <2>3, <2>4 DEF RefusalInv
  <1>2. ASSUME NEW w \in Workers, Acquire(w) PROVE RefusalInv'
    <2>1. /\ lock' = {[token |-> w, pid |-> pid[w]]} /\ pid' = pid /\ foreign' = foreign
          /\ pc[w] # "off" /\ pc'[w] = "booting"
          /\ \A v \in Workers \ {w} : pc'[v] = pc[v]
      BY <1>2 DEF Acquire, AcquireWorker, envVars
    <2>2. \A v \in Workers : pc'[v] # "off" => pc[v] # "off"
      BY <2>1
    <2>3. \A v \in Workers : pc'[v] # "off" /\ pid[v] = pid[w] => pc'[v] \in Holding
      BY <2>1, <2>2 DEF RefusalInv, Holding
    <2> QED
      BY <2>1, <2>2, <2>3 DEF RefusalInv
  <1>3. ASSUME NEW w \in Workers,
               \/ Refuse(w) \/ Boot(w) \/ Claim(w) \/ Execute(w)
               \/ Analyse(w) \/ PrepareReport(w) \/ Finish(w) \/ Log(w)
               \/ Throw(w) \/ Catch(w) \/ CatchThrows(w) \/ Leave(w)
               \/ ClaimThrows(w)
        PROVE  RefusalInv'
    <2>1. lock' = lock /\ pid' = pid /\ foreign' = foreign
      BY <1>3 DEF Refuse, Boot, Claim, ClaimThrows, ClaimRow, Execute, Analyse,
                  PrepareReport, SaveProgress, Finish, Transition, Log, Throw,
                  Catch, CatchThrows, Leave, storeVars, envVars
    <2>2. pc[w] # "off" /\ \A v \in Workers \ {w} : pc'[v] = pc[v]
      BY <1>3 DEF Refuse, Boot, Claim, ClaimThrows, Execute, Analyse,
                  PrepareReport, Finish, Log, Throw, Catch, CatchThrows, Leave, Executing
    <2>3. pc[w] \in Holding => pc'[w] \in Holding
      BY <1>3 DEF Refuse, Boot, Claim, ClaimThrows, Execute, Analyse,
                  PrepareReport, Finish, Log, Throw, Catch, CatchThrows, Leave, Holding,
                  Executing
    <2> QED
      BY <2>1, <2>2, <2>3 DEF RefusalInv
  <1>4. ASSUME NEW w \in Workers, Exit(w) \/ Crash(w) PROVE RefusalInv'
    <2>1. /\ \A v \in Workers \ {w} : pc'[v] = pc[v] /\ pid'[v] = pid[v]
          /\ pc'[w] = "off" /\ foreign' = foreign
          /\ lock' \subseteq lock
      BY <1>4 DEF Exit, Crash, Vanish, ReleaseWorker, storeVars, envVars
    <2> QED
      BY <2>1 DEF RefusalInv
  <1>5. ASSUME NEW p \in Pids, ForeignStart(p) \/ ForeignExit(p) PROVE RefusalInv'
    BY <1>5 DEF ForeignStart, ForeignExit, RefusalInv, storeVars, workerVars
  <1>6. CASE UNCHANGED <<lock, pc, pid, foreign>>
    BY <1>6 DEF RefusalInv
  <1> QED
    BY <1>1, <1>2, <1>3, <1>4, <1>5, <1>6
       DEF Next, WorkerStep, Stop, Heartbeat, Enqueue, EnqueueAs, Publish, PublishRow,
           Cancel, CancelRow, vars, storeVars, workerVars, envVars

LEMMA OnlyRefused ==
    ASSUME TypeInv, [Next]_vars, NEW w \in Workers, pc[w] = "starting", pc'[w] = "refused"
    PROVE  Refuse(w)
  <1> USE DEF TypeInv, TypeOK, WorkerTypeOK, Goto
  <1>1. pc' # pc
    OBVIOUS
  <1>2. ASSUME NEW v \in Workers, v # w,
               \/ WorkerStep(v) \/ Stop(v) \/ Crash(v) \/ \E p \in Pids : Start(v, p)
        PROVE  FALSE
    <2>1. pc'[w] = pc[w]
      BY <1>2 DEF WorkerStep, Start, Acquire, Refuse, Boot, Claim, ClaimThrows, Execute,
                  Analyse, PrepareReport, Finish, Log, Throw, Catch, CatchThrows, Leave,
                  Exit, Vanish, Stop, Heartbeat, Crash
    <2> QED
      BY <2>1
  <1>3. ASSUME \/ Acquire(w) \/ Boot(w) \/ Claim(w) \/ ClaimThrows(w) \/ Execute(w)
               \/ Analyse(w) \/ PrepareReport(w) \/ Finish(w) \/ Log(w) \/ Throw(w)
               \/ Catch(w) \/ CatchThrows(w) \/ Leave(w) \/ Exit(w) \/ Heartbeat(w)
               \/ Stop(w) \/ Crash(w) \/ \E p \in Pids : Start(w, p)
        PROVE  FALSE
    BY <1>3 DEF Start, Acquire, Boot, Claim, ClaimThrows, Execute, Analyse, PrepareReport,
                Finish, Log, Throw, Catch, CatchThrows, Leave, Exit, Vanish, Stop,
                Heartbeat, Crash, Executing
  <1>4. ASSUME \/ \E p \in Projects : Enqueue(p)
               \/ \E a \in AuditIds : Publish(a) \/ Cancel(a)
               \/ \E p \in Pids : ForeignStart(p) \/ ForeignExit(p)
               \/ UNCHANGED vars
        PROVE  FALSE
    BY <1>1, <1>4 DEF Enqueue, Publish, Cancel, ForeignStart, ForeignExit, vars, workerVars
  <1> QED
    BY <1>2, <1>3, <1>4 DEF Next, WorkerStep

(* A worker that is started while none is running acquires the lock, even  *)
(* if the row of one that was killed is left, as long as no other process  *)
(* has got the pid of that row (acquireWorker, processAlive).              *)
THEOREM RefusalsAreEarned == Spec => StaleLocksAreTaken
  <1> DEFINE Settled == ~reuse => RefusalInv
             Earned == ~reuse => \A w \in Workers :
                           pc[w] = "starting" /\ pc'[w] = "refused" =>
                               \E v \in Workers \ {w} : pc[v] \in Holding
  <1>1. Init => TypeInv /\ Settled
    BY TypeInit DEF Init, RefusalInv
  <1>2. TypeInv /\ Settled /\ [Next]_vars => TypeInv' /\ Settled'
    BY StoreStep, WorkerStepTypes, RefusalStep, ReuseStep DEF TypeInv, TypeOK
  <1>3. TypeInv /\ Settled /\ [Next]_vars => Earned
    <2> SUFFICES ASSUME TypeInv, RefusalInv, [Next]_vars,
                        NEW w \in Workers, pc[w] = "starting", pc'[w] = "refused"
                 PROVE  \E v \in Workers \ {w} : pc[v] \in Holding
      OBVIOUS
    <2>1. Refuse(w)
      BY OnlyRefused
    <2>2. PICK r \in lock : r.pid \in LivePids
      BY <2>1 DEF Refuse, LockFree
    <2>3. PICK v \in Workers : pc[v] # "off" /\ pid[v] = r.pid
      BY <2>2 DEF LivePids, RefusalInv
    <2>4. pc[v] \in Holding
      BY <2>2, <2>3 DEF RefusalInv
    <2> QED
      BY <2>4 DEF Holding, Executing
  <1> QED
    BY <1>1, <1>2, <1>3, PTL DEF Spec, StaleLocksAreTaken
=============================================================================
