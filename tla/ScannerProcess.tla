--------------------------- MODULE ScannerProcess ---------------------------
(***************************************************************************)
(* One call of runScannerProcess (src/security/process.ts): a promise that *)
(* the exit of a subprocess, a failure to spawn it, the abort signal, a    *)
(* timer and the limit on its output compete to settle.  The subprocess    *)
(* leads a process group of its own; a helper that outlives it keeps the   *)
(* pipes open, so that "close" comes only when the whole group is gone.    *)
(*                                                                         *)
(* Each operator is one callback of the event loop, or something the       *)
(* subprocess does; ScannerRun makes actions of them.                      *)
(***************************************************************************)
EXTENDS Naturals

VARIABLES
    child,      \* the process group
    code,       \* the exit code of its leader
    promise,    \* the promise the call returned
    timer,      \* is the 45 second timer armed?
    aborted     \* has the audit's abort signal fired?

processVars == <<child, code, promise, timer>>

Alive == {"running", "lingering"}
Codes == {"0", "1", "2", "null"}
Settled == {"resolved", "rejected"}

ProcessTypeOK ==
    /\ child \in Alive \cup {"none", "unstarted", "exited", "killed"}
    /\ code \in Codes
    /\ promise \in Settled \cup {"none", "pending"}
    /\ timer \in BOOLEAN
    /\ aborted \in BOOLEAN

ProcessInit ==
    /\ child = "none"
    /\ code = "null"
    /\ promise = "none"
    /\ timer = FALSE

Killed(c) == IF c \in Alive THEN "killed" ELSE c

(* Mutant: the timer is not armed. *)
CallUnbounded ==
    /\ code' = "null"
    /\ child' \in {"running", "unstarted"}
    /\ promise' = "pending"
    /\ timer' = FALSE

(* spawn, which may fail later with "error", and an abort that has         *)
(* happened before.                                                        *)
Call ==
    /\ code' = "null"
    /\ \E c \in {"running", "unstarted"} :
         /\ child' = IF aborted THEN Killed(c) ELSE c
         /\ promise' = IF aborted THEN "rejected" ELSE "pending"
         /\ timer' = ~aborted

(* Mutant: the process group is left alone. *)
FailAlone ==
    /\ promise = "pending"
    /\ promise' = "rejected"
    /\ timer' = FALSE
    /\ UNCHANGED <<child, code>>

(* fail, of the first event that asks for it.                              *)
Fail ==
    /\ promise = "pending"
    /\ promise' = "rejected"
    /\ child' = Killed(child)
    /\ timer' = FALSE
    /\ UNCHANGED code

(* The events that fail the call; the abort signal is Abort in ScannerRun. *)
SpawnError == child = "unstarted" /\ Fail
OutputLimit == child \in Alive \cup {"exited"} /\ Fail
Timeout == timer /\ Fail

(* The leader exits, with or without a code, and may leave helpers behind. *)
ChildExits ==
    /\ child = "running"
    /\ child' \in {"exited", "lingering"}
    /\ code' \in Codes
    /\ UNCHANGED <<promise, timer>>

HelpersExit ==
    /\ child = "lingering"
    /\ child' = "exited"
    /\ UNCHANGED <<code, promise, timer>>

Close ==
    /\ child = "exited"
    /\ promise = "pending"
    /\ promise' = IF code = "null" THEN "rejected" ELSE "resolved"
    /\ timer' = FALSE
    /\ UNCHANGED <<child, code>>

(* The caller has seen the promise settle, or is killed: nobody looks at   *)
(* the promise and the subprocess any more.                                *)
Forget ==
    /\ child' = "none"
    /\ code' = "null"
    /\ promise' = "none"
    /\ timer' = FALSE

(* Once the promise is settled, whatever settled it, no process of the     *)
(* group runs any more and no timer is left that would keep the event loop *)
(* of the program alive; and it resolves only with the code of a leader    *)
(* that exited by itself.                                                  *)
SettledIsQuiet ==
    /\ promise \in Settled => child \notin Alive /\ ~timer
    /\ promise = "resolved" => child = "exited" /\ code # "null"
=============================================================================
