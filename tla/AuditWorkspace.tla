---------------------------- MODULE AuditWorkspace ----------------------------
(***************************************************************************)
(* The page of one audit, in a browser (src/components/audit-workspace.tsx *)
(* and finding-details.tsx), and the route handler that it calls           *)
(* (src/app/api/audits/[id]/route.ts).  While the page shows an audit that *)
(* is queued or running it polls every two seconds; whatever a person does *)
(* is posted and, once it was done, followed by a refresh.  Requests are   *)
(* not numbered: answers arrive in any order, or not at all, and the last  *)
(* one to arrive is shown.                                                 *)
(*                                                                         *)
(* The audit in the store moves as AuditLifecycle promises, by the worker, *)
(* by this page and by others (another page, the command line).            *)
(***************************************************************************)
EXTENDS Naturals

CONSTANTS
    Polls,          \* bound on the polls in flight
    Forms,          \* bound on the posts in flight: buttons of their own
    MaxRevisions    \* bound on the revisions of the report

VARIABLES
    actual,         \* the audit in the store
    shown,          \* the audit that the page shows
    calls,          \* what each poll and each form is waiting for
    notice          \* the message above the page

pageVars == <<actual, shown, calls, notice>>

AuditStatuses == {"queued", "running", "awaiting_review", "completed", "failed", "cancelled"}
Stored == [status : AuditStatuses, revision : 0..MaxRevisions]
Callers == Polls \cup Forms
Kinds == {"publish", "cancel", "set-baseline", "review", "remove-suppression"}

Idle == [phase |-> "idle"]
Asked == [phase |-> "asked"]
Posted(kind) == [phase |-> "posted", kind |-> kind]
Answered(audit) == [phase |-> "answered", audit |-> audit]

Now(c, call) == calls' = [calls EXCEPT ![c] = call]

PageInit ==
    /\ actual \in {a \in Stored : a.revision <= 1}
    /\ actual.status \in {"awaiting_review", "completed"} => actual.revision = 1
    /\ shown = actual
    /\ calls = [c \in Callers |-> Idle]
    /\ notice = ""

-----------------------------------------------------------------------------
(* The store.                                                              *)
Moves ==
    {<<"queued", "running">>, <<"running", "queued">>, <<"running", "failed">>,
     <<"awaiting_review", "queued">>}
        \cup ({"queued", "running", "awaiting_review"} \X {"cancelled"})
        \cup (IF actual.revision > 0 THEN {<<"running", "completed">>} ELSE {})

StatusMoves ==
    /\ \E move \in Moves :
         actual.status = move[1] /\ actual' = [actual EXCEPT !.status = move[2]]
    /\ UNCHANGED <<shown, calls, notice>>

Revised == [actual EXCEPT !.revision = @ + 1]

(* The worker saves, or others review, except or assess.                   *)
OthersRevise ==
    /\ actual.status \in {"running", "awaiting_review", "completed"}
    /\ actual.revision < MaxRevisions
    /\ actual' = Revised
    /\ UNCHANGED <<shown, calls, notice>>

-----------------------------------------------------------------------------
(* The page.                                                               *)
IsActive == shown.status \in {"queued", "running"}

(* Mutant: updates pause when the page says so.                            *)
PollUnlessPaused(c) ==
    /\ IsActive /\ notice # "paused"
    /\ calls[c] = Idle
    /\ Now(c, Asked)
    /\ UNCHANGED <<actual, shown, notice>>

Poll(c) ==
    /\ IsActive
    /\ calls[c] = Idle
    /\ Now(c, Asked)
    /\ UNCHANGED <<actual, shown, notice>>

(* The buttons that the page offers for what it shows.                     *)
Offered ==
    CASE shown.status \in {"queued", "running"} -> {"cancel"}
      [] shown.status = "awaiting_review" ->
            {"publish", "cancel", "review", "remove-suppression"}
      [] shown.status = "completed" -> {"set-baseline", "review", "remove-suppression"}
      [] OTHER -> {}

Press(f, kind) ==
    /\ kind \in Offered
    /\ calls[f] = Idle
    /\ Now(f, Posted(kind))
    /\ notice' = ""
    /\ UNCHANGED <<actual, shown>>

(* The transaction that a post asks for, where it is allowed.              *)
Outcome(kind) ==
    CASE kind = "publish" /\ actual.status = "awaiting_review" ->
            {[actual EXCEPT !.status = "queued"]}
      [] kind = "cancel" /\ actual.status \in {"queued", "running", "awaiting_review"} ->
            {[actual EXCEPT !.status = "cancelled"]}
      [] kind = "set-baseline" /\ actual.status = "completed" /\ actual.revision > 0 -> {actual}
      [] kind = "review" /\ actual.status \in {"awaiting_review", "completed"}
            /\ actual.revision > 0 -> {Revised}
      [] kind = "remove-suppression" /\ actual.revision > 0 -> {Revised}
      [] OTHER -> {}

(* POST: done and confirmed, so that the page asks for the audit; refused; *)
(* or done, or not even received, while the page is told of a failure.     *)
Post(f) ==
    /\ calls[f].phase = "posted"
    /\ \E next \in Outcome(calls[f].kind) \cup {actual} :
         /\ next.revision <= MaxRevisions
         /\ actual' = next
         /\ \/ next \in Outcome(calls[f].kind) /\ Now(f, Asked) /\ UNCHANGED notice
            \/ Now(f, Idle) /\ notice' = "failed"
    /\ UNCHANGED shown

(* GET: the answer is the audit as it is now.                              *)
Read(c) ==
    /\ calls[c].phase = "asked"
    /\ Now(c, Answered(actual))
    /\ UNCHANGED <<actual, shown, notice>>

(* refresh: the answer arrives.                                            *)
Show(c) ==
    /\ calls[c].phase = "answered"
    /\ shown' = calls[c].audit
    /\ Now(c, Idle)
    /\ UNCHANGED <<actual, notice>>

(* refresh throws: request or answer were lost, or the answer is an error. *)
Lose(c) ==
    /\ calls[c].phase = "answered"
    /\ Now(c, Idle)
    /\ notice' = IF c \in Polls THEN "paused" ELSE "failed"
    /\ UNCHANGED <<actual, shown>>

PageNext ==
    \/ StatusMoves \/ OthersRevise
    \/ \E c \in Polls : Poll(c)
    \/ \E f \in Forms : Post(f) \/ \E kind \in Kinds : Press(f, kind)
    \/ \E c \in Callers : Read(c) \/ Show(c) \/ Lose(c)

PageSpec == PageInit /\ [][PageNext]_pageVars

(* The timer fires, requests to this machine are answered or fail, and a   *)
(* page that asks again and again is not refused for ever.                 *)
PageFairness ==
    /\ \A c \in Polls : WF_pageVars(Poll(c))
    /\ \A c \in Callers : WF_pageVars(Read(c))
    /\ SF_pageVars(\E c \in Callers : Show(c))

FairPage == PageSpec /\ PageFairness

-----------------------------------------------------------------------------
PageTypeOK ==
    /\ actual \in Stored /\ shown \in Stored
    /\ calls \in [Callers -> {Idle, Asked} \cup {Posted(k) : k \in Kinds}
                                \cup {Answered(a) : a \in Stored}]
    /\ notice \in {"", "paused", "failed"}

(* Although answers overtake each other and are lost, and an old one may   *)
(* bring back a status that the page had left: once an audit has ended, a  *)
(* page that still calls it queued or running does so for a while only.    *)
PageKeepsUp == <>[](IsActive => actual.status \in {"queued", "running"})
=============================================================================
