------------------------------- MODULE NewAudit -------------------------------
(***************************************************************************)
(* The dialog that queues an audit (src/components/new-audit.tsx) and the  *)
(* route handlers that it calls: the estimate of a project's scope         *)
(* (src/app/api/projects/[id]/estimate/route.ts) and the queueing of its   *)
(* audit (src/app/api/audits/route.ts), which estimates again.             *)
(*                                                                         *)
(* A project that is expected to be cut needs a person's approval.  It     *)
(* changes at any time, and estimates take their time, so that they arrive *)
(* when another project was selected.                                      *)
(***************************************************************************)
EXTENDS Naturals

CONSTANTS
    Projects,     \* the projects
    MaxEstimates,   \* bound on the estimates that are asked for
    Nothing

ASSUME EstimatesAssumption == MaxEstimates \in Nat
ASSUME NothingAssumption ==
    Nothing \notin [of : Projects, cut : BOOLEAN]
        \cup [project : Projects, approved : [of : Projects, cut : BOOLEAN] \cup {Nothing}]

VARIABLES
    cut,            \* the projects that exceed a budget
    selected,       \* in the dialog
    estimate,       \* the one shown, or Nothing
    estimating,     \* is one awaited?
    approved,       \* approveTruncation: the estimate below which the box was
                    \* ticked, or Nothing
    latest,         \* estimateRequest: how many were asked for
    asked,          \* the estimates that were asked for and did not arrive
    posting,        \* the audit that is being queued, or Nothing
    queued          \* the audits that were queued

dialogVars == <<cut, selected, estimate, estimating, approved, latest, asked, posting, queued>>

Estimates == [of : Projects, cut : BOOLEAN]

DialogInit ==
    /\ cut \in SUBSET Projects
    /\ selected \in Projects
    /\ estimate = Nothing /\ estimating = FALSE /\ approved = Nothing
    /\ latest = 0 /\ asked = {}
    /\ posting = Nothing /\ queued = {}

(* The source of a project changes.                                        *)
ProjectChanges ==
    /\ \E p \in Projects : cut' = IF p \in cut THEN cut \ {p} ELSE cut \cup {p}
    /\ UNCHANGED <<selected, estimate, estimating, approved, latest, asked, posting, queued>>

-----------------------------------------------------------------------------
(* loadEstimate, when the dialog is opened or a project selected.          *)
LoadEstimate(p) ==
    /\ latest < MaxEstimates
    /\ selected' = p
    /\ latest' = latest + 1
    /\ estimating' = TRUE /\ estimate' = Nothing /\ approved' = Nothing
    /\ asked' = asked \cup {[number |-> latest', of |-> p]}
    /\ UNCHANGED <<cut, posting, queued>>

(* Mutant: whatever arrives is shown.                                      *)
EstimateArrivesLate(r) ==
    /\ r \in asked
    /\ asked' = asked \ {r}
    /\ estimate' = [of |-> r.of, cut |-> r.of \in cut]
    /\ estimating' = FALSE
    /\ UNCHANGED <<cut, selected, approved, latest, posting, queued>>

(* The estimate is made and arrives; only that of the latest request is    *)
(* shown.                                                                  *)
EstimateArrives(r) ==
    /\ r \in asked
    /\ asked' = asked \ {r}
    /\ IF r.number = latest
       THEN estimate' = [of |-> r.of, cut |-> r.of \in cut] /\ estimating' = FALSE
       ELSE UNCHANGED <<estimate, estimating>>
    /\ UNCHANGED <<cut, selected, approved, latest, posting, queued>>

EstimateFails(r) ==
    /\ r \in asked
    /\ asked' = asked \ {r}
    /\ estimating' = (estimating /\ r.number # latest)
    /\ UNCHANGED <<cut, selected, estimate, approved, latest, posting, queued>>

Approve ==
    /\ estimate # Nothing /\ estimate.cut
    /\ approved' = IF approved = Nothing THEN estimate ELSE Nothing
    /\ UNCHANGED <<cut, selected, estimate, estimating, latest, asked, posting, queued>>

(* start, whose button is enabled under these conditions.                  *)
StartAudit ==
    /\ posting = Nothing /\ ~estimating
    /\ estimate # Nothing
    /\ estimate.cut => approved # Nothing
    /\ posting' = [project |-> selected, approved |-> approved]
    /\ UNCHANGED <<cut, selected, estimate, estimating, approved, latest, asked, queued>>

(* POST /api/audits: refused when the audit would be cut unapproved, or    *)
(* for another reason.                                                     *)
QueueAudit ==
    /\ posting # Nothing
    /\ \/ /\ posting.project \in cut => posting.approved # Nothing
          /\ queued' = queued \cup {[request |-> posting, cut |-> posting.project \in cut]}
       \/ UNCHANGED queued
    /\ posting' = Nothing
    /\ UNCHANGED <<cut, selected, estimate, estimating, approved, latest, asked>>

DialogNext ==
    \/ ProjectChanges \/ Approve \/ StartAudit \/ QueueAudit
    \/ \E p \in Projects : LoadEstimate(p)
    \/ \E r \in asked : EstimateArrives(r) \/ EstimateFails(r)

DialogSpec == DialogInit /\ [][DialogNext]_dialogVars

-----------------------------------------------------------------------------
Requests == [project : Projects, approved : Estimates \cup {Nothing}]

DialogTypeOK ==
    /\ cut \in SUBSET Projects /\ selected \in Projects
    /\ estimate \in Estimates \cup {Nothing} /\ approved \in Estimates \cup {Nothing}
    /\ estimating \in BOOLEAN
    /\ latest \in 0..MaxEstimates
    /\ asked \subseteq [number : 1..MaxEstimates, of : Projects]
    /\ posting \in Requests \cup {Nothing}
    /\ queued \subseteq [request : Requests, cut : BOOLEAN]

(* However estimates overtake each other and projects change in between:   *)
(* an audit that was expected to be cut when it was queued was approved by *)
(* a person who was shown an estimate of that very project that said so.   *)
ApprovalIsInformed ==
    \A q \in queued : q.cut =>
        q.request.approved = [of |-> q.request.project, cut |-> TRUE]
=============================================================================
