---------------------------- MODULE BoundaryProofs ----------------------------
(***************************************************************************)
(* Theorems about what crosses the boundary of an audit, for every value   *)
(* of the constants.  In the dialog of NewAudit what is approved is what   *)
(* is queued; every connection of HttpProbe is approved; the directory of  *)
(* ReportPackage holds what its manifest vouches for; and a completed      *)
(* lookup of AdvisoryScan tells of every package.                          *)
(***************************************************************************)
EXTENDS NewAudit, HttpProbe, ReportPackage, AdvisoryScan, FiniteSetTheorems, TLAPS

(***************************************************************************)
(* The dialog: what is approved in it is what is queued.                   *)
(***************************************************************************)

(* Of the estimates that were asked for, at most the one of the latest     *)
(* request is of the project that is selected, and none is shown then.     *)
LatestIsAwaited ==
    \A r \in asked :
        /\ r.number <= latest
        /\ r.number = latest => r.of = selected /\ estimate = Nothing

ShownIsSelected == estimate # Nothing => estimate.of = selected

(* The box is ticked below the estimate that is shown, which says cut.     *)
ApprovedIsShown == approved # Nothing => approved = estimate /\ estimate.cut = TRUE

Informed(request) ==
    request.approved # Nothing => request.approved = [of |-> request.project, cut |-> TRUE]

DialogInv ==
    /\ DialogTypeOK
    /\ LatestIsAwaited /\ ShownIsSelected /\ ApprovedIsShown
    /\ posting # Nothing => Informed(posting)
    /\ ApprovalIsInformed

USE EstimatesAssumption, NothingAssumption

LEMMA DialogInitially == ASSUME DialogInit PROVE DialogInv
  <1>1. DialogTypeOK
    <2>1. latest \in 0..MaxEstimates
      BY DEF DialogInit
    <2>2. asked \subseteq [number : 1..MaxEstimates, of : Projects]
      BY DEF DialogInit
    <2>3. queued \subseteq [request : Requests, cut : BOOLEAN]
      BY DEF DialogInit
    <2> QED
      BY <2>1, <2>2, <2>3, Zenon DEF DialogInit, DialogTypeOK
  <1>2. LatestIsAwaited /\ ApprovalIsInformed
    BY DEF DialogInit, LatestIsAwaited, ApprovalIsInformed
  <1>3. ShownIsSelected /\ ApprovedIsShown /\ (posting # Nothing => Informed(posting))
    BY DEF DialogInit, ShownIsSelected, ApprovedIsShown
  <1> QED
    BY <1>1, <1>2, <1>3 DEF DialogInv

(* A new request numbers itself past all that are under way.               *)
LEMMA LoadEstimateKeeps ==
    ASSUME DialogInv, NEW p \in Projects, LoadEstimate(p)
    PROVE  DialogInv'
  <1>1. DialogTypeOK'
    BY DEF LoadEstimate, DialogInv, DialogTypeOK
  <1>2. LatestIsAwaited'
    <2> SUFFICES ASSUME NEW r \in asked'
                 PROVE  /\ r.number <= latest'
                        /\ r.number = latest' => r.of = selected' /\ estimate' = Nothing
      BY DEF LatestIsAwaited
    <2>1. CASE r \in asked
      BY <2>1 DEF LoadEstimate, DialogInv, DialogTypeOK, LatestIsAwaited
    <2>2. CASE r \notin asked
      BY <2>2 DEF LoadEstimate, DialogInv, DialogTypeOK
    <2> QED
      BY <2>1, <2>2
  <1> QED
    BY <1>1, <1>2
       DEF LoadEstimate, DialogInv, ShownIsSelected, ApprovedIsShown, Informed,
           ApprovalIsInformed

(* Only one request has the latest number.                                 *)
LEMMA LatestIsOne ==
    ASSUME DialogInv, NEW r \in asked, NEW s \in asked,
           r.number = latest, s.number = latest
    PROVE  r = s
  <1>1. r \in [number : 1..MaxEstimates, of : Projects]
        /\ s \in [number : 1..MaxEstimates, of : Projects]
    BY DEF DialogInv, DialogTypeOK
  <1>2. r.of = s.of
    BY DEF DialogInv, LatestIsAwaited
  <1> QED
    BY <1>1, <1>2

LEMMA EstimateArrivesKeeps ==
    ASSUME DialogInv, NEW r \in asked, EstimateArrives(r)
    PROVE  DialogInv'
  <1>1. r \in [number : 1..MaxEstimates, of : Projects]
    BY DEF DialogInv, DialogTypeOK
  <1>2. CASE r.number = latest
    <2>1. estimate' = [of |-> r.of, cut |-> r.of \in cut] /\ r.of = selected
          /\ estimate = Nothing
      BY <1>2 DEF EstimateArrives, DialogInv, LatestIsAwaited
    <2>2. \A s \in asked' : s.number # latest
      BY <1>2, LatestIsOne DEF EstimateArrives
    <2>3. estimate' \in Estimates
      BY <1>1, <2>1 DEF Estimates
    <2>4. DialogTypeOK'
      BY <1>2, <2>3 DEF EstimateArrives, DialogInv, DialogTypeOK
    <2>5. approved = Nothing
      BY <2>1, <2>3 DEF DialogInv, DialogTypeOK, ApprovedIsShown, Estimates
    <2> QED
      BY <2>1, <2>2, <2>4, <2>5
         DEF EstimateArrives, DialogInv, LatestIsAwaited, ShownIsSelected,
             ApprovedIsShown, Informed, ApprovalIsInformed
  <1>3. CASE r.number # latest
    BY <1>3
       DEF EstimateArrives, DialogInv, DialogTypeOK, LatestIsAwaited, ShownIsSelected,
           ApprovedIsShown, Informed, ApprovalIsInformed
  <1> QED
    BY <1>2, <1>3

LEMMA ApproveKeeps == ASSUME DialogInv, Approve PROVE DialogInv'
  <1>1. DialogTypeOK'
    BY DEF Approve, DialogInv, DialogTypeOK, Estimates
  <1>2. ApprovedIsShown'
    BY DEF Approve, DialogInv, DialogTypeOK, ApprovedIsShown, Estimates
  <1> QED
    BY <1>1, <1>2
       DEF Approve, DialogInv, LatestIsAwaited, ShownIsSelected, Informed,
           ApprovalIsInformed

(* The request takes over the approval of the estimate that is shown.      *)
LEMMA StartAuditKeeps == ASSUME DialogInv, StartAudit PROVE DialogInv'
  <1>1. posting' \in Requests /\ posting'.project = selected /\ posting'.approved = approved
    BY DEF StartAudit, DialogInv, DialogTypeOK, Requests
  <1>2. Informed(posting)'
    <2> SUFFICES ASSUME approved # Nothing
                 PROVE  approved = [of |-> selected, cut |-> TRUE]
      BY <1>1 DEF Informed
    <2>1. approved \in Estimates /\ approved.cut = TRUE /\ approved.of = selected
      BY DEF DialogInv, DialogTypeOK, ApprovedIsShown, ShownIsSelected
    <2> QED
      BY <2>1 DEF Estimates
  <1> QED
    BY <1>1, <1>2
       DEF StartAudit, DialogInv, DialogTypeOK, LatestIsAwaited, ShownIsSelected,
           ApprovedIsShown, ApprovalIsInformed

LEMMA QueueAuditKeeps == ASSUME DialogInv, QueueAudit PROVE DialogInv'
  <1>1. CASE UNCHANGED queued
    BY <1>1
       DEF QueueAudit, DialogInv, DialogTypeOK, LatestIsAwaited, ShownIsSelected,
           ApprovedIsShown, ApprovalIsInformed
  <1>2. CASE /\ posting.project \in cut => posting.approved # Nothing
             /\ queued' = queued \cup {[request |-> posting, cut |-> posting.project \in cut]}
    <2>1. posting \in Requests /\ Informed(posting)
      BY DEF QueueAudit, DialogInv, DialogTypeOK
    <2> DEFINE new == [request |-> posting, cut |-> posting.project \in cut]
    <2>2. ApprovalIsInformed'
      <3> SUFFICES ASSUME NEW q \in queued', q.cut
                   PROVE  q.request.approved = [of |-> q.request.project, cut |-> TRUE]
        BY DEF ApprovalIsInformed
      <3>1. CASE q \in queued
        BY <3>1 DEF DialogInv, ApprovalIsInformed
      <3>2. CASE q = new
        <4>1. q.request = posting /\ posting.project \in cut
          BY <3>2
        <4> QED
          BY <1>2, <2>1, <4>1 DEF Informed
      <3> QED
        BY <1>2, <3>1, <3>2
    <2>3. DialogTypeOK'
      <3>1. new \in [request : Requests, cut : BOOLEAN]
        BY <2>1
      <3>2. queued' \subseteq [request : Requests, cut : BOOLEAN]
        BY <1>2, <3>1 DEF DialogInv, DialogTypeOK
      <3> HIDE DEF new
      <3> QED
        BY <3>2 DEF QueueAudit, DialogInv, DialogTypeOK
    <2> QED
      BY <2>2, <2>3
         DEF QueueAudit, DialogInv, LatestIsAwaited, ShownIsSelected, ApprovedIsShown
  <1> QED
    BY <1>1, <1>2 DEF QueueAudit

LEMMA DialogInvIsInductive == DialogInv /\ [DialogNext]_dialogVars => DialogInv'
  <1> SUFFICES ASSUME DialogInv, [DialogNext]_dialogVars PROVE DialogInv'
    OBVIOUS
  <1>1. CASE ProjectChanges
    BY <1>1
       DEF ProjectChanges, DialogInv, DialogTypeOK, LatestIsAwaited, ShownIsSelected,
           ApprovedIsShown, Informed, ApprovalIsInformed
  <1>2. CASE Approve
    BY <1>2, ApproveKeeps
  <1>3. CASE StartAudit
    BY <1>3, StartAuditKeeps
  <1>4. CASE QueueAudit
    BY <1>4, QueueAuditKeeps
  <1>5. ASSUME NEW p \in Projects, LoadEstimate(p) PROVE DialogInv'
    BY <1>5, LoadEstimateKeeps
  <1>6. ASSUME NEW r \in asked, EstimateArrives(r) PROVE DialogInv'
    BY <1>6, EstimateArrivesKeeps
  <1>7. ASSUME NEW r \in asked, EstimateFails(r) PROVE DialogInv'
    BY <1>7
       DEF EstimateFails, DialogInv, DialogTypeOK, LatestIsAwaited, ShownIsSelected,
           ApprovedIsShown, Informed, ApprovalIsInformed
  <1>8. CASE UNCHANGED dialogVars
    BY <1>8
       DEF dialogVars, DialogInv, DialogTypeOK, LatestIsAwaited, ShownIsSelected,
           ApprovedIsShown, Informed, ApprovalIsInformed
  <1> QED
    BY <1>1, <1>2, <1>3, <1>4, <1>5, <1>6, <1>7, <1>8 DEF DialogNext

-----------------------------------------------------------------------------
(* Whatever projects do and in whatever order estimates arrive, an audit   *)
(* that was expected to be cut when it was queued was approved below an    *)
(* estimate of its own project that said so.                               *)
THEOREM ApprovalsAreInformed == DialogSpec => []ApprovalIsInformed
  <1>1. DialogInv => ApprovalIsInformed
    BY DEF DialogInv
  <1> QED
    BY <1>1, DialogInitially, DialogInvIsInductive, PTL DEF DialogSpec

-----------------------------------------------------------------------------
(***************************************************************************)
(* The probe, for every limit: counted requests, permitted targets.        *)
(***************************************************************************)

Stages == {"next", "resolve", "request", "done", "thrown"}
Probing == {"resolve", "request"}

ProbeTypeOK ==
    /\ allowlist \in Seq(BOOLEAN) /\ turn \in Nat
    /\ probeStage \in Stages
    /\ target \in Targets /\ method \in {"HEAD", "GET"} /\ redirects \in Nat
    /\ requests \in Nat
    /\ outcomes \in Seq({"failed", "observed"})

(* A GET and each redirect follow a request of their own.                  *)
Counted ==
    /\ redirects <= RedirectLimit
    /\ requests <= RedirectLimit + 2
    /\ probeStage \in Probing =>
          requests = redirects + (IF method = "GET" THEN 1 ELSE 0)

(* Every URL up to this one has its outcome, and there are not too many.   *)
InTurn ==
    /\ turn <= Len(allowlist)
    /\ turn > 0 => Len(allowlist) <= MaxApproved
    /\ probeStage \in Probing => turn > 0 /\ Len(outcomes) = turn - 1
    /\ probeStage \in {"next", "done"} => Len(outcomes) = turn
    /\ probeStage = "done" => turn = Len(allowlist)

(* The next request goes where the rules permit it.                        *)
TargetIsPermitted ==
    probeStage = "request" => Permitted(target, allowlist[turn])

Approved(c) == WithinApproval(c) \/ (c.to.host = "literal" /\ c.to.answer.first.hex)

ConnectionIsApproved == \A c \in connection : Approved(c)

ProbeInv ==
    ProbeTypeOK /\ Counted /\ InTurn /\ TargetIsPermitted /\ ConnectionIsApproved

-----------------------------------------------------------------------------
(* An allowlist of any length is a sequence.                               *)
LEMMA AllowlistIsSeq ==
    ASSUME NEW n \in Nat, NEW list \in [1..n -> BOOLEAN]
    PROVE  list \in Seq(BOOLEAN)
  OBVIOUS

(* What the rules permit is what may be connected to: the connection is    *)
(* pinned to the first of the addresses that were judged.                  *)
LEMMA PermittedIsApproved ==
    ASSUME NEW t \in Targets, NEW private \in BOOLEAN, Permitted(t, private)
    PROVE  Approved([to |-> t, private |-> private])
  <1> DEFINE first == t.answer.first
             all == t.answer.all
  <1>1. /\ first \in all /\ first \in Addresses
        /\ (t.host = "literal" /\ all = {first}) \/ \A a \in all : ~a.hex
    BY DEF Targets, Answers
  <1>2. CASE first.hex
    <2>1. t.host = "literal"
      BY <1>1, <1>2
    <2> QED
      BY <1>2, <2>1 DEF Approved
  <1>3. CASE ~first.hex
    <2>1. \A a \in all : ~a.hex
      BY <1>1, <1>3
    <2>2. \A a \in all : AddressClass(a) = a.is
      BY <2>1 DEF AddressClass
    <2> HIDE DEF first, all
    <2>3. {AddressClass(a) : a \in all} = {a.is : a \in all}
      BY <2>2
    <2>4. /\ first.is # "forbidden" /\ (first.is = "private" => private)
          /\ first.is = "loopback" => t.host = "localhost" \/ \A a \in all : a.is = "loopback"
      BY <1>1, <2>3 DEF Permitted, first, all
    <2> QED
      BY <2>4 DEF Approved, WithinApproval, first, all
  <1> QED
    BY <1>1, <1>2, <1>3 DEF Addresses

LEMMA ProbeInitially == ASSUME ProbeInit PROVE ProbeInv
  <1>1. allowlist \in Seq(BOOLEAN)
    <2>1. PICK n \in 0..(MaxApproved + 1) : allowlist \in [1..n -> BOOLEAN]
      BY DEF ProbeInit
    <2> QED
      BY <2>1, AllowlistIsSeq, ProbeLimits
  <1>2. NoTarget \in Targets
    BY DEF NoTarget, Targets, Addresses, Classes
  <1>3. Len(allowlist) \in Nat
    BY <1>1
  <1>4. outcomes \in Seq({"failed", "observed"}) /\ Len(outcomes) = 0
    BY DEF ProbeInit
  <1> QED
    BY <1>1, <1>2, <1>3, <1>4, ProbeLimits
       DEF ProbeInit, ProbeInv, ProbeTypeOK, Counted, InTurn, TargetIsPermitted,
           ConnectionIsApproved, Stages, Probing

(* The end of a URL, of which a request may have been the last.            *)
LEMMA EndKeepsOutcomes ==
    ASSUME NEW outcome \in {"failed", "observed"}, outcomes \in Seq({"failed", "observed"})
    PROVE  /\ Append(outcomes, outcome) \in Seq({"failed", "observed"})
           /\ Len(Append(outcomes, outcome)) = Len(outcomes) + 1
  OBVIOUS

LEMMA NextUrlKeeps == ASSUME ProbeInv, NextUrl PROVE ProbeInv'
  <1> USE ProbeLimits
  <1>1. NoTarget \in Targets
    BY DEF NoTarget, Targets, Addresses, Classes
  <1>2. Len(allowlist) \in Nat /\ Len(outcomes) \in Nat
    BY DEF ProbeInv, ProbeTypeOK
  <1>3. CASE Len(allowlist) > MaxApproved \/ aborted
    BY <1>2, <1>3
       DEF NextUrl, targetVars, ProbeInv, ProbeTypeOK, Counted, InTurn, TargetIsPermitted,
           ConnectionIsApproved, Stages, Probing
  <1>4. CASE ~(Len(allowlist) > MaxApproved \/ aborted)
    BY <1>1, <1>2, <1>4
       DEF NextUrl, targetVars, ProbeInv, ProbeTypeOK, Counted, InTurn, TargetIsPermitted,
           ConnectionIsApproved, Stages, Probing
  <1> QED
    BY <1>3, <1>4

LEMMA ResolveKeeps ==
    ASSUME ProbeInv, NEW t \in Targets, Resolve(t)
    PROVE  ProbeInv'
  <1> USE ProbeLimits
  <1>1. Len(allowlist) \in Nat /\ Len(outcomes) \in Nat
    BY DEF ProbeInv, ProbeTypeOK
  <1>2. CASE Permitted(t, allowlist[turn]) /\ ~aborted
    <2>1. Permitted(target', allowlist'[turn'])
      BY <1>2 DEF Resolve
    <2>2. ProbeTypeOK'
      BY <1>1, <1>2 DEF Resolve, ProbeInv, ProbeTypeOK, Stages, Probing
    <2>3. Counted' /\ InTurn' /\ TargetIsPermitted'
      BY <1>1, <1>2, <2>1
         DEF Resolve, ProbeInv, ProbeTypeOK, Counted, InTurn, TargetIsPermitted, Stages, Probing
    <2> QED
      BY <1>2, <2>2, <2>3 DEF Resolve, ProbeInv, ConnectionIsApproved
  <1>3. CASE ~(Permitted(t, allowlist[turn]) /\ ~aborted)
    <2>1. /\ probeStage = "resolve" /\ outcomes' = Append(outcomes, "failed")
          /\ probeStage' = "next" /\ target' = target
          /\ UNCHANGED <<allowlist, turn, method, redirects, requests, connection>>
      BY <1>3 DEF Resolve, UrlEnds
    <2>2. outcomes' \in Seq({"failed", "observed"}) /\ Len(outcomes') = Len(outcomes) + 1
      BY <2>1, EndKeepsOutcomes DEF ProbeInv, ProbeTypeOK
    <2>3. ProbeTypeOK'
      BY <2>1, <2>2 DEF ProbeInv, ProbeTypeOK, Stages
    <2>4. Len(outcomes') = turn
      <3>1. Len(outcomes) = turn - 1 /\ turn \in Nat
        BY <2>1 DEF ProbeInv, ProbeTypeOK, InTurn, Probing
      <3> QED
        BY <1>1, <2>2, <3>1
    <2>5. Counted' /\ InTurn' /\ TargetIsPermitted'
      BY <2>1, <2>4 DEF ProbeInv, Counted, InTurn, TargetIsPermitted, Probing
    <2> QED
      BY <2>1, <2>3, <2>5 DEF ProbeInv, ConnectionIsApproved
  <1> QED
    BY <1>2, <1>3

(* Whatever comes back, the request was permitted and is counted.          *)
LEMMA RequestKeeps ==
    ASSUME ProbeInv, NEW response \in Responses, Request(response)
    PROVE  ProbeInv'
  <1> USE ProbeLimits
  <1>1. /\ Len(allowlist) \in Nat /\ Len(outcomes) \in Nat
        /\ turn \in 1..Len(allowlist)
        /\ Len(outcomes) = turn - 1
        /\ requests = redirects + (IF method = "GET" THEN 1 ELSE 0)
    BY DEF ProbeInv, ProbeTypeOK, InTurn, Counted, Request, Probing
  <1>2. ConnectionIsApproved'
    <2>1. allowlist[turn] \in BOOLEAN
      BY <1>1 DEF ProbeInv, ProbeTypeOK
    <2>2. Permitted(target, allowlist[turn]) /\ target \in Targets
      BY DEF ProbeInv, ProbeTypeOK, TargetIsPermitted, Request
    <2>3. Approved([to |-> target, private |-> allowlist[turn]])
      BY <2>1, <2>2, PermittedIsApproved
    <2> QED
      BY <2>3 DEF ConnectionIsApproved, Request
  <1>3. requests' = requests + 1 /\ UNCHANGED <<allowlist, turn>>
    BY DEF Request
  <1>4. ASSUME NEW outcome \in {"failed", "observed"}, UrlEnds(outcome), UNCHANGED targetVars
        PROVE  ProbeTypeOK' /\ Counted' /\ InTurn' /\ TargetIsPermitted'
    BY <1>1, <1>3, <1>4, EndKeepsOutcomes
       DEF UrlEnds, targetVars, ProbeInv, ProbeTypeOK, Counted, InTurn, TargetIsPermitted,
           Stages, Probing
  <1>5. CASE response = "error"
    BY <1>2, <1>4, <1>5 DEF Request, ProbeInv
  <1>6. CASE response = "redirect"
    <2>1. CASE redirects >= RedirectLimit
      BY <1>2, <1>4, <1>6, <2>1 DEF Request, Follow, ProbeInv
    <2>2. CASE ~(redirects >= RedirectLimit)
      BY <1>1, <1>2, <1>3, <1>6, <2>2
         DEF Request, Follow, ProbeInv, ProbeTypeOK, Counted, InTurn, TargetIsPermitted,
             Stages, Probing
    <2> QED
      BY <2>1, <2>2
  <1>7. CASE response \in {"refused", "page"} /\ method = "HEAD"
    BY <1>1, <1>2, <1>3, <1>7
       DEF Request, Again, ProbeInv, ProbeTypeOK, Counted, InTurn, TargetIsPermitted,
           Stages, Probing
  <1>8. CASE response \notin {"error", "redirect"} /\ ~(response \in {"refused", "page"} /\ method = "HEAD")
    BY <1>2, <1>4, <1>8 DEF Request, ProbeInv
  <1> QED
    BY <1>5, <1>6, <1>7, <1>8

LEMMA ProbeInvIsInductive == ProbeInv /\ [ProbeNext]_probeVars => ProbeInv'
  <1> SUFFICES ASSUME ProbeInv, [ProbeNext]_probeVars PROVE ProbeInv'
    OBVIOUS
  <1>1. CASE NextUrl
    BY <1>1, NextUrlKeeps
  <1>2. CASE AllProbed
    BY <1>2
       DEF AllProbed, targetVars, ProbeInv, ProbeTypeOK, Counted, InTurn, TargetIsPermitted,
           ConnectionIsApproved, Stages, Probing
  <1>3. CASE Abort
    BY <1>3
       DEF Abort, targetVars, ProbeInv, ProbeTypeOK, Counted, InTurn, TargetIsPermitted,
           ConnectionIsApproved
  <1>4. ASSUME NEW t \in Targets, Resolve(t) PROVE ProbeInv'
    BY <1>4, ResolveKeeps
  <1>5. ASSUME NEW response \in Responses, Request(response) PROVE ProbeInv'
    BY <1>5, RequestKeeps
  <1>6. CASE UNCHANGED probeVars
    BY <1>6
       DEF probeVars, targetVars, ProbeInv, ProbeTypeOK, Counted, InTurn, TargetIsPermitted,
           ConnectionIsApproved
  <1> QED
    BY <1>1, <1>2, <1>3, <1>4, <1>5, <1>6 DEF ProbeNext

THEOREM InductiveInvariant == ProbeSpec => []ProbeInv
  BY ProbeInitially, ProbeInvIsInductive, PTL DEF ProbeSpec

-----------------------------------------------------------------------------
(* Whatever a resolver answers and wherever redirects lead, no connection  *)
(* leaves what was approved but to an address that a URL has in            *)
(* hexadecimal, no URL costs more requests than the redirects allow, and a *)
(* completed run has an outcome for every approved URL.                    *)
THEOREM ApprovalHolds == ProbeSpec => []ProbesStayApproved
  <1>1. ASSUME ProbeInv PROVE ProbesStayApproved
    <2>1. ASSUME probeStage = "done", ProbeStatus = "completed"
          PROVE  Len(allowlist) <= MaxApproved /\ Len(outcomes) = Len(allowlist)
      <3>1. Len(outcomes) = turn /\ turn = Len(allowlist) /\ turn \in Nat
        BY <1>1, <2>1 DEF ProbeInv, ProbeTypeOK, InTurn
      <3>2. outcomes # <<>>
        BY <2>1 DEF ProbeStatus
      <3>3. turn # 0
        BY <1>1, <3>1, <3>2 DEF ProbeInv, ProbeTypeOK
      <3> QED
        BY <1>1, <3>1, <3>3 DEF ProbeInv, InTurn
    <2> QED
      BY <1>1, <2>1
         DEF ProbeInv, Counted, ConnectionIsApproved, Approved, ProbesStayApproved
  <1> QED
    BY <1>1, InductiveInvariant, PTL

-----------------------------------------------------------------------------
(***************************************************************************)
(* The directory, for any number of commands that write to it.             *)
(***************************************************************************)

Writes(p) == stage[p] # "idle"

(* What a writer has put into the directory, as long as it is alone.       *)
WrittenSoFar(p) ==
    /\ stage[p] = "writing" =>
          \A n \in ArtifactsOf(package[p]) \ todo[p] : files[n] = Content(n, package[p])
    /\ stage[p] = "removing" =>
          /\ todo[p] \cap ArtifactsOf(package[p]) = {}
          /\ \A n \in ArtifactsOf(package[p]) : files[n] = Content(n, package[p])

(* What is in the directory, as long as no write ever went wrong.          *)
NothingElse(p) ==
    /\ stage[p] = "writing" => Present = previous[p] \cup (ArtifactsOf(package[p]) \ todo[p])
    /\ stage[p] = "removing" => Present = ArtifactsOf(package[p]) \cup todo[p]

Alone == ~crowded =>
    \A p \in Commands : Writes(p) =>
        /\ WrittenSoFar(p)
        /\ \A q \in Commands : Writes(q) => p = q

Tidy == ~harmed =>
    /\ ~crowded
    /\ \A p \in Commands : NothingElse(p)
    /\ (\A p \in Commands : ~Writes(p)) => Present = Listed(manifest)

Settled == settled => Loads(manifest) /\ \A p \in Commands : ~Writes(p)

(* What remains to be written is of the package.                           *)
OwnArtifacts ==
    \A p \in Commands : stage[p] = "writing" => todo[p] \subseteq ArtifactsOf(package[p])

PackageInv == PackageTypeOK /\ OwnArtifacts /\ Alone /\ Tidy /\ Settled

USE NoneAssumption

-----------------------------------------------------------------------------
(* The content of an artifact is a package, and never absent.              *)
LEMMA ContentIsThere ==
    ASSUME NEW k \in Packages, NEW n \in Artifacts
    PROVE  Content(n, k) \in Packages /\ Content(n, k) # None
  <1>1. Content(n, k) \in Packages
    BY DEF Content, Packages, PackageKinds
  <1> QED
    BY <1>1 DEF Packages, PackageKinds

LEMMA PackagesAreRequired ==
    ASSUME NEW k \in Packages
    PROVE  /\ Required \subseteq ArtifactsOf(k) /\ ArtifactsOf(k) \subseteq Artifacts
           /\ k # None /\ Listed(k) = ArtifactsOf(k)
  BY DEF ArtifactsOf, Artifacts, Required, Listed, Packages, PackageKinds

LEMMA PackageInitially == ASSUME PackageInit PROVE PackageInv
  <1>1. PackageTypeOK
    BY DEF PackageInit, PackageTypeOK
  <1>2. \A p \in Commands : ~Writes(p)
    BY DEF PackageInit, Writes
  <1>3. Present = {} /\ Listed(manifest) = {}
    BY DEF PackageInit, Present, Listed
  <1>4. \A p \in Commands : NothingElse(p)
    BY <1>2 DEF Writes, NothingElse
  <1> QED
    BY <1>1, <1>2, <1>3, <1>4 DEF PackageInit, PackageInv, OwnArtifacts, Alone, Tidy, Settled, Writes

(* Begin takes note of what is listed, of which all is there.              *)
LEMMA BeginKeeps ==
    ASSUME PackageInv, NEW p \in Commands, NEW k \in Packages, Begin(p, k)
    PROVE  PackageInv'
  <1>1. /\ ArtifactsOf(k) \subseteq Artifacts
        /\ Listed(manifest) \subseteq Artifacts
    BY PackagesAreRequired DEF PackageInv, PackageTypeOK, Listed
  <1>2. PackageTypeOK'
    BY <1>1, PackagesAreRequired DEF Begin, PackageInv, PackageTypeOK, directoryVars
  <1>3. /\ stage'[p] = "writing" /\ package'[p] = k
        /\ todo'[p] = ArtifactsOf(k) /\ previous'[p] = Listed(manifest)
        /\ Present' = Present /\ ~settled'
    BY DEF Begin, PackageInv, PackageTypeOK, directoryVars, Present
  <1>4. ASSUME NEW q \in Commands, q # p
        PROVE  stage'[q] = stage[q]
    BY <1>4 DEF Begin, PackageInv, PackageTypeOK
  <1>5. ASSUME ~crowded'
        PROVE  \A q \in Commands : ~Writes(q)
    BY <1>5 DEF Begin, Writers, Writes
  <1>6. Alone'
    <2> SUFFICES ASSUME ~crowded', NEW q \in Commands, Writes(q)'
                 PROVE  /\ WrittenSoFar(q)'
                        /\ \A r \in Commands : Writes(r)' => q = r
      BY DEF Alone
    <2>1. \A r \in Commands : Writes(r)' => r = p
      BY <1>4, <1>5 DEF Writes
    <2>2. WrittenSoFar(p)'
      BY <1>3 DEF WrittenSoFar
    <2> QED
      BY <2>1, <2>2
  <1>7. Tidy'
    <2> SUFFICES ASSUME ~harmed'
                 PROVE  /\ ~crowded'
                        /\ \A q \in Commands : NothingElse(q)'
                        /\ (\A q \in Commands : ~Writes(q)') => Present' = Listed(manifest')
      BY DEF Tidy
    <2>1. ~crowded' /\ ~harmed
      BY DEF Begin
    <2>2. Present = Listed(manifest)
      BY <2>1, <1>5 DEF PackageInv, Tidy
    <2>3. ASSUME NEW q \in Commands PROVE NothingElse(q)'
      <3>1. CASE q = p
        BY <1>3, <2>2, <3>1 DEF NothingElse
      <3>2. CASE q # p
        BY <1>4, <1>5, <2>1, <3>2 DEF NothingElse, Writes
      <3> QED
        BY <3>1, <3>2
    <2>4. Writes(p)'
      BY <1>3 DEF Writes
    <2> QED
      BY <2>1, <2>3, <2>4
  <1>8. Settled'
    BY <1>3 DEF Settled
  <1>9. OwnArtifacts'
    BY <1>3 DEF Begin, PackageInv, PackageTypeOK, OwnArtifacts
  <1> QED
    BY <1>2, <1>6, <1>7, <1>8, <1>9 DEF PackageInv

(* A step of one writer that leaves the stages, the manifest and the rest  *)
(* of the writers alone keeps the invariant when it keeps what this writer *)
(* has to show for itself.                                                 *)
LEMMA OneWriterMoves ==
    ASSUME PackageInv, NEW p \in Commands, Writes(p),
           PackageTypeOK', OwnArtifacts',
           \A q \in Commands : Writes(q)' <=> Writes(q),
           UNCHANGED <<manifest, settled, crowded, harmed>>,
           ~crowded => WrittenSoFar(p)',
           ~harmed => NothingElse(p)'
    PROVE  PackageInv'
  <1>1. ~settled
    BY DEF PackageInv, Settled
  <1>2. Alone'
    BY DEF PackageInv, Alone
  <1>3. ASSUME ~harmed, NEW q \in Commands
        PROVE  NothingElse(q)'
    <2>1. CASE q = p
      BY <1>3, <2>1
    <2>2. CASE q # p
      <3>1. ~Writes(q)'
        BY <1>3, <2>2 DEF PackageInv, Tidy, Alone
      <3> QED
        BY <3>1 DEF Writes, NothingElse
    <2> QED
      BY <2>1, <2>2
  <1>4. Tidy'
    BY <1>3 DEF PackageInv, Tidy
  <1> QED
    BY <1>1, <1>2, <1>4 DEF PackageInv, Settled

(* A writer adds what it is to write, and what is added is there.          *)
LEMMA WriteArtifactKeeps ==
    ASSUME PackageInv, NEW p \in Commands, NEW n \in Artifacts, WriteArtifact(p, n)
    PROVE  PackageInv'
  <1> DEFINE k == package[p]
  <1>1. k \in Packages /\ Writes(p) /\ stage[p] = "writing"
    BY DEF WriteArtifact, PackageInv, PackageTypeOK, Writes
  <1>2. Content(n, k) \in Packages /\ Content(n, k) # None
    BY <1>1, ContentIsThere
  <1>3. n \in todo[p] /\ n \in ArtifactsOf(k)
    BY DEF WriteArtifact, PackageInv, OwnArtifacts
  <1> HIDE DEF k
  <1>4. /\ files' = [files EXCEPT ![n] = Content(n, k)]
        /\ todo' = [todo EXCEPT ![p] = @ \ {n}]
        /\ UNCHANGED <<manifest, clutter, stage, package, previous, settled, crowded, harmed>>
    BY DEF WriteArtifact, monitorVars, k
  <1>5. /\ files \in [Artifacts -> Packages \cup {None}]
        /\ todo \in [Commands -> SUBSET Artifacts]
    BY DEF PackageInv, PackageTypeOK
  <1>6. PackageTypeOK'
    BY <1>2, <1>4 DEF PackageInv, PackageTypeOK
  <1>7. \A q \in Commands : Writes(q)' <=> Writes(q)
    BY <1>4 DEF Writes
  <1>8. OwnArtifacts'
    BY <1>4, <1>5 DEF PackageInv, OwnArtifacts
  <1>9. ASSUME ~crowded
        PROVE  WrittenSoFar(p)'
    BY <1>1, <1>4, <1>5, <1>9 DEF PackageInv, Alone, WrittenSoFar, k
  <1>10. ASSUME ~harmed
         PROVE  NothingElse(p)'
    <2>1. Present = previous[p] \cup (ArtifactsOf(k) \ todo[p])
      BY <1>1, <1>10 DEF PackageInv, Tidy, NothingElse, k
    <2>2. Present' = Present \cup {n}
      BY <1>2, <1>4, <1>5 DEF Present
    <2> QED
      BY <1>1, <1>3, <1>4, <1>5, <2>1, <2>2 DEF NothingElse, k
  <1> QED
    BY <1>1, <1>4, <1>6, <1>7, <1>8, <1>9, <1>10, OneWriterMoves

(* Everything is written; what is left of the previous package goes.       *)
LEMMA WrittenKeeps ==
    ASSUME PackageInv, NEW p \in Commands, Written(p)
    PROVE  PackageInv'
  <1>1. /\ stage[p] = "writing" /\ todo[p] = {} /\ Writes(p)
        /\ stage' = [stage EXCEPT ![p] = "removing"]
        /\ todo' = [todo EXCEPT ![p] = previous[p] \ ArtifactsOf(package[p])]
        /\ previous' = [previous EXCEPT ![p] = {}]
        /\ UNCHANGED <<files, manifest, clutter, package, settled, crowded, harmed>>
    BY DEF Written, Writes, directoryVars, monitorVars
  <1>2. /\ todo \in [Commands -> SUBSET Artifacts]
        /\ stage \in [Commands -> {"idle", "writing", "removing"}]
        /\ previous[p] \in SUBSET Artifacts
    BY DEF PackageInv, PackageTypeOK
  <1>3. PackageTypeOK'
    BY <1>1, <1>2 DEF PackageInv, PackageTypeOK
  <1>4. \A q \in Commands : Writes(q)' <=> Writes(q)
    BY <1>1, <1>2 DEF Writes
  <1>5. OwnArtifacts'
    BY <1>1, <1>2 DEF PackageInv, OwnArtifacts
  <1>6. stage'[p] = "removing" /\ todo'[p] = previous[p] \ ArtifactsOf(package[p])
    BY <1>1, <1>2
  <1>7. ASSUME ~crowded
        PROVE  WrittenSoFar(p)'
    BY <1>1, <1>6, <1>7 DEF PackageInv, Alone, WrittenSoFar
  <1>8. ASSUME ~harmed
        PROVE  NothingElse(p)'
    <2>1. Present = previous[p] \cup ArtifactsOf(package[p])
      BY <1>1, <1>8 DEF PackageInv, Tidy, NothingElse
    <2>2. Present' = Present
      BY <1>1 DEF Present
    <2> QED
      BY <1>1, <1>6, <2>1, <2>2 DEF NothingElse
  <1> QED
    BY <1>1, <1>3, <1>4, <1>5, <1>7, <1>8, OneWriterMoves

(* What is removed is not of the package that was written.                 *)
LEMMA RemoveArtifactKeeps ==
    ASSUME PackageInv, NEW p \in Commands, NEW n \in Artifacts, RemoveArtifact(p, n)
    PROVE  PackageInv'
  <1>1. /\ stage[p] = "removing" /\ n \in todo[p] /\ Writes(p)
        /\ files' = [files EXCEPT ![n] = None]
        /\ todo' = [todo EXCEPT ![p] = @ \ {n}]
        /\ UNCHANGED <<manifest, clutter, stage, package, previous, settled, crowded, harmed>>
    BY DEF RemoveArtifact, Writes, monitorVars
  <1>2. /\ files \in [Artifacts -> Packages \cup {None}]
        /\ todo \in [Commands -> SUBSET Artifacts]
    BY DEF PackageInv, PackageTypeOK
  <1>3. PackageTypeOK'
    BY <1>1, <1>2 DEF PackageInv, PackageTypeOK
  <1>4. \A q \in Commands : Writes(q)' <=> Writes(q)
    BY <1>1 DEF Writes
  <1>5. OwnArtifacts'
    BY <1>1, <1>2 DEF PackageInv, OwnArtifacts
  <1>6. ASSUME ~crowded
        PROVE  WrittenSoFar(p)'
    <2>1. /\ todo[p] \cap ArtifactsOf(package[p]) = {}
          /\ \A m \in ArtifactsOf(package[p]) : files[m] = Content(m, package[p])
      BY <1>1, <1>6 DEF PackageInv, Alone, WrittenSoFar
    <2>2. \A m \in ArtifactsOf(package[p]) : files'[m] = files[m]
      BY <1>1, <1>2, <2>1
    <2> QED
      BY <1>1, <1>2, <2>1, <2>2 DEF WrittenSoFar
  <1>7. ASSUME ~harmed
        PROVE  NothingElse(p)'
    <2>1. Present = ArtifactsOf(package[p]) \cup todo[p]
      BY <1>1, <1>7 DEF PackageInv, Tidy, NothingElse
    <2>2. todo[p] \cap ArtifactsOf(package[p]) = {}
      BY <1>1, <1>7 DEF PackageInv, Tidy, Alone, WrittenSoFar
    <2>3. Present' = Present \ {n}
      BY <1>1, <1>2 DEF Present
    <2>4. todo'[p] = todo[p] \ {n}
      BY <1>1, <1>2
    <2> QED
      BY <1>1, <2>1, <2>2, <2>3, <2>4 DEF NothingElse
  <1> QED
    BY <1>1, <1>3, <1>4, <1>5, <1>6, <1>7, OneWriterMoves

(* A writer that leaves is idle, and the others are as they were.          *)
LEMMA QuitLeaves ==
    ASSUME PackageInv, NEW p \in Commands, Quit(p)
    PROVE  /\ ~Writes(p)'
           /\ \A q \in Commands \ {p} :
                /\ Writes(q)' <=> Writes(q)
                /\ stage'[q] = stage[q] /\ package'[q] = package[q]
                /\ todo'[q] = todo[q] /\ previous'[q] = previous[q]
           /\ OwnArtifacts'
  <1>1. /\ ~Writes(p)'
        /\ \A q \in Commands \ {p} :
                /\ stage'[q] = stage[q] /\ package'[q] = package[q]
                /\ todo'[q] = todo[q] /\ previous'[q] = previous[q]
    BY DEF Quit, Writes, PackageInv, PackageTypeOK
  <1>2. OwnArtifacts'
    BY <1>1 DEF PackageInv, OwnArtifacts, Writes
  <1> QED
    BY <1>1, <1>2 DEF Writes

(* The manifest vouches for what its writer wrote while it was alone.      *)
LEMMA ListKeeps ==
    ASSUME PackageInv, NEW p \in Commands, List(p)
    PROVE  PackageInv'
  <1> DEFINE k == package[p]
  <1>1. /\ stage[p] = "removing" /\ todo[p] = {} /\ Writes(p)
        /\ manifest' = k /\ settled' = ~crowded /\ Quit(p)
        /\ UNCHANGED <<files, clutter, crowded, harmed>>
    BY DEF List, Writes
  <1>2. k \in Packages
    BY <1>1 DEF PackageInv, PackageTypeOK
  <1>3. PackageTypeOK'
    BY <1>1, <1>2 DEF Quit, PackageInv, PackageTypeOK
  <1>4. \A q \in Commands \ {p} : WrittenSoFar(q) => WrittenSoFar(q)'
    BY <1>1, QuitLeaves DEF WrittenSoFar
  <1>5. Alone'
    BY <1>1, <1>4, QuitLeaves DEF PackageInv, Alone
  <1>6. ASSUME ~crowded
        PROVE  /\ \A n \in ArtifactsOf(k) : files[n] = Content(n, k)
               /\ \A q \in Commands : ~Writes(q)'
    BY <1>1, <1>6, QuitLeaves DEF PackageInv, Alone, WrittenSoFar
  <1>7. Present' = Present
    BY <1>1 DEF Present
  <1>8. Tidy'
    <2> SUFFICES ASSUME ~harmed
                 PROVE  /\ ~crowded'
                        /\ \A q \in Commands : NothingElse(q)'
                        /\ Present' = Listed(manifest')
      BY <1>1 DEF Tidy
    <2>1. ~crowded /\ Present = ArtifactsOf(k)
      BY <1>1 DEF PackageInv, Tidy, NothingElse
    <2>2. \A q \in Commands : NothingElse(q)'
      BY <1>6, <2>1 DEF NothingElse, Writes
    <2>3. Listed(manifest') = ArtifactsOf(k)
      BY <1>1, <1>2, PackagesAreRequired
    <2> QED
      BY <1>1, <1>7, <2>1, <2>2, <2>3
  <1>9. Settled'
    <2>1. ASSUME ~crowded
          PROVE  Loads(manifest)'
      BY <1>1, <1>2, <1>6, <2>1, PackagesAreRequired DEF Loads
    <2> QED
      BY <1>1, <1>6, <2>1 DEF Settled
  <1> QED
    BY <1>1, <1>3, <1>5, <1>8, <1>9, QuitLeaves DEF PackageInv

(* A writer that gives up does harm, but leaves no settled directory.      *)
LEMMA GiveUpKeeps ==
    ASSUME PackageInv, NEW p \in Commands, GiveUp(p)
    PROVE  PackageInv'
  <1>1. /\ Writes(p) /\ Quit(p) /\ harmed' = TRUE /\ clutter' \in BOOLEAN
        /\ UNCHANGED <<files, manifest, settled, crowded>>
    BY DEF GiveUp, Writes, PackageInv, PackageTypeOK
  <1>2. PackageTypeOK'
    BY <1>1 DEF Quit, PackageInv, PackageTypeOK
  <1>3. \A q \in Commands \ {p} : WrittenSoFar(q) => WrittenSoFar(q)'
    BY <1>1, QuitLeaves DEF WrittenSoFar
  <1>4. Alone'
    BY <1>1, <1>3, QuitLeaves DEF PackageInv, Alone
  <1>5. Tidy' /\ Settled'
    BY <1>1 DEF PackageInv, Tidy, Settled
  <1> QED
    BY <1>1, <1>2, <1>4, <1>5, QuitLeaves DEF PackageInv

LEMMA PackageInvIsInductive == PackageInv /\ [PackageNext]_packageVars => PackageInv'
  <1> SUFFICES ASSUME PackageInv, [PackageNext]_packageVars PROVE PackageInv'
    OBVIOUS
  <1>1. ASSUME NEW p \in Commands, NEW k \in Packages, Begin(p, k) PROVE PackageInv'
    BY <1>1, BeginKeeps
  <1>2. ASSUME NEW p \in Commands, NEW n \in Artifacts, WriteArtifact(p, n) PROVE PackageInv'
    BY <1>2, WriteArtifactKeeps
  <1>3. ASSUME NEW p \in Commands, NEW n \in Artifacts, RemoveArtifact(p, n) PROVE PackageInv'
    BY <1>3, RemoveArtifactKeeps
  <1>4. ASSUME NEW p \in Commands, Written(p) PROVE PackageInv'
    BY <1>4, WrittenKeeps
  <1>5. ASSUME NEW p \in Commands, List(p) PROVE PackageInv'
    BY <1>5, ListKeeps
  <1>6. ASSUME NEW p \in Commands, GiveUp(p) PROVE PackageInv'
    BY <1>6, GiveUpKeeps
  <1>7. CASE UNCHANGED packageVars
    BY <1>7
       DEF packageVars, directoryVars, writerVars, monitorVars, PackageInv, PackageTypeOK,
           OwnArtifacts, Alone, Tidy, Settled, Writes, WrittenSoFar, NothingElse, Present, Loads
  <1> QED
    BY <1>1, <1>2, <1>3, <1>4, <1>5, <1>6, <1>7 DEF PackageNext, PackageStep

-----------------------------------------------------------------------------
(* The directory and its writers keep their types.                         *)
THEOREM TypeCorrect == PackageSpec => []PackageTypeOK
  <1>1. PackageInv => PackageTypeOK
    BY DEF PackageInv
  <1> QED
    BY <1>1, PackageInitially, PackageInvIsInductive, PTL DEF PackageSpec

(* However many commands write to the directory, fail or are killed there: *)
(* after a write that ended undisturbed it holds the package that its      *)
(* manifest lists, and nothing else unless a write before went wrong.      *)
THEOREM PackagesLoad == PackageSpec => []PackageLoads
  <1>1. ASSUME PackageInv PROVE PackageLoads
    <2>1. ASSUME settled
          PROVE  Loads(manifest) /\ \A p \in Commands : ~Writes(p)
      BY <1>1, <2>1 DEF PackageInv, Settled
    <2>2. ASSUME settled, ~harmed
          PROVE  Present = ArtifactsOf(manifest)
      <3>1. Present = Listed(manifest)
        BY <1>1, <2>1, <2>2 DEF PackageInv, Tidy
      <3>2. manifest # None
        BY <2>1, <2>2 DEF Loads
      <3> QED
        BY <3>1, <3>2 DEF Listed
    <2> QED
      BY <2>1, <2>2 DEF PackageLoads
  <1> QED
    BY <1>1, PackageInitially, PackageInvIsInductive, PTL DEF PackageSpec

(***************************************************************************)
(* AdvisoryScan: a lookup that is completed tells of every package.        *)
(***************************************************************************)

(* An order of advisories has each of them.                                *)
EachIn(A, o) == \A a \in A : \E i \in DOMAIN o : o[i] = {a}

LEMMA OrdersAreWhole ==
  ASSUME NEW A, IsFiniteSet(A), NEW o \in Orders(A)
  PROVE  o \in Seq(SUBSET A) /\ EachIn(A, o)
  <1> DEFINE n == Cardinality(A)
  <1>1. n \in Nat
    BY FS_CardinalityType
  <1>2. PICK f \in SetToSeqs(A) : o = [i \in DOMAIN f |-> {f[i]}]
    BY DEF Orders
  <1>3. f \in [1..n -> A] /\ \A i, j \in 1..n : i # j => f[i] # f[j]
    BY <1>2 DEF SetToSeqs
  <1>4. f \in Injection(1..n, A)
    BY <1>3 DEF Injection, IsInjective
  <1>5. IsFiniteSet(1..n) /\ Cardinality(1..n) = n
    BY <1>1, FS_Interval
  <1>6. f \in Surjection(1..n, A)
    BY <1>4, <1>5, FS_Injection
  <1>7. \A a \in A : \E i \in 1..n : f[i] = a
    BY <1>6 DEF Surjection
  <1>8. o \in Seq(SUBSET A)
    BY <1>1, <1>2, <1>3
  <1> QED
    BY <1>2, <1>3, <1>7, <1>8 DEF EachIn

(* What consolidate has made of the first records.                         *)
GroupedSoFar(records, k, groups) ==
    /\ groups \in Seq(SUBSET Advisories)
    /\ \A i \in 1..k : records[i] \subseteq Withdrawn \/ records[i] \subseteq ToldBy(groups)

Grouped == INSTANCE FoldTheorems WITH Op <- AddToGroups, Holds <- GroupedSoFar

LEMMA GroupAdded ==
  ASSUME NEW groups \in Seq(SUBSET Advisories), NEW record \in SUBSET Advisories
  PROVE  /\ AddToGroups(groups, record) \in Seq(SUBSET Advisories)
         /\ ToldBy(groups) \subseteq ToldBy(AddToGroups(groups, record))
         /\ record \subseteq Withdrawn \/ record \subseteq ToldBy(AddToGroups(groups, record))
  <1> DEFINE same == {i \in DOMAIN groups : NamesOf(groups[i]) \cap NamesOf(record) # {}}
             chosen == CHOOSE i \in same : \A j \in same : i <= j
  <1>1. CASE record \subseteq Withdrawn
    BY <1>1 DEF AddToGroups
  <1>2. CASE ~(record \subseteq Withdrawn) /\ same = {}
    <2>1. AddToGroups(groups, record) = Append(groups, record)
      BY <1>2 DEF AddToGroups
    <2>2. /\ Append(groups, record) \in Seq(SUBSET Advisories)
          /\ DOMAIN Append(groups, record) = 1..(Len(groups) + 1)
          /\ Append(groups, record)[Len(groups) + 1] = record
          /\ \A i \in DOMAIN groups : i \in 1..(Len(groups) + 1)
                                        /\ Append(groups, record)[i] = groups[i]
      OBVIOUS
    <2>3. Len(groups) + 1 \in 1..(Len(groups) + 1)
      OBVIOUS
    <2> QED
      BY <2>1, <2>2, <2>3 DEF ToldBy
  <1>3. CASE ~(record \subseteq Withdrawn) /\ same # {}
    <2>1. AddToGroups(groups, record) = [groups EXCEPT ![chosen] = @ \cup record]
      BY <1>3 DEF AddToGroups
    <2>2. chosen \in DOMAIN groups
      <3>1. same \in SUBSET Nat
        OBVIOUS
      <3>2. \E i \in same : \A j \in same : i <= j
        BY <1>3, <3>1, Grouped!LeastOf
      <3> HIDE DEF same
      <3>3. chosen \in same
        BY <3>2
      <3> QED
        BY <3>3 DEF same
    <2> HIDE DEF chosen
    <2>3. [groups EXCEPT ![chosen] = @ \cup record] \in Seq(SUBSET Advisories)
      BY <2>2
    <2> QED
      BY <2>1, <2>2, <2>3 DEF ToldBy
  <1> QED
    BY <1>1, <1>2, <1>3

(* consolidate: no advisory is lost but those that were withdrawn.         *)
LEMMA ConsolidateTells ==
  ASSUME NEW records \in Seq(SUBSET Advisories)
  PROVE  /\ Consolidate(records) \in Seq(SUBSET Advisories)
         /\ \A i \in DOMAIN records :
                records[i] \subseteq Withdrawn \/ records[i] \subseteq ToldBy(Consolidate(records))
  <1> DEFINE N == Len(records)
  <1>1. N \in Nat /\ DOMAIN records = 1..N /\ \A k \in 1..N : records[k] \in SUBSET Advisories
    OBVIOUS
  <1>2. GroupedSoFar(records, 0, <<>>)
    BY DEF GroupedSoFar
  <1>3. ASSUME NEW k \in 1..N, NEW groups, GroupedSoFar(records, k - 1, groups)
        PROVE  GroupedSoFar(records, k, AddToGroups(groups, records[k]))
    <2>1. groups \in Seq(SUBSET Advisories)
      BY <1>3 DEF GroupedSoFar
    <2>2. \A i \in 1..k : i \in 1..(k - 1) \/ i = k
      OBVIOUS
    <2> QED
      BY <1>1, <1>3, <2>1, <2>2, GroupAdded DEF GroupedSoFar
  <1> HIDE DEF N
  <1>4. GroupedSoFar(records, N, Grouped!FoldLeft(AddToGroups, <<>>, records))
    BY <1>1, <1>2, <1>3, Grouped!FoldHolds
  <1>5. Grouped!FoldLeft(AddToGroups, <<>>, records) = Consolidate(records)
    BY DEF Consolidate, Grouped!FoldLeft, FoldLeft, Grouped!MapThenFoldSet, MapThenFoldSet,
           Grouped!Max, Max
  <1> QED
    BY <1>1, <1>4, <1>5 DEF GroupedSoFar

Databases == [Dependencies -> DatabaseEntries \cup {Absent}]
ListsOf == UNION {[D -> SUBSET Advisories] : D \in SUBSET Dependencies}

LookupRecords ==
    [stage : LookupStages, mode : Modes, since : Nat, locked : Seq(Dependencies),
     packages : SUBSET Dependencies,
     cache : Databases, records : Databases, missing : SUBSET Dependencies,
     asked : SUBSET Dependencies, pages : ListsOf, knew : ListsOf,
     pending : SUBSET [package : Dependencies, pages : Nat], requests : Nat,
     details : SUBSET Advisories, incomplete : BOOLEAN]

(* A package of which the answer is there, as it must be told of.          *)
Answered(l, p) ==
    /\ l.mode # "local" => l.records[p] # Absent /\ l.records[p].at >= l.since
    /\ p \in l.asked => l.records[p] # Absent /\ WholeEntry(l.records[p])
    /\ l.mode = "refresh" => p \in l.asked

(* Of a package of the batch, all that was known is listed, or more pages  *)
(* are pending, or the lookup says that it is incomplete.                  *)
Paging(l, facts) ==
    /\ DOMAIN l.knew = DOMAIN l.pages
    /\ \A p \in DOMAIN l.pages :
        /\ l.knew[p] \subseteq facts[p]
        /\ \/ l.incomplete = TRUE
           \/ \E t \in l.pending : t.package = p
           \/ l.knew[p] \subseteq l.pages[p]

(* What holds of a lookup at an hour, where facts are what is known.       *)
Fits(l, now, facts) ==
    /\ l \in LookupRecords
    /\ l.since <= now
    /\ l.packages = TakenUp(l.locked)
    /\ l.stage # "page" => DOMAIN l.pages = {}
    /\ l.stage \in {"save", "report"} => l.missing = {}
    /\ DOMAIN l.pages \subseteq l.asked
    /\ Paging(l, facts)
    /\ \/ l.incomplete = TRUE
       \/ \A p \in l.packages : p \in l.missing \/ p \in DOMAIN l.pages \/ Answered(l, p)

AdvisoryInv ==
    /\ clock \in Nat /\ clock >= CacheHours
    /\ known \in [Dependencies -> SUBSET Advisories]
    /\ database \in Databases
    /\ DOMAIN lookup = Lookups /\ \A s \in Lookups : Fits(lookup[s], clock, known)

LEMMA NoListIs == <<>> \in ListsOf /\ DOMAIN <<>> = {}
  <1>1. DOMAIN <<>> = {}
    OBVIOUS
  <1>2. <<>> \in [{} -> SUBSET Advisories]
    OBVIOUS
  <1> QED
    BY <1>1, <1>2 DEF ListsOf

LEMMA NoEntriesAre == NoEntries \in Databases
  BY DEF NoEntries, Databases

LEMMA NoLookupFits == ASSUME NEW now \in Nat, NEW facts PROVE Fits(NoLookup, now, facts)
  <1>1. NoLookup \in LookupRecords
    BY NoListIs, NoEntriesAre DEF NoLookup, LookupRecords, LookupStages, Modes
  <1>2. /\ NoLookup.since = 0 /\ NoLookup.stage = "idle" /\ NoLookup.packages = {}
        /\ NoLookup.pages = <<>> /\ NoLookup.knew = <<>>
        /\ TakenUp(NoLookup.locked) = {}
    BY DEF NoLookup, TakenUp
  <1> QED
    BY <1>1, <1>2, NoListIs DEF Fits, Paging

(* What is in a list may be put under a package of it.                     *)
LEMMA ListFacts ==
  ASSUME NEW l \in ListsOf
  PROVE  /\ DOMAIN l \subseteq Dependencies
         /\ \A p \in DOMAIN l : l[p] \subseteq Advisories
         /\ l = [p \in DOMAIN l |-> l[p]]
  BY DEF ListsOf

LEMMA ListIs ==
  ASSUME NEW D \in SUBSET Dependencies, NEW l, l \in [D -> SUBSET Advisories]
  PROVE  l \in ListsOf
  BY DEF ListsOf

LEMMA EntryRegrouped ==
  ASSUME NEW e \in DatabaseEntries
  PROVE  Regrouped(e) \in DatabaseEntries /\ Regrouped(e).at = e.at
  <1>1. Consolidate(e.groups) \in Seq(SUBSET Advisories)
    BY ConsolidateTells DEF DatabaseEntries
  <1> QED
    BY <1>1 DEF Regrouped, DatabaseEntries

(* A lookup begins with what it may take from the database.                *)
LEMMA BeginFits ==
  ASSUME AdvisoryInv, NEW s \in Lookups, NEW mode \in Modes, BeginLookup(s, mode)
  PROVE  \E m : lookup' = [lookup EXCEPT ![s] = m] /\ Fits(m, clock, known)
  <1>1. PICK locked \in Lockfiles, cache \in CacheRead, malformed \in BOOLEAN :
            LET since == clock - CacheHours
                packages == TakenUp(locked)
                kept == {p \in packages : Kept(cache[p], mode, since)}
                missing == IF mode = "local" THEN {} ELSE packages \ kept
            IN  lookup' = [lookup EXCEPT ![s] =
                    [NoLookup EXCEPT !.stage = IF missing = {} THEN "report" ELSE "ask",
                                 !.mode = mode, !.since = since,
                                 !.locked = locked, !.packages = packages,
                                 !.cache = cache,
                                 !.records = [p \in Dependencies |->
                                    IF p \in kept THEN Regrouped(cache[p]) ELSE Absent],
                                 !.missing = missing,
                                 !.incomplete = malformed]]
    BY DEF BeginLookup
  <1> DEFINE since == clock - CacheHours
             packages == TakenUp(locked)
             kept == {p \in packages : Kept(cache[p], mode, since)}
             missing == IF mode = "local" THEN {} ELSE packages \ kept
             records == [p \in Dependencies |->
                            IF p \in kept THEN Regrouped(cache[p]) ELSE Absent]
             m == [NoLookup EXCEPT !.stage = IF missing = {} THEN "report" ELSE "ask",
                             !.mode = mode, !.since = since, !.locked = locked, !.packages = packages,
                             !.cache = cache, !.records = records, !.missing = missing,
                             !.incomplete = malformed]
  <1>2. lookup' = [lookup EXCEPT ![s] = m]
    BY <1>1
  <1>3. cache \in Databases
    BY NoEntriesAre DEF CacheRead, AdvisoryInv
  <1>4. since \in Nat /\ since <= clock
    BY HoursAssumption DEF AdvisoryInv
  <1>5. locked \in Seq(Dependencies) /\ packages \subseteq Dependencies
    BY PackagesAssumption DEF TakenUp
  <1>6. \A p \in kept : cache[p] \in DatabaseEntries /\ (mode = "api" => cache[p].at >= since)
    BY <1>3, <1>5 DEF Kept, Databases
  <1>7. kept \subseteq packages /\ missing \subseteq packages
    OBVIOUS
  <1>8. mode = "refresh" => kept = {}
    BY DEF Kept
  <1> HIDE DEF kept, since, packages
  <1>9. records \in Databases /\ \A p \in kept : records[p] = Regrouped(cache[p])
    <2>1. \A p \in kept : Regrouped(cache[p]) \in DatabaseEntries
      BY <1>6, EntryRegrouped
    <2> QED
      BY <1>5, <1>7, <2>1 DEF Databases
  <1>10. \A p \in kept : records[p] # Absent /\ (mode = "api" => records[p].at >= since)
    BY <1>6, <1>9, EntryRegrouped, AbsentAssumption
  <1>11. /\ m.stage = (IF missing = {} THEN "report" ELSE "ask") /\ m.mode = mode
         /\ m.since = since /\ m.locked = locked /\ m.packages = packages /\ m.cache = cache
         /\ m.records = records /\ m.missing = missing /\ m.asked = {}
         /\ m.pages = <<>> /\ m.knew = <<>> /\ m.incomplete = malformed
    BY DEF NoLookup
  <1>12. m \in LookupRecords
    BY <1>3, <1>4, <1>5, <1>7, <1>9, NoListIs
       DEF NoLookup, LookupRecords, LookupStages
  <1>13. \A p \in packages : p \in missing \/ mode = "local" \/ p \in kept
    OBVIOUS
  <1> HIDE DEF missing, records, m
  <1>14. \A p \in packages : p \in m.missing \/ Answered(m, p)
    BY <1>8, <1>10, <1>11, <1>13 DEF Answered, Modes
  <1>15. m.packages = TakenUp(m.locked)
    BY <1>11 DEF packages
  <1> QED
    BY <1>2, <1>4, <1>11, <1>12, <1>14, <1>15, NoListIs DEF Fits, Paging

LEMMA UpToIs == ASSUME NEW S, NEW n, NEW T \in UpTo(S, n) PROVE T \subseteq S
  BY DEF UpTo

(* The first pages of a batch are all, or more are pending.                *)
LEMMA AskFits ==
  ASSUME AdvisoryInv, NEW s \in Lookups, AskBatch(s)
  PROVE  \E m : lookup' = [lookup EXCEPT ![s] = m] /\ Fits(m, clock, known)
  <1> DEFINE l == lookup[s]
  <1>0. PICK batch \in UpTo(l.missing, BatchSize) : \E first \in [batch -> SUBSET Advisories] :
            /\ \A p \in batch : first[p] \in PagesAfter(p, {})
            /\ lookup' = [lookup EXCEPT
                ![s].stage = "page",
                ![s].missing = @ \ batch,
                ![s].asked = @ \cup batch,
                ![s].knew = [p \in batch |-> known[p]],
                ![s].pages = first,
                ![s].pending = {[package |-> p, pages |-> 1] :
                                    p \in {q \in batch : first[q] # known[q]}}]
    BY DEF AskBatch
  <1>1. PICK first \in [batch -> SUBSET Advisories] :
            /\ \A p \in batch : first[p] \in PagesAfter(p, {})
            /\ lookup' = [lookup EXCEPT
                ![s].stage = "page",
                ![s].missing = @ \ batch,
                ![s].asked = @ \cup batch,
                ![s].knew = [p \in batch |-> known[p]],
                ![s].pages = first,
                ![s].pending = {[package |-> p, pages |-> 1] :
                                    p \in {q \in batch : first[q] # known[q]}}]
    BY <1>0
  <1> DEFINE knew == [p \in batch |-> known[p]]
             pending == {[package |-> p, pages |-> 1] : p \in {q \in batch : first[q] # known[q]}}
             m == [l EXCEPT !.stage = "page", !.missing = @ \ batch, !.asked = @ \cup batch,
                            !.knew = knew, !.pages = first, !.pending = pending]
  <1>2. l \in LookupRecords /\ Fits(l, clock, known) /\ l.stage = "ask"
    BY DEF AdvisoryInv, Fits, AskBatch
  <1>3. lookup' = [lookup EXCEPT ![s] = m]
    BY <1>1
  <1>4. batch \subseteq l.missing /\ batch \subseteq Dependencies
    BY <1>0, <1>2, UpToIs DEF LookupRecords
  <1>5. knew \in ListsOf /\ first \in ListsOf /\ DOMAIN knew = batch /\ DOMAIN first = batch
    <2>1. knew \in [batch -> SUBSET Advisories]
      BY <1>4 DEF AdvisoryInv
    <2> QED
      BY <1>1, <1>4, <2>1, ListIs
  <1>6. pending \in SUBSET [package : Dependencies, pages : Nat]
    BY <1>4
  <1>7. \A p \in batch : knew[p] = known[p]
            /\ (first[p] = known[p] \/ \E t \in pending : t.package = p)
    <2>1. ASSUME NEW p \in batch, first[p] # known[p] PROVE \E t \in pending : t.package = p
      <3>1. [package |-> p, pages |-> 1] \in pending
        BY <2>1
      <3> HIDE DEF pending
      <3> QED
        BY <3>1
    <2> QED
      BY <2>1
  <1> HIDE DEF l, knew, pending
  <1>8. /\ m.stage = "page" /\ m.missing = l.missing \ batch /\ m.asked = l.asked \cup batch
        /\ m.knew = knew /\ m.pages = first /\ m.pending = pending /\ m.since = l.since
        /\ m.mode = l.mode /\ m.packages = l.packages /\ m.locked = l.locked /\ m.records = l.records
        /\ m.incomplete = l.incomplete
    BY <1>2 DEF LookupRecords
  <1>9. m \in LookupRecords
    BY <1>2, <1>4, <1>5, <1>6 DEF LookupRecords, LookupStages
  <1> HIDE DEF m
  <1>10. Paging(m, known)
    BY <1>5, <1>7, <1>8 DEF Paging
  <1>11. \/ m.incomplete = TRUE
         \/ \A p \in m.packages : p \in m.missing \/ p \in DOMAIN m.pages \/ Answered(m, p)
    <2> SUFFICES ASSUME m.incomplete # TRUE, NEW p \in m.packages,
                        p \notin m.missing, p \notin DOMAIN m.pages
                 PROVE  Answered(m, p)
      OBVIOUS
    <2>1. p \notin batch /\ p \notin l.missing /\ p \in l.packages
      BY <1>5, <1>8
    <2>2. p \notin DOMAIN l.pages
      BY <1>2 DEF Fits
    <2>3. Answered(l, p)
      BY <1>2, <1>8, <2>1, <2>2 DEF Fits
    <2> QED
      BY <1>8, <2>1, <2>3 DEF Answered
  <1> QED
    BY <1>2, <1>3, <1>8, <1>9, <1>10, <1>11 DEF Fits

(* Further pages: whoever has more is pending again, or was cut.           *)
LEMMA PageFits ==
  ASSUME AdvisoryInv, NEW s \in Lookups, AskPage(s)
  PROVE  \E m : lookup' = [lookup EXCEPT ![s] = m] /\ Fits(m, clock, known)
  <1> DEFINE l == lookup[s]
  <1>0. PICK round \in UpTo(l.pending, BatchSize) :
            \E next \in [{t.package : t \in round} -> SUBSET Advisories] :
                /\ \A p \in DOMAIN next : next[p] \in PagesAfter(p, l.pages[p])
                /\ lookup' = [lookup EXCEPT ![s] = Paged(@, round, next)]
    BY DEF AskPage
  <1>1. PICK next \in [{t.package : t \in round} -> SUBSET Advisories] :
            /\ \A p \in DOMAIN next : next[p] \in PagesAfter(p, l.pages[p])
            /\ lookup' = [lookup EXCEPT ![s] = Paged(@, round, next)]
    BY <1>0
  <1> DEFINE m == Paged(l, round, next)
             more == {t \in round : next[t.package] # known[t.package] \ l.pages[t.package]}
             allowed == {t \in more : t.pages + 1 < MaxPages}
             pages == [p \in DOMAIN l.pages |->
                            l.pages[p] \cup IF p \in DOMAIN next THEN next[p] ELSE {}]
             pending == (l.pending \ round) \cup {[t EXCEPT !.pages = @ + 1] : t \in allowed}
  <1>2. l \in LookupRecords /\ Fits(l, clock, known) /\ l.stage = "page"
    BY DEF AdvisoryInv, Fits, AskPage
  <1>3. lookup' = [lookup EXCEPT ![s] = m]
    BY <1>1
  <1>4. round \subseteq l.pending /\ l.pending \subseteq [package : Dependencies, pages : Nat]
    BY <1>0, <1>2, UpToIs DEF LookupRecords
  <1>5. DOMAIN next = {t.package : t \in round}
    BY <1>1
  <1> HIDE DEF l
  <1>6. m = [l EXCEPT !.requests = @ + 1, !.pages = pages, !.pending = pending,
                      !.incomplete = @ \/ more # allowed]
    BY DEF Paged
  <1>7. /\ m.stage = "page" /\ m.missing = l.missing /\ m.asked = l.asked /\ m.knew = l.knew
        /\ m.pages = pages /\ m.pending = pending /\ m.since = l.since /\ m.mode = l.mode
        /\ m.packages = l.packages /\ m.locked = l.locked /\ m.records = l.records
        /\ m.incomplete = (l.incomplete \/ more # allowed)
    <2> HIDE DEF m, pages, pending, more, allowed
    <2> QED
      BY <1>2, <1>6 DEF LookupRecords
  <1>8. pages \in ListsOf /\ DOMAIN pages = DOMAIN l.pages
    <2>1. l.pages \in ListsOf
      BY <1>2 DEF LookupRecords
    <2>2. \A p \in DOMAIN next : next[p] \subseteq Advisories
      BY <1>1
    <2>3. pages \in [DOMAIN l.pages -> SUBSET Advisories]
      BY <2>1, <2>2, ListFacts
    <2> QED
      BY <2>1, <2>3, ListFacts, ListIs
  <1>9. \A t \in allowed : [t EXCEPT !.pages = @ + 1].package = t.package
            /\ [t EXCEPT !.pages = @ + 1] \in [package : Dependencies, pages : Nat]
    BY <1>4
  <1>10. pending \in SUBSET [package : Dependencies, pages : Nat]
    BY <1>4, <1>9
  <1>11. m \in LookupRecords
    <2>1. (more # allowed) \in BOOLEAN /\ l.incomplete \in BOOLEAN /\ l.requests + 1 \in Nat
      BY <1>2 DEF LookupRecords
    <2>2. (l.incomplete \/ more # allowed) \in BOOLEAN
      OBVIOUS
    <2> HIDE DEF m, pages, pending, more, allowed
    <2> QED
      BY <1>2, <1>6, <1>8, <1>10, <2>1, <2>2 DEF LookupRecords
  <1>12. ASSUME NEW p \in DOMAIN l.pages, m.incomplete # TRUE, \A t \in pending : t.package # p
         PROVE  l.knew[p] \subseteq pages[p]
    <2>1. l.incomplete # TRUE /\ more = allowed
      <3> HIDE DEF more, allowed, m
      <3> QED
        BY <1>7, <1>12
    <2>2. l.knew[p] \subseteq known[p] /\ l.pages[p] \subseteq pages[p]
      BY <1>2 DEF Fits, Paging
    <2>3. CASE \E t \in l.pending : t.package = p
      <3>1. PICK t \in l.pending : t.package = p
        BY <2>3
      <3>2. t \in round /\ t \notin allowed
        BY <1>9, <1>12, <3>1
      <3>3. next[p] = known[p] \ l.pages[p]
        BY <2>1, <3>1, <3>2
      <3>4. p \in DOMAIN next
        BY <1>5, <3>1, <3>2
      <3> QED
        BY <2>2, <3>3, <3>4
    <2>4. CASE ~\E t \in l.pending : t.package = p
      <3>1. l.knew[p] \subseteq l.pages[p]
        BY <1>2, <2>1, <2>4 DEF Fits, Paging
      <3> QED
        BY <2>2, <3>1
    <2> QED
      BY <2>3, <2>4
  <1>13. l.incomplete = TRUE => m.incomplete = TRUE
    <2> HIDE DEF more, allowed, m
    <2> QED
      BY <1>7
  <1> HIDE DEF m, pages, pending, more, allowed
  <1>14. Paging(m, known)
    BY <1>2, <1>7, <1>8, <1>12 DEF Fits, Paging
  <1>15. \A p : Answered(l, p) => Answered(m, p)
    BY <1>7 DEF Answered
  <1> QED
    BY <1>2, <1>3, <1>7, <1>8, <1>11, <1>13, <1>14, <1>15 DEF Fits

(* An entry of a package all of whose advisories were listed and fetched.  *)
LEMMA EntryTells ==
  ASSUME NEW listed \in SUBSET Advisories, NEW order \in Orders(listed), NEW at \in Nat,
         NEW knew \in SUBSET Advisories
  PROVE  LET entry == [at |-> at, groups |-> Consolidate(order), knew |-> knew]
         IN  /\ entry \in DatabaseEntries /\ entry.at = at
             /\ knew \subseteq listed => WholeEntry(entry)
  <1> DEFINE entry == [at |-> at, groups |-> Consolidate(order), knew |-> knew]
  <1>1. IsFiniteSet(listed)
    BY PackagesAssumption, FS_Subset
  <1>2. order \in Seq(SUBSET listed) /\ EachIn(listed, order)
    BY <1>1, OrdersAreWhole
  <1>3. order \in Seq(SUBSET Advisories)
    BY <1>2
  <1>4. /\ Consolidate(order) \in Seq(SUBSET Advisories)
        /\ \A i \in DOMAIN order :
                order[i] \subseteq Withdrawn \/ order[i] \subseteq ToldBy(Consolidate(order))
    BY <1>3, ConsolidateTells
  <1>5. ASSUME knew \subseteq listed PROVE knew \ Withdrawn \subseteq ToldBy(Consolidate(order))
    <2> SUFFICES ASSUME NEW a \in knew, a \notin Withdrawn PROVE a \in ToldBy(Consolidate(order))
      OBVIOUS
    <2>1. PICK i \in DOMAIN order : order[i] = {a}
      BY <1>2, <1>5 DEF EachIn
    <2> QED
      BY <1>4, <2>1
  <1>6. entry \in DatabaseEntries
    BY <1>4 DEF DatabaseEntries
  <1>7. entry.at = at /\ entry.groups = Consolidate(order) /\ entry.knew = knew
    OBVIOUS
  <1> HIDE DEF entry
  <1>8. knew \subseteq listed => WholeEntry(entry)
    BY <1>5, <1>7 DEF WholeEntry
  <1> QED
    BY <1>6, <1>7, <1>8 DEF entry

(* The packages of the batch get their entries.                            *)
LEMMA StoreFits ==
  ASSUME AdvisoryInv, NEW s \in Lookups, Store(s)
  PROVE  \E m : lookup' = [lookup EXCEPT ![s] = m] /\ Fits(m, clock, known)
  <1> DEFINE l == lookup[s]
             candidates == ListedIds(l) \ l.details
  <1>1. PICK ids \in UpTo(candidates, MaxAdvisories - Cardinality(l.details)) :
            LET details == l.details \cup (ids \ Misnamed) IN
            \E order \in [DOMAIN l.pages -> UNION {Orders(l.pages[p] \cap details) :
                                                        p \in DOMAIN l.pages}] :
                /\ \A p \in DOMAIN order : order[p] \in Orders(l.pages[p] \cap details)
                /\ LET entry(p) == [at |-> clock, groups |-> Consolidate(order[p]),
                                    knew |-> l.knew[p]]
                       With(entries) == [p \in Dependencies |->
                            IF p \in DOMAIN order THEN entry(p) ELSE entries[p]]
                   IN  lookup' = [lookup EXCEPT ![s] =
                        [l EXCEPT !.stage = IF l.missing = {} THEN "save" ELSE "ask",
                                  !.records = With(@), !.cache = With(@),
                                  !.details = details,
                                  !.pages = <<>>, !.knew = <<>>, !.pending = {},
                                  !.incomplete = @ \/ l.pending # {} \/ ids # candidates
                                                   \/ ids \cap Misnamed # {}]]
    BY DEF Store
  <1> DEFINE details == l.details \cup (ids \ Misnamed)
  <1>2. PICK order \in [DOMAIN l.pages -> UNION {Orders(l.pages[p] \cap details) :
                                                    p \in DOMAIN l.pages}] :
                /\ \A p \in DOMAIN order : order[p] \in Orders(l.pages[p] \cap details)
                /\ LET entry(p) == [at |-> clock, groups |-> Consolidate(order[p]),
                                    knew |-> l.knew[p]]
                       With(entries) == [p \in Dependencies |->
                            IF p \in DOMAIN order THEN entry(p) ELSE entries[p]]
                   IN  lookup' = [lookup EXCEPT ![s] =
                        [l EXCEPT !.stage = IF l.missing = {} THEN "save" ELSE "ask",
                                  !.records = With(@), !.cache = With(@),
                                  !.details = details,
                                  !.pages = <<>>, !.knew = <<>>, !.pending = {},
                                  !.incomplete = @ \/ l.pending # {} \/ ids # candidates
                                                   \/ ids \cap Misnamed # {}]]
    BY <1>1
  <1> DEFINE entry(p) == [at |-> clock, groups |-> Consolidate(order[p]), knew |-> l.knew[p]]
             With(entries) == [p \in Dependencies |->
                                IF p \in DOMAIN l.pages THEN entry(p) ELSE entries[p]]
             partly == l.incomplete \/ l.pending # {} \/ ids # candidates \/ ids \cap Misnamed # {}
             m == [l EXCEPT !.stage = IF l.missing = {} THEN "save" ELSE "ask",
                            !.records = With(l.records), !.cache = With(l.cache),
                            !.details = details,
                            !.pages = <<>>, !.knew = <<>>, !.pending = {}, !.incomplete = partly]
  <1>3. l \in LookupRecords /\ Fits(l, clock, known) /\ l.stage = "page" /\ clock \in Nat
    BY DEF AdvisoryInv, Fits, Store
  <1>4. lookup' = [lookup EXCEPT ![s] = m]
    BY <1>2
  <1>5. /\ ids \subseteq candidates
        /\ \A p \in DOMAIN l.pages : order[p] \in Orders(l.pages[p] \cap details)
    BY <1>1, <1>2, UpToIs
  <1> HIDE DEF l
  <1>6. /\ DOMAIN l.pages \subseteq Dependencies
        /\ \A p \in DOMAIN l.pages : l.pages[p] \subseteq Advisories
        /\ l.knew \in ListsOf /\ DOMAIN l.knew = DOMAIN l.pages
    BY <1>3, ListFacts DEF LookupRecords, Fits, Paging
  <1>7. \A p \in DOMAIN l.pages : l.knew[p] \in SUBSET Advisories
    BY <1>6, ListFacts
  <1>8. ASSUME NEW p \in DOMAIN l.pages
        PROVE  /\ entry(p) \in DatabaseEntries /\ entry(p).at = clock
               /\ l.knew[p] \subseteq l.pages[p] \cap details => WholeEntry(entry(p))
    <2> DEFINE listed == l.pages[p] \cap details
    <2>1. listed \in SUBSET Advisories /\ order[p] \in Orders(listed)
      BY <1>5, <1>6
    <2> HIDE DEF listed
    <2>2. LET e == [at |-> clock, groups |-> Consolidate(order[p]), knew |-> l.knew[p]]
          IN  /\ e \in DatabaseEntries /\ e.at = clock
              /\ l.knew[p] \subseteq listed => WholeEntry(e)
      BY <1>3, <1>7, <2>1, EntryTells
    <2> QED
      BY <2>2 DEF listed
  <1> HIDE DEF entry
  <1>9. ASSUME NEW entries \in Databases
        PROVE  /\ With(entries) \in Databases
               /\ \A p \in DOMAIN l.pages : With(entries)[p] = entry(p)
               /\ \A p \in Dependencies \ DOMAIN l.pages : With(entries)[p] = entries[p]
    BY <1>6, <1>8 DEF Databases
  <1> HIDE DEF With
  <1>10. l.records \in Databases /\ l.cache \in Databases /\ l.details \subseteq Advisories
         /\ l.packages \subseteq Dependencies
    BY <1>3 DEF LookupRecords
  <1>11. details \subseteq Advisories
    <2>1. candidates \subseteq Advisories
      BY <1>6 DEF ListedIds
    <2> QED
      BY <1>5, <1>10, <2>1
  <1>12. partly \in BOOLEAN
    OBVIOUS
  <1>13. ASSUME partly # TRUE, NEW p \in DOMAIN l.pages PROVE l.knew[p] \subseteq l.pages[p] \cap details
    <2>1. l.incomplete # TRUE /\ l.pending = {} /\ ids = candidates /\ ids \cap Misnamed = {}
      BY <1>3, <1>13 DEF LookupRecords
    <2>2. l.knew[p] \subseteq l.pages[p]
      BY <1>3, <2>1 DEF Fits, Paging
    <2>3. l.pages[p] \subseteq ListedIds(l)
      BY DEF ListedIds
    <2> QED
      BY <2>1, <2>2, <2>3
  <1>14. partly # TRUE => l.incomplete # TRUE
    BY <1>3 DEF LookupRecords
  <1> HIDE DEF details, partly, candidates
  <1>15. /\ m.stage = (IF l.missing = {} THEN "save" ELSE "ask") /\ m.missing = l.missing
         /\ m.asked = l.asked /\ m.knew = <<>> /\ m.pages = <<>> /\ m.since = l.since
         /\ m.mode = l.mode /\ m.packages = l.packages /\ m.locked = l.locked /\ m.records = With(l.records)
         /\ m.incomplete = partly
    BY <1>3 DEF LookupRecords
  <1>16. m \in LookupRecords
    BY <1>3, <1>9, <1>10, <1>11, <1>12, NoListIs DEF LookupRecords, LookupStages
  <1> HIDE DEF m
  <1>17. ASSUME partly # TRUE, NEW p \in l.packages, p \notin l.missing PROVE Answered(m, p)
    <2>1. CASE p \in DOMAIN l.pages
      <3>1. m.records[p] = entry(p)
        BY <1>9, <1>10, <1>15, <2>1
      <3>2. entry(p) \in DatabaseEntries /\ entry(p).at = clock /\ WholeEntry(entry(p))
        BY <1>8, <1>13, <1>17, <2>1
      <3>3. m.since <= clock
        BY <1>3, <1>15 DEF Fits
      <3>4. p \in m.asked
        BY <1>3, <1>15, <2>1 DEF Fits
      <3> QED
        BY <3>1, <3>2, <3>3, <3>4, AbsentAssumption DEF Answered
    <2>2. CASE p \notin DOMAIN l.pages
      <3>1. m.records[p] = l.records[p]
        BY <1>9, <1>10, <1>15, <1>17, <2>2
      <3>2. Answered(l, p)
        BY <1>3, <1>14, <1>17, <2>2 DEF Fits
      <3> QED
        BY <1>15, <3>1, <3>2 DEF Answered
    <2> QED
      BY <2>1, <2>2
  <1> QED
    BY <1>3, <1>4, <1>15, <1>16, <1>17, NoListIs DEF Fits, Paging

(* A lookup that fits fits later, when more is known.                      *)
LEMMA FitsLater ==
  ASSUME NEW l, NEW now \in Nat, NEW later \in Nat, NEW facts, NEW more,
         Fits(l, now, facts), now <= later, \A p \in Dependencies : facts[p] \subseteq more[p]
  PROVE  Fits(l, later, more)
  <1>1. l \in LookupRecords /\ l.since \in Nat /\ DOMAIN l.pages \subseteq Dependencies
    BY ListFacts DEF Fits, LookupRecords
  <1>2. Paging(l, more)
    BY <1>1 DEF Fits, Paging
  <1> QED
    BY <1>1, <1>2 DEF Fits

(* One lookup moves; the clock, what is known and the database stay.       *)
LEMMA OneMoves ==
  ASSUME AdvisoryInv, UNCHANGED <<clock, known, database>>, NEW s \in Lookups,
         \E m : lookup' = [lookup EXCEPT ![s] = m] /\ Fits(m, clock, known)
  PROVE  AdvisoryInv'
  <1>1. PICK m : lookup' = [lookup EXCEPT ![s] = m] /\ Fits(m, clock, known)
    OBVIOUS
  <1>2. DOMAIN lookup' = Lookups
    BY <1>1 DEF AdvisoryInv
  <1>3. \A t \in Lookups : Fits(lookup'[t], clock, known)
    BY <1>1 DEF AdvisoryInv
  <1> QED
    BY <1>2, <1>3 DEF AdvisoryInv

LEMMA SavedFits ==
  ASSUME AdvisoryInv, NEW s \in Lookups, SaveDatabase(s)
  PROVE  AdvisoryInv'
  <1> DEFINE l == lookup[s]
             m == [l EXCEPT !.stage = "report", !.cache = NoEntries]
  <1>1. Fits(l, clock, known) /\ l \in LookupRecords /\ l.stage = "save"
    BY DEF AdvisoryInv, Fits, SaveDatabase
  <1>2. lookup' = [lookup EXCEPT ![s] = m] /\ database' = l.cache /\ UNCHANGED <<clock, known>>
    BY DEF SaveDatabase
  <1> HIDE DEF l
  <1>3. /\ m.stage = "report" /\ m.missing = l.missing /\ m.asked = l.asked /\ m.knew = l.knew
        /\ m.pages = l.pages /\ m.since = l.since /\ m.mode = l.mode /\ m.pending = l.pending
        /\ m.packages = l.packages /\ m.locked = l.locked /\ m.records = l.records /\ m.incomplete = l.incomplete
    BY <1>1 DEF LookupRecords
  <1>4. m \in LookupRecords /\ l.cache \in Databases
    BY <1>1, NoEntriesAre DEF LookupRecords, LookupStages
  <1> HIDE DEF m
  <1>5. Paging(m, known)
    BY <1>1, <1>3 DEF Fits, Paging
  <1>6. \A p : Answered(l, p) => Answered(m, p)
    BY <1>3 DEF Answered
  <1>7. Fits(m, clock, known)
    BY <1>1, <1>3, <1>4, <1>5, <1>6 DEF Fits
  <1>8. DOMAIN lookup' = Lookups /\ \A t \in Lookups : Fits(lookup'[t], clock, known)
    BY <1>2, <1>7 DEF AdvisoryInv
  <1> QED
    BY <1>2, <1>4, <1>8 DEF AdvisoryInv

LEMMA AdvisoryInvHolds == AdvisorySpec => []AdvisoryInv
  <1>1. AdvisoryInit => AdvisoryInv
    <2> SUFFICES ASSUME AdvisoryInit PROVE AdvisoryInv
      OBVIOUS
    <2>1. clock \in Nat
      BY HoursAssumption DEF AdvisoryInit
    <2> QED
      BY <2>1, HoursAssumption, NoEntriesAre, NoLookupFits DEF AdvisoryInit, AdvisoryInv
  <1>2. AdvisoryInv /\ [AdvisoryNext]_advisoryVars => AdvisoryInv'
    <2> SUFFICES ASSUME AdvisoryInv, [AdvisoryNext]_advisoryVars PROVE AdvisoryInv'
      OBVIOUS
    <2>1. ASSUME NEW s \in Lookups, LookupStep(s) PROVE AdvisoryInv'
      <3>1. ASSUME NEW mode \in Modes, BeginLookup(s, mode) PROVE AdvisoryInv'
        BY <3>1, BeginFits, OneMoves DEF BeginLookup
      <3>2. CASE AskBatch(s)
        BY <3>2, AskFits, OneMoves DEF AskBatch
      <3>3. CASE AskPage(s)
        BY <3>3, PageFits, OneMoves DEF AskPage
      <3>4. CASE Store(s)
        BY <3>4, StoreFits, OneMoves DEF Store
      <3>5. CASE SaveDatabase(s)
        BY <3>5, SavedFits
      <3>6. CASE LookupFails(s) \/ EndLookup(s)
        <4>1. /\ lookup' = [lookup EXCEPT ![s] = NoLookup]
              /\ UNCHANGED <<clock, known, database>>
          BY <3>6 DEF LookupFails, EndLookup
        <4>2. Fits(NoLookup, clock, known)
          BY NoLookupFits DEF AdvisoryInv
        <4> QED
          BY <4>1, <4>2, OneMoves
      <3> QED
        BY <2>1, <3>1, <3>2, <3>3, <3>4, <3>5, <3>6 DEF LookupStep
    <2>2. ASSUME NEW p \in Dependencies, NEW a \in Advisories, PublishAdvisory(p, a)
          PROVE  AdvisoryInv'
      <3>1. /\ known' \in [Dependencies -> SUBSET Advisories]
            /\ \A q \in Dependencies : known[q] \subseteq known'[q]
        BY <2>2 DEF PublishAdvisory, AdvisoryInv
      <3>2. UNCHANGED <<clock, database, lookup>> /\ clock \in Nat
        BY <2>2 DEF PublishAdvisory, AdvisoryInv
      <3>3. \A t \in Lookups : Fits(lookup[t], clock, known')
        BY <3>1, <3>2, FitsLater DEF AdvisoryInv
      <3> QED
        BY <3>1, <3>2, <3>3 DEF AdvisoryInv
    <2>3. ASSUME NEW lost \in SUBSET Dependencies, Overwrite(lost) PROVE AdvisoryInv'
      BY <2>3 DEF Overwrite, AdvisoryInv, Databases
    <2>4. CASE Tick
      <3>1. clock \in Nat /\ clock' = clock + 1 /\ UNCHANGED <<known, database, lookup>>
        BY <2>4 DEF Tick, AdvisoryInv
      <3>2. clock' \in Nat /\ clock <= clock' /\ clock' >= CacheHours
        BY <3>1, HoursAssumption DEF AdvisoryInv
      <3>3. \A t \in Lookups : Fits(lookup[t], clock', known)
        BY <3>1, <3>2, FitsLater DEF AdvisoryInv
      <3> QED
        BY <3>1, <3>2, <3>3 DEF AdvisoryInv
    <2>5. CASE UNCHANGED advisoryVars
      BY <2>5 DEF advisoryVars, AdvisoryInv
    <2> QED
      BY <2>1, <2>2, <2>3, <2>4, <2>5 DEF AdvisoryNext
  <1> QED
    BY <1>1, <1>2, PTL DEF AdvisorySpec

(* A lookup that is completed tells of every locked package that it may    *)
(* take up: of one that was asked about each advisory that was known then, *)
(* of the others what the database has, no older than the hours that were  *)
(* given.                                                                  *)
THEOREM AdvisoriesHold == AdvisorySpec => []AdvisoriesAreTold
  <1>1. AdvisoryInv => AdvisoriesAreTold
    <2> SUFFICES ASSUME AdvisoryInv, NEW s \in Lookups, lookup[s].stage = "report",
                        LookupStatus(lookup[s]) = "completed",
                        NEW i \in DOMAIN lookup[s].locked, i <= MaxPackages,
                        NEW p, p = lookup[s].locked[i]
                 PROVE  /\ lookup[s].records[p] # Absent
                        /\ p \in lookup[s].asked => WholeEntry(lookup[s].records[p])
                        /\ lookup[s].mode # "local" => lookup[s].records[p].at >= lookup[s].since
                        /\ lookup[s].mode = "refresh" => p \in lookup[s].asked
      BY DEF AdvisoriesAreTold, Ended
    <2> DEFINE l == lookup[s]
    <2>1. Fits(l, clock, known) /\ l.incomplete \in BOOLEAN
      BY DEF AdvisoryInv, Fits, LookupRecords
    <2>2. l.stage = "report" /\ LookupStatus(l) = "completed" /\ p \in TakenUp(l.locked)
      BY DEF TakenUp
    <2> HIDE DEF l
    <2>3. l.incomplete = FALSE /\ (l.mode = "local" => Covered(l) = l.packages)
      BY <2>1, <2>2 DEF LookupStatus
    <2>4. p \in l.packages /\ Answered(l, p)
      BY <2>1, <2>2, <2>3 DEF Fits
    <2>5. l.records[p] # Absent
      BY <2>3, <2>4 DEF Answered, Covered
    <2> QED
      BY <2>4, <2>5 DEF Answered, l
  <1> QED
    BY <1>1, AdvisoryInvHolds, PTL
=============================================================================
