------------------------------- MODULE Gates --------------------------------
(***************************************************************************)
(* What is decided from a report: its comparison with an earlier one       *)
(* (src/domain/comparison.ts), the policy profiles (policy.ts) and the     *)
(* older severity gates (ci.ts).  All of it are functions of reports.      *)
(*                                                                         *)
(* A finding has a fingerprint (source, rule, file and line), a lifecycle  *)
(* key (source, rule and the text of its evidence, without lines), the     *)
(* evidence itself, a severity, a confidence, a disposition and at most    *)
(* one suppression.  Times are numbers; a suppression without an expiry    *)
(* has "until" 0.                                                          *)
(***************************************************************************)
EXTENDS Naturals, Sequences, FiniteSets

Severities == {"critical", "high", "medium", "low", "info"}
Confidences == {"high", "medium", "low"}
Profiles == {"advisory", "balanced", "strict"}
Decisions == {"confirmed", "false_positive", "accepted_risk"}
Dispositions == {"needs_review", "fixed"} \cup Decisions

Rank == [critical |-> 0, high |-> 1, medium |-> 2, low |-> 3, info |-> 4]

(* Is severity s as grave as t, or graver?                                 *)
AtLeast(s, t) == Rank[s] <= Rank[t]

ElementsOf(s) == {s[i] : i \in DOMAIN s}

-----------------------------------------------------------------------------
(* compareReports: the findings that are new, which a gate may block on.   *)

LifecycleKeys(report) == {f.key : f \in ElementsOf(report.findings)}

NewFindings(base, current) ==
    {f \in ElementsOf(current.findings) : f.key \notin LifecycleKeys(base)}

-----------------------------------------------------------------------------
(* buildPolicyResult.                                                      *)

Resolved(f) == f.disposition \in {"fixed", "false_positive", "accepted_risk"}

ActiveSuppression(f, at) ==
    \E s \in f.suppression : s.until = 0 \/ s.until > at

MeetsFindingCriteria(f, profile) ==
    CASE profile = "balanced" ->
            AtLeast(f.severity, "high") /\ f.confidence \in {"medium", "high"}
      [] profile = "strict" -> AtLeast(f.severity, "medium")
      [] OTHER -> TRUE

BlocksCoverage(status, profile) ==
    \/ profile # "advisory" /\ status = "FAILED"
    \/ profile = "strict" /\ status = "PARTIAL"

(* The findings a profile looks at: with a baseline, balanced looks at the *)
(* new ones only.  bases holds the baseline, if there is one.              *)
Scoped(report, profile, bases) ==
    LET new == {f.fingerprint : f \in UNION {NewFindings(b, report) : b \in bases}}
    IN  {f \in ElementsOf(report.findings) :
            bases # {} /\ profile = "balanced" => f.fingerprint \in new}

GatedFindings(report, profile, bases) ==
    IF profile = "advisory" THEN {}
    ELSE {f \in Scoped(report, profile, bases) :
            /\ ~Resolved(f)
            /\ ~ActiveSuppression(f, report.created)
            /\ MeetsFindingCriteria(f, profile)}

(* Mutant: a truncated snapshot does not block by itself.                  *)
CoverageBlocksIfFailed(report, profile) ==
    \E status \in report.coverage : BlocksCoverage(status, profile)

CoverageBlocks(report, profile) ==
    \/ report.truncated /\ profile # "advisory"
    \/ \E status \in report.coverage : BlocksCoverage(status, profile)

PolicyExit(report, profile, bases) ==
    IF profile = "advisory" THEN 0
    ELSE IF CoverageBlocks(report, profile) THEN 2
    ELSE IF GatedFindings(report, profile, bases) # {} THEN 1
    ELSE 0

-----------------------------------------------------------------------------
(* The gates of --fail-on: ciGate without and baselineCiGate with a        *)
(* baseline.  Neither looks at coverage; the second does not look at       *)
(* dispositions, which a reference to a finding does not carry.            *)

SeverityExit(report, threshold, bases) ==
    LET gated == IF bases = {}
                 THEN {f \in ElementsOf(report.findings) :
                            ~Resolved(f) /\ f.suppression = {} /\ AtLeast(f.severity, threshold)}
                 ELSE {f \in UNION {NewFindings(b, report) : b \in bases} :
                            f.suppression = {} /\ AtLeast(f.severity, threshold)}
    IN  IF gated = {} THEN 0 ELSE 1
=============================================================================
