------------------------------ MODULE Ledgers -------------------------------
(***************************************************************************)
(* The portable ledgers that a person keeps beside a report                *)
(* (src/domain/review-ledger.ts, suppression-ledger.ts): how an entry is   *)
(* made from a finding, and when it applies to a later report.  A ledger   *)
(* is [project, entries], with at most one entry for a fingerprint;        *)
(* ledgers that may be missing are sets of at most one.                    *)
(*                                                                         *)
(* The evidence of a finding is a set of [id, file, digest]: the identity  *)
(* of the piece, its file, and the digest of that file's content.          *)
(***************************************************************************)
EXTENDS Gates

Digests(f) == {e.digest : e \in f.evidence}
Paths(f) == {e.file : e \in f.evidence}

FindingOf(report, fingerprint) ==
    {f \in ElementsOf(report.findings) : f.fingerprint = fingerprint}

(* The ledger after an entry: it replaces the one of its fingerprint.      *)
Upsert(ledgers, project, entry) ==
    [project |-> project,
     entries |-> {entry} \cup {e \in UNION {l.entries : l \in ledgers} :
                                    e.fingerprint # entry.fingerprint}]

(* A ledger of another project is refused.                                 *)
Belongs(ledgers, project) == \A l \in ledgers : l.project = project

-----------------------------------------------------------------------------
(* Review decisions.                                                       *)

ReviewEntry(report, f, decision) ==
    [fingerprint |-> f.fingerprint, digests |-> Digests(f),
     audit |-> report.audit, decision |-> decision]

(* An entry applies to the finding whose files are what they were.         *)
ReviewApplies(entry, f) ==
    entry.fingerprint = f.fingerprint /\ entry.digests = Digests(f)

ApplyReviewLedger(report, ledger) ==
    [report EXCEPT !.findings = [i \in DOMAIN report.findings |->
        LET f == report.findings[i]
            applicable == {e \in ledger.entries : ReviewApplies(e, f)}
        IN  IF applicable = {} THEN f
            ELSE [f EXCEPT !.disposition = (CHOOSE e \in applicable : TRUE).decision]]]

-----------------------------------------------------------------------------
(* Suppressions.                                                           *)

SuppressionEntry(report, f, until) ==
    [fingerprint |-> f.fingerprint, rule |-> f.rule, paths |-> Paths(f),
     digests |-> Digests(f), audit |-> report.audit, until |-> until]

SuppressionApplies(entry, f, at) ==
    /\ entry.fingerprint = f.fingerprint
    /\ entry.rule = f.rule
    /\ entry.paths = Paths(f)
    /\ entry.digests = Digests(f)
    /\ entry.until = 0 \/ entry.until > at

ApplySuppressionLedger(report, ledger) ==
    [report EXCEPT !.findings = [i \in DOMAIN report.findings |->
        LET f == report.findings[i]
            applicable == {e \in ledger.entries : SuppressionApplies(e, f, report.created)}
        IN  IF applicable = {} THEN f
            ELSE [f EXCEPT !.suppression = {[until |-> e.until] : e \in applicable}]]]
=============================================================================
