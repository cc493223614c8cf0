---------------------------- MODULE ReportProofs ------------------------------
(* Theorems about what a report is made of, and what is later written in it: *)
(* ReportReviews, for any projects, findings and numbers of audits, grants *)
(* and revisions, ProjectProfile, for any projects and any limits, and     *)
(* Contracts, for any projects and any limits.                             *)
EXTENDS ReportReviews, ProjectProfile, Contracts, FiniteSetTheorems, TLAPS

(***************************************************************************)
(* The trail of a report: what is approved, marked and granted.            *)
(***************************************************************************)

Revisions == [source : Sources, report : Reports]

Typed == TypeOK /\ revisions \in [AuditIds -> Seq(Revisions)]

(* Deciding about a finding, or marking it, gives a report again.          *)
LEMMA MarkedReports ==
    ASSUME NEW r \in Reports, NEW f \in DOMAIN r
    PROVE  /\ \A d \in Dispositions : [r EXCEPT ![f].disposition = d] \in Reports
           /\ \A g \in 0..MaxGrants : [r EXCEPT ![f].grant = g] \in Reports
  <1>1. PICK F \in SUBSET Fingerprints : r \in [F -> Entries]
    BY DEF Reports
  <1>2. f \in F
    BY <1>1
  <1>3. ASSUME NEW d \in Dispositions
        PROVE  [r EXCEPT ![f].disposition = d] \in [F -> Entries]
    BY <1>1, <1>2 DEF Entries
  <1>4. ASSUME NEW g \in 0..MaxGrants
        PROVE  [r EXCEPT ![f].grant = g] \in [F -> Entries]
    BY <1>1, <1>2 DEF Entries
  <1> QED
    BY <1>3, <1>4 DEF Reports

(* Every revision of a typed trail has a known source and a report.        *)
LEMMA RevisionTypes ==
    ASSUME revisions \in [AuditIds -> Seq(Revisions)],
           NEW a \in AuditIds, NEW i \in DOMAIN revisions[a]
    PROVE  revisions[a][i].source \in Sources /\ revisions[a][i].report \in Reports
  <1>1. revisions[a] \in Seq(Revisions)
    OBVIOUS
  <1>2. revisions[a][i] \in Revisions
    BY <1>1
  <1> QED
    BY <1>2 DEF Revisions

(* What it means to store a report: one revision more, of that report.     *)
LEMMA Stored ==
    ASSUME Typed, NEW a \in AuditIds, NEW r \in Reports, NEW s \in Sources,
           Store(a, r, s)
    PROVE  /\ report' \in [AuditIds -> Reports]
           /\ revisions' \in [AuditIds -> Seq(Revisions)]
           /\ report'[a] = r
           /\ \A b \in AuditIds \ {a} :
                report'[b] = report[b] /\ revisions'[b] = revisions[b]
           /\ revisions'[a] = Append(revisions[a], [source |-> s, report |-> r])
           /\ Len(revisions'[a]) = Len(revisions[a]) + 1
           /\ revisions'[a][Len(revisions'[a])] = [source |-> s, report |-> r]
           /\ \A i \in DOMAIN revisions[a] :
                i \in DOMAIN revisions'[a] /\ revisions'[a][i] = revisions[a][i]
  <1> DEFINE entry == [source |-> s, report |-> r]
  <1>1. entry \in Revisions
    BY DEF Revisions
  <1>2. revisions[a] \in Seq(Revisions)
    BY DEF Typed
  <1>3. /\ Append(revisions[a], entry) \in Seq(Revisions)
        /\ Len(Append(revisions[a], entry)) = Len(revisions[a]) + 1
        /\ Append(revisions[a], entry)[Len(revisions[a]) + 1] = entry
        /\ \A i \in DOMAIN revisions[a] :
             /\ i \in DOMAIN Append(revisions[a], entry)
             /\ Append(revisions[a], entry)[i] = revisions[a][i]
    BY <1>1, <1>2
  <1>4. /\ report' = [report EXCEPT ![a] = r]
        /\ revisions' = [revisions EXCEPT ![a] = Append(@, entry)]
    BY DEF Store
  <1>5. report \in [AuditIds -> Reports] /\ revisions \in [AuditIds -> Seq(Revisions)]
    BY DEF Typed, TypeOK
  <1>6. report' \in [AuditIds -> Reports] /\ report'[a] = r
    BY <1>4, <1>5
  <1>7. revisions'[a] = Append(revisions[a], entry)
    BY <1>4, <1>5
  <1>8. revisions' \in [AuditIds -> Seq(Revisions)]
    BY <1>3, <1>4, <1>5
  <1>9. \A b \in AuditIds \ {a} : report'[b] = report[b] /\ revisions'[b] = revisions[b]
    BY <1>4, <1>5
  <1> HIDE DEF entry
  <1> QED
    BY <1>3, <1>6, <1>7, <1>8, <1>9 DEF entry

-----------------------------------------------------------------------------
Owned ==
    /\ \A a \in AuditIds : stage[a] # "absent" => owner[a] \in Projects
    /\ \A a \in AuditIds : stage[a] = "absent" => a \notin reported /\ draft[a] = {}

(* An audit that has saved nothing has no findings to mark.                *)
Blank == \A a \in AuditIds : a \notin reported => report[a] = NoFindings

(* The choice of a baseline is as good as the baseline itself.             *)
ChoiceIsUsable ==
    choice # NoChoice => stage[choice] = "completed" /\ choice \in reported

(* A draft marks only what was granted, whatever was removed since.        *)
DraftsWereGranted ==
    \A a \in AuditIds : \A r \in draft[a] : \A f \in DOMAIN r :
        r[f].grant # 0 => GrantedIn(owner[a], f, r[f].grant)

ReviewInv ==
    /\ Typed /\ Owned /\ Blank
    /\ TrailIsComplete
    /\ ChoiceIsUsable /\ BaselineIsUsable
    /\ DraftsWereGranted /\ MarksWereGranted

(* An audit that is queued or moves keeps its types and its owner.         *)
LEMMA Moved ==
    ASSUME Typed, NEW a \in AuditIds, NEW from, NEW to, Move(a, from, to)
    PROVE  /\ stage[a] \in from
           /\ stage'[a] = to
           /\ \A b \in AuditIds \ {a} : stage'[b] = stage[b]
           /\ to \in Active \cup {"completed", "failed", "cancelled"} =>
                stage' \in [AuditIds -> Active \cup {"absent", "completed", "failed", "cancelled"}]
  BY DEF Typed, TypeOK, Move

(* A grant stays where it was recorded.                                    *)
LEMMA GrantsRemain ==
    ASSUME NEW p, NEW f, NEW g, GrantedIn(p, f, g),
           \A a \in AuditIds : revisions[a] # <<>> => owner'[a] = owner[a],
           \A a \in AuditIds : \A i \in DOMAIN revisions[a] :
               i \in DOMAIN revisions'[a] /\ revisions'[a][i] = revisions[a][i]
    PROVE  GrantedIn(p, f, g)'
  <1>0. PICK a \in AuditIds :
            /\ owner[a] = p
            /\ \E i \in DOMAIN revisions[a] :
                 /\ revisions[a][i].source = "suppression"
                 /\ f \in DOMAIN revisions[a][i].report
                 /\ revisions[a][i].report[f].grant = g
    BY DEF GrantedIn
  <1>1. PICK i \in DOMAIN revisions[a] :
            /\ revisions[a][i].source = "suppression"
            /\ f \in DOMAIN revisions[a][i].report
            /\ revisions[a][i].report[f].grant = g
    BY <1>0
  <1>2. revisions[a] # <<>>
    BY <1>1
  <1> QED
    BY <1>0, <1>1, <1>2 DEF GrantedIn

(* What storing a report does to the trail and to the grants.              *)
LEMMA StoreKeeps ==
    ASSUME ReviewInv, NEW a \in AuditIds, NEW r \in Reports, NEW s \in Sources,
           Store(a, r, s), reported' = reported \cup {a}, UNCHANGED <<stage, owner>>
    PROVE  /\ TrailIsComplete' /\ Blank'
           /\ \A p, f, g : GrantedIn(p, f, g) => GrantedIn(p, f, g)'
           /\ BaselineIsUsable /\ UNCHANGED baseline => BaselineIsUsable'
           /\ UNCHANGED choice => ChoiceIsUsable'
           /\ UNCHANGED draft => DraftsWereGranted'
  <1> DEFINE entry == [source |-> s, report |-> r]
  <1>1. Typed /\ TrailIsComplete /\ Blank
    BY DEF ReviewInv
  <1>2. /\ report'[a] = r
        /\ \A b \in AuditIds \ {a} :
             report'[b] = report[b] /\ revisions'[b] = revisions[b]
        /\ revisions'[a] = Append(revisions[a], entry)
        /\ Len(revisions'[a]) = Len(revisions[a]) + 1
        /\ revisions'[a][Len(revisions'[a])] = entry
        /\ \A i \in DOMAIN revisions[a] :
             i \in DOMAIN revisions'[a] /\ revisions'[a][i] = revisions[a][i]
    BY <1>1, Stored
  <1>3. revisions'[a] # <<>>
    <2>1. Len(revisions[a]) \in Nat
      BY <1>1 DEF Typed
    <2> QED
      BY <1>2, <2>1
  <1>4. revisions'[a][Len(revisions'[a])].report = r
    BY <1>2
  <1> HIDE DEF entry
  <1>5. TrailIsComplete'
    BY <1>1, <1>2, <1>3, <1>4 DEF TrailIsComplete
  <1>6. Blank'
    BY <1>1, <1>2 DEF Blank
  <1>7. ASSUME NEW p, NEW f, NEW g, GrantedIn(p, f, g) PROVE GrantedIn(p, f, g)'
    <2>1. \A b \in AuditIds : \A i \in DOMAIN revisions[b] :
             i \in DOMAIN revisions'[b] /\ revisions'[b][i] = revisions[b][i]
      BY <1>2
    <2> QED
      BY <1>7, <2>1, GrantsRemain
  <1>8. BaselineIsUsable /\ UNCHANGED baseline => BaselineIsUsable'
    BY DEF BaselineIsUsable
  <1>9. UNCHANGED choice => ChoiceIsUsable'
    BY DEF ReviewInv, ChoiceIsUsable
  <1>10. UNCHANGED draft => DraftsWereGranted'
    BY <1>7 DEF ReviewInv, DraftsWereGranted
  <1> QED
    BY <1>5, <1>6, <1>7, <1>8, <1>9, <1>10

(* What a step that moves one audit, and stores nothing, must keep.        *)
LEMMA MoveKeeps ==
    ASSUME ReviewInv, UNCHANGED <<contents, ledger, selection, reported>>,
           \A a \in AuditIds : stage[a] # "absent" => owner'[a] = owner[a],
           \A a \in AuditIds : stage[a] = "completed" => stage'[a] = "completed"
    PROVE  /\ TrailIsComplete' /\ Blank'
           /\ ChoiceIsUsable' /\ BaselineIsUsable' /\ MarksWereGranted'
           /\ \A p, f, g : GrantedIn(p, f, g) => GrantedIn(p, f, g)'
  <1>1. Typed /\ Owned /\ TrailIsComplete /\ Blank
    BY DEF ReviewInv
  <1>2. UNCHANGED <<report, revisions, exceptions, expired, grants, baseline, choice, reported>>
    BY DEF contents, ledger, selection
  <1>3. TrailIsComplete' /\ Blank'
    BY <1>1, <1>2 DEF TrailIsComplete, Blank
  <1>4. \A a \in AuditIds : revisions[a] # <<>> => owner'[a] = owner[a]
    BY <1>1 DEF TrailIsComplete, Owned
  <1>5. ASSUME NEW p, NEW f, NEW g, GrantedIn(p, f, g) PROVE GrantedIn(p, f, g)'
    BY <1>2, <1>4, <1>5, GrantsRemain
  <1>6. ChoiceIsUsable'
    BY <1>1, <1>2 DEF ReviewInv, ChoiceIsUsable, Typed, TypeOK
  <1>7. BaselineIsUsable'
    <2>1. ASSUME NEW p \in Projects, baseline[p] # 0
          PROVE  /\ stage'[baseline[p]] = "completed"
                 /\ owner'[baseline[p]] = p
                 /\ baseline[p] \in reported
      <3>1. baseline[p] \in AuditIds
        BY <1>1, <2>1 DEF Typed, TypeOK
      <3>2. /\ stage[baseline[p]] = "completed"
            /\ owner[baseline[p]] = p
            /\ baseline[p] \in reported
        BY <2>1 DEF ReviewInv, BaselineIsUsable
      <3> QED
        BY <3>1, <3>2
    <2> QED
      BY <1>2, <2>1 DEF BaselineIsUsable
  <1>8. MarksWereGranted'
    <2>1. ASSUME NEW a \in AuditIds, NEW f \in DOMAIN report[a], report[a][f].grant # 0
          PROVE  GrantedIn(owner[a], f, report[a][f].grant)' /\ owner'[a] = owner[a]
      <3>1. a \in reported
        BY <1>1, <2>1 DEF Blank, NoFindings
      <3>2. owner'[a] = owner[a]
        BY <1>1, <3>1 DEF Owned
      <3>3. GrantedIn(owner[a], f, report[a][f].grant)
        BY <2>1 DEF ReviewInv, MarksWereGranted
      <3> HIDE DEF GrantedIn
      <3>4. \A q, h : GrantedIn(q, f, h) => GrantedIn(q, f, h)'
        BY <1>5
      <3> QED
        BY <1>2, <3>2, <3>3, <3>4
    <2>2. ASSUME NEW p \in Projects, NEW f \in Fingerprints, exceptions[p][f] # 0
          PROVE  GrantedIn(p, f, exceptions[p][f])'
      <3>1. GrantedIn(p, f, exceptions[p][f])
        BY <2>2 DEF ReviewInv, MarksWereGranted
      <3> QED
        BY <1>2, <1>5, <3>1
    <2> QED
      BY <1>2, <2>1, <2>2 DEF MarksWereGranted
  <1> QED
    BY <1>3, <1>5, <1>6, <1>7, <1>8

-----------------------------------------------------------------------------
(* The store starts in the invariant, a legacy audit that waits included.  *)
LEMMA ReviewInit == InitAll => ReviewInv
  <1> SUFFICES ASSUME InitAll PROVE ReviewInv
    OBVIOUS
  <1> DEFINE marks == [f \in Fingerprints |-> [disposition |-> "needs_review", grant |-> 0]]
  <1>1. /\ stage \in [AuditIds -> {"absent", "awaiting_review"}]
        /\ owner \in [AuditIds -> Projects \cup {NoProject}]
        /\ \A a \in AuditIds : stage[a] = "absent" <=> owner[a] = NoProject
        /\ reported = {a \in AuditIds : stage[a] # "absent"}
    BY DEF InitAll, Init
  <1>2. marks \in Reports
    <2>1. [disposition |-> "needs_review", grant |-> 0] \in Entries
      BY BoundsAssumption DEF Entries
    <2>2. marks \in [Fingerprints -> Entries]
      BY <2>1
    <2> QED
      BY <2>2 DEF Reports
  <1>3. NoFindings \in Reports
    <2>1. NoFindings \in [{} -> Entries]
      BY DEF NoFindings
    <2> QED
      BY <2>1 DEF Reports
  <1>4. /\ report = [a \in AuditIds |-> IF a \in reported THEN marks ELSE NoFindings]
        /\ revisions = [a \in AuditIds |->
              IF a \in reported THEN <<[source |-> "workflow", report |-> report[a]]>> ELSE <<>>]
    BY DEF InitAll
  <1>5. \A a \in AuditIds : \A f \in DOMAIN report[a] : report[a][f].grant = 0
    BY <1>4 DEF NoFindings
  <1> HIDE DEF marks
  <1>6. report \in [AuditIds -> Reports]
    BY <1>2, <1>3, <1>4
  <1>7. revisions \in [AuditIds -> Seq(Revisions)]
    <2>1. \A a \in AuditIds : [source |-> "workflow", report |-> report[a]] \in Revisions
      BY <1>6 DEF Revisions, Sources
    <2> QED
      BY <1>4, <2>1
  <1>8. \A a \in AuditIds : \A i \in DOMAIN revisions[a] :
            revisions[a][i].source \in Sources /\ revisions[a][i].report \in Reports
    BY <1>7, RevisionTypes
  <1>9. /\ exceptions = [p \in Projects |-> [f \in Fingerprints |-> 0]]
        /\ expired = {} /\ grants = 0 /\ saved = {} /\ choice = NoChoice
        /\ draft = [a \in AuditIds |-> {}]
        /\ baseline = [p \in Projects |-> 0]
    BY DEF InitAll
  <1>10. Typed
    BY <1>1, <1>6, <1>7, <1>8, <1>9, BoundsAssumption DEF Typed, TypeOK, Active
  <1>11. Owned
    BY <1>1, <1>9 DEF Owned
  <1>12. Blank
    BY <1>4 DEF Blank
  <1>13. TrailIsComplete
    BY <1>1, <1>4 DEF TrailIsComplete
  <1>14. ChoiceIsUsable /\ BaselineIsUsable
    BY <1>9 DEF ChoiceIsUsable, BaselineIsUsable
  <1>15. DraftsWereGranted /\ MarksWereGranted
    BY <1>5, <1>9 DEF DraftsWereGranted, MarksWereGranted
  <1> QED
    BY <1>10, <1>11, <1>12, <1>13, <1>14, <1>15 DEF ReviewInv

(* Drafts and marks are kept while grants remain and neither changes.      *)
LEMMA DraftsKeep ==
    ASSUME ReviewInv,
           \A p, f, g : GrantedIn(p, f, g) => GrantedIn(p, f, g)',
           \A a \in AuditIds : stage[a] # "absent" => owner'[a] = owner[a],
           \A a \in AuditIds : draft'[a] \subseteq draft[a]
    PROVE  DraftsWereGranted'
  <1>1. ASSUME NEW a \in AuditIds, NEW r \in draft'[a], NEW f \in DOMAIN r, r[f].grant # 0
        PROVE  GrantedIn(owner[a], f, r[f].grant)'
    <2>1. r \in draft[a] /\ stage[a] # "absent"
      BY DEF ReviewInv, Owned
    <2>2. GrantedIn(owner[a], f, r[f].grant)
      BY <1>1, <2>1 DEF ReviewInv, DraftsWereGranted
    <2>3. owner'[a] = owner[a]
      BY <2>1
    <2> HIDE DEF GrantedIn
    <2> QED
      BY <2>2, <2>3
  <1> QED
    BY <1>1 DEF DraftsWereGranted

(* The steps that move an audit: it is queued, begins, ends, is published, *)
(* cancelled or given up.                                                  *)
LEMMA LifecycleSteps ==
    ASSUME ReviewInv, NEW a \in AuditIds,
           \/ \E p \in Projects : Enqueue(a, p)
           \/ Run(a) \/ Finish(a) \/ GiveUp(a) \/ Resume(a) \/ Withdraw(a)
    PROVE  ReviewInv'
  <1>1. Typed /\ Owned
    BY DEF ReviewInv
  <1>2. /\ UNCHANGED <<contents, ledger, selection, reported>>
        /\ saved' \in SUBSET AuditIds
        /\ \A b \in AuditIds : draft'[b] \in {draft[b], {}}
        /\ draft' \in [AuditIds -> SUBSET Reports]
    BY <1>1 DEF Typed, TypeOK, Enqueue, Run, Finish, GiveUp, Resume, Withdraw, attemptVars,
         Submit, Begin, Complete, Abandon, Publish, Cancel
  <1>3. /\ \E from, to : Move(a, from, to) /\ "completed" \notin from
              /\ to \in Active \cup {"completed", "failed", "cancelled"}
        /\ \/ UNCHANGED owner
           \/ stage[a] = "absent" /\ \E p \in Projects : owner' = [owner EXCEPT ![a] = p]
        /\ stage[a] = "absent" => \E p \in Projects : owner' = [owner EXCEPT ![a] = p]
    BY DEF Enqueue, Run, Finish, GiveUp, Resume, Withdraw, Active, Move,
         Submit, Begin, Complete, Abandon, Publish, Cancel
  <1>4. PICK from, to : /\ Move(a, from, to) /\ "completed" \notin from
                        /\ to \in Active \cup {"completed", "failed", "cancelled"}
    BY <1>3
  <1>5. /\ stage[a] # "completed" /\ stage'[a] # "absent"
        /\ \A b \in AuditIds \ {a} : stage'[b] = stage[b]
        /\ stage' \in [AuditIds -> Active \cup {"absent", "completed", "failed", "cancelled"}]
    BY <1>1, <1>4, Moved DEF Active
  <1>6. /\ owner' \in [AuditIds -> Projects \cup {NoProject}]
        /\ \A b \in AuditIds \ {a} : owner'[b] = owner[b]
        /\ stage[a] # "absent" => owner'[a] = owner[a]
        /\ owner'[a] \in Projects
    BY <1>1, <1>3 DEF Typed, TypeOK, Owned
  <1>7. /\ \A b \in AuditIds : stage[b] # "absent" => owner'[b] = owner[b]
        /\ \A b \in AuditIds : stage[b] = "completed" => stage'[b] = "completed"
    BY <1>5, <1>6
  <1>8. /\ TrailIsComplete' /\ Blank'
        /\ ChoiceIsUsable' /\ BaselineIsUsable' /\ MarksWereGranted'
        /\ \A p, f, g : GrantedIn(p, f, g) => GrantedIn(p, f, g)'
    BY <1>2, <1>7, MoveKeeps
  <1>9. Typed'
    BY <1>1, <1>2, <1>5, <1>6 DEF Typed, TypeOK, contents, ledger, selection
  <1>10. Owned'
    BY <1>1, <1>2, <1>5, <1>6 DEF Owned
  <1>11. DraftsWereGranted'
    <2>1. \A b \in AuditIds : draft'[b] \subseteq draft[b]
      BY <1>2
    <2> QED
      BY <1>7, <1>8, <2>1, DraftsKeep
  <1> QED
    BY <1>8, <1>9, <1>10, <1>11 DEF ReviewInv

(* A report is stored whose marks were granted, and exceptions that were,  *)
(* in a state that still has them.                                         *)
LEMMA StoringSteps ==
    ASSUME ReviewInv, NEW a \in AuditIds, NEW r \in Reports, NEW s \in Sources,
           Store(a, r, s), reported' = reported \cup {a}, UNCHANGED <<stage, owner>>,
           stage[a] # "absent", UNCHANGED selection, UNCHANGED expired,
           grants' \in 0..MaxGrants, saved' \in SUBSET AuditIds,
           \A b \in AuditIds : draft'[b] \in {draft[b], {}},
           draft' \in [AuditIds -> SUBSET Reports],
           exceptions' \in [Projects -> [Fingerprints -> 0..MaxGrants]],
           \A f \in DOMAIN r : r[f].grant # 0 => GrantedIn(owner[a], f, r[f].grant)',
           \A p \in Projects : \A f \in Fingerprints :
               exceptions'[p][f] # 0 =>
                   \/ exceptions'[p][f] = exceptions[p][f]
                   \/ GrantedIn(p, f, exceptions[p][f])'
    PROVE  ReviewInv'
  <1>1. Typed /\ Owned
    BY DEF ReviewInv
  <1>2. /\ report' \in [AuditIds -> Reports] /\ revisions' \in [AuditIds -> Seq(Revisions)]
        /\ report'[a] = r
        /\ \A b \in AuditIds \ {a} : report'[b] = report[b]
    BY <1>1, Stored
  <1>3. /\ TrailIsComplete' /\ Blank'
        /\ \A p, f, g : GrantedIn(p, f, g) => GrantedIn(p, f, g)'
        /\ BaselineIsUsable' /\ ChoiceIsUsable'
    BY StoreKeeps DEF ReviewInv, selection
  <1>4. Typed'
    <2>1. \A b \in AuditIds : \A i \in DOMAIN revisions'[b] :
            revisions'[b][i].source \in Sources /\ revisions'[b][i].report \in Reports
      <3> SUFFICES ASSUME NEW b \in AuditIds, NEW i \in DOMAIN revisions'[b]
                   PROVE  revisions'[b][i].source \in Sources /\ revisions'[b][i].report \in Reports
        OBVIOUS
      <3>1. revisions'[b] \in Seq(Revisions)
        BY <1>2
      <3>2. revisions'[b][i] \in Revisions
        BY <3>1
      <3> QED
        BY <3>2 DEF Revisions
    <2> QED
      BY <1>1, <1>2, <2>1 DEF Typed, TypeOK, selection
  <1>5. Owned'
    BY <1>1 DEF Owned
  <1>6. DraftsWereGranted'
    <2>1. \A b \in AuditIds : draft'[b] \subseteq draft[b]
      OBVIOUS
    <2> QED
      BY <1>3, <2>1, DraftsKeep
  <1>7. MarksWereGranted'
    <2>1. ASSUME NEW b \in AuditIds, NEW f \in DOMAIN report'[b], report'[b][f].grant # 0
          PROVE  GrantedIn(owner[b], f, report[b][f].grant)'
      <3>1. CASE b = a
        BY <1>2, <2>1, <3>1
      <3>2. CASE b # a
        <4>1. report'[b] = report[b]
          BY <1>2, <3>2
        <4>2. GrantedIn(owner[b], f, report[b][f].grant)
          BY <2>1, <4>1 DEF ReviewInv, MarksWereGranted
        <4> HIDE DEF GrantedIn
        <4> QED
          BY <1>3, <4>1, <4>2
      <3> QED
        BY <3>1, <3>2
    <2>2. ASSUME NEW p \in Projects, NEW f \in Fingerprints, exceptions'[p][f] # 0
          PROVE  GrantedIn(p, f, exceptions[p][f])'
      <3>1. CASE exceptions'[p][f] = exceptions[p][f]
        <4>1. GrantedIn(p, f, exceptions[p][f])
          BY <2>2, <3>1 DEF ReviewInv, MarksWereGranted
        <4> QED
          BY <1>3, <3>1, <4>1
      <3>2. CASE GrantedIn(p, f, exceptions[p][f])'
        BY <3>2
      <3> QED
        BY <2>2, <3>1, <3>2
    <2> QED
      BY <2>1, <2>2 DEF MarksWereGranted
  <1> QED
    BY <1>3, <1>4, <1>5, <1>6, <1>7 DEF ReviewInv

(* A revision that grants.                                                 *)
LEMMA NewGrant ==
    ASSUME Typed, NEW a \in AuditIds, NEW r \in Reports, Store(a, r, "suppression"),
           NEW f \in DOMAIN r
    PROVE  GrantedIn(owner[a], f, r[f].grant)'
  <1> DEFINE entry == [source |-> "suppression", report |-> r]
  <1>1. "suppression" \in Sources
    BY DEF Sources
  <1>2. /\ revisions'[a] = Append(revisions[a], entry)
        /\ Len(revisions'[a]) = Len(revisions[a]) + 1
        /\ revisions'[a][Len(revisions'[a])] = entry
        /\ revisions' \in [AuditIds -> Seq(Revisions)]
    BY <1>1, Stored
  <1>3. Len(revisions'[a]) \in DOMAIN revisions'[a]
    <2>1. revisions'[a] \in Seq(Revisions) /\ revisions[a] \in Seq(Revisions)
      BY <1>2 DEF Typed
    <2>2. Len(revisions[a]) \in Nat /\ DOMAIN revisions'[a] = 1..Len(revisions'[a])
      BY <2>1
    <2> QED
      BY <1>2, <2>2
  <1>4. /\ revisions'[a][Len(revisions'[a])].source = "suppression"
        /\ revisions'[a][Len(revisions'[a])].report = r
    BY <1>2
  <1>5. \E i \in DOMAIN revisions'[a] :
            /\ revisions'[a][i].source = "suppression"
            /\ f \in DOMAIN revisions'[a][i].report
            /\ revisions'[a][i].report[f].grant = r[f].grant
    BY <1>3, <1>4
  <1> QED
    BY <1>5 DEF GrantedIn

(* Suppressing a finding grants, and the revision it stores says so.       *)
LEMMA SuppressStep ==
    ASSUME ReviewInv, NEW a \in AuditIds, NEW f \in Fingerprints, SuppressFinding(a, f)
    PROVE  ReviewInv'
  <1>1. Typed /\ Owned
    BY DEF ReviewInv
  <1>2. /\ Reviewable(a) /\ f \in DOMAIN report[a] /\ grants < MaxGrants
        /\ grants' = grants + 1
        /\ exceptions' = [exceptions EXCEPT ![owner[a]][f] = grants']
        /\ Store(a, [report[a] EXCEPT ![f].grant = grants'], "suppression")
        /\ UNCHANGED <<vars, expired, selection, attemptVars>>
    BY DEF SuppressFinding
  <1>3. report[a] \in Reports /\ grants' \in 0..MaxGrants /\ "suppression" \in Sources
    BY <1>1, <1>2, BoundsAssumption DEF Typed, TypeOK, Sources
  <1>4. PICK r \in Reports : r = [report[a] EXCEPT ![f].grant = grants']
    BY <1>2, <1>3, MarkedReports
  <1>S. Store(a, r, "suppression")
    BY <1>2, <1>4
  <1>5. DOMAIN r = DOMAIN report[a] /\ r[f].grant = grants'
        /\ \A e \in DOMAIN r : e # f => r[e] = report[a][e]
    <2>1. PICK F \in SUBSET Fingerprints : report[a] \in [F -> Entries]
      BY <1>3 DEF Reports
    <2>2. f \in F /\ report[a][f] \in Entries
      BY <1>2, <2>1
    <2>3. [report[a][f] EXCEPT !.grant = grants'].grant = grants'
      BY <2>2 DEF Entries
    <2> QED
      BY <1>4, <2>1, <2>2, <2>3
  <1>6. UNCHANGED <<stage, owner, reported>> /\ a \in reported /\ reported' = reported \cup {a}
        /\ stage[a] # "absent"
    BY <1>1, <1>2 DEF vars, Reviewable, Owned
  <1>7. \A e \in DOMAIN r : r[e].grant # 0 => GrantedIn(owner[a], e, r[e].grant)'
    BY <1>1, <1>S, NewGrant
  <1>8. owner[a] \in Projects
    BY <1>1, <1>6 DEF Owned
  <1>9. exceptions' \in [Projects -> [Fingerprints -> 0..MaxGrants]]
    BY <1>1, <1>2, <1>3 DEF Typed, TypeOK
  <1>10. ASSUME NEW p \in Projects, NEW e \in Fingerprints, exceptions'[p][e] # 0
         PROVE  \/ exceptions'[p][e] = exceptions[p][e]
                \/ GrantedIn(p, e, exceptions[p][e])'
    <2>1. CASE p = owner[a] /\ e = f
      <3>1. exceptions'[p][e] = grants'
        BY <1>1, <1>2, <1>8, <2>1 DEF Typed, TypeOK
      <3>2. GrantedIn(owner[a], f, r[f].grant)'
        BY <1>1, <1>2, <1>S, <1>5, NewGrant
      <3> HIDE DEF GrantedIn
      <3> QED
        BY <1>5, <1>6, <2>1, <3>1, <3>2
    <2>2. CASE ~(p = owner[a] /\ e = f)
      BY <1>1, <1>2, <2>2 DEF Typed, TypeOK
    <2> QED
      BY <2>1, <2>2
  <1>11. /\ UNCHANGED selection /\ UNCHANGED expired /\ UNCHANGED <<draft, saved>>
         /\ saved' \in SUBSET AuditIds
         /\ draft' \in [AuditIds -> SUBSET Reports]
    BY <1>1, <1>2 DEF attemptVars, Typed, TypeOK
  <1>12. \A b \in AuditIds : draft'[b] \in {draft[b], {}}
    BY <1>11
  <1> HIDE DEF GrantedIn
  <1> QED
    BY <1>3, <1>S, <1>6, <1>7, <1>9, <1>10, <1>11, <1>12, StoringSteps

(* Changing one entry of a report leaves its findings, and the marks of    *)
(* the others; a decision leaves that mark too.                            *)
LEMMA ChangedReports ==
    ASSUME NEW r \in Reports, NEW f \in DOMAIN r
    PROVE  /\ \A d : LET n == [r EXCEPT ![f].disposition = d]
                     IN  DOMAIN n = DOMAIN r /\ \A e \in DOMAIN r : n[e].grant = r[e].grant
           /\ LET n == [r EXCEPT ![f].grant = 0]
              IN  /\ DOMAIN n = DOMAIN r /\ n[f].grant = 0
                  /\ \A e \in DOMAIN r : e # f => n[e] = r[e]
  <1>1. PICK F \in SUBSET Fingerprints : r \in [F -> Entries]
    BY DEF Reports
  <1>2. r[f] \in Entries
    BY <1>1
  <1>3. \A d : [r[f] EXCEPT !.disposition = d].grant = r[f].grant
    BY <1>2 DEF Entries
  <1>4. [r[f] EXCEPT !.grant = 0].grant = 0
    BY <1>2 DEF Entries
  <1> QED
    BY <1>1, <1>3, <1>4

(* Storing marks that the report had already.                              *)
LEMMA DecisionSteps ==
    ASSUME ReviewInv, NEW a \in AuditIds, NEW r \in Reports, NEW s \in Sources,
           Store(a, r, s), a \in reported,
           UNCHANGED <<vars, selection, attemptVars, expired, grants>>,
           exceptions' \in [Projects -> [Fingerprints -> 0..MaxGrants]],
           \A p \in Projects : \A f \in Fingerprints :
               exceptions'[p][f] \in {0, exceptions[p][f]},
           DOMAIN r = DOMAIN report[a],
           \A f \in DOMAIN r : r[f].grant \in {0, report[a][f].grant}
    PROVE  ReviewInv'
  <1>1. Typed /\ Owned
    BY DEF ReviewInv
  <1>2. /\ UNCHANGED <<stage, owner, reported, draft, saved>>
        /\ reported' = reported \cup {a}
    BY DEF vars, attemptVars
  <1>3. stage[a] # "absent"
    BY <1>1 DEF Owned
  <1>4. \A p, f, g : GrantedIn(p, f, g) => GrantedIn(p, f, g)'
    BY <1>2, StoreKeeps
  <1>5. ASSUME NEW f \in DOMAIN r, r[f].grant # 0 PROVE GrantedIn(owner[a], f, r[f].grant)'
    <2>1. GrantedIn(owner[a], f, r[f].grant)
      BY <1>5 DEF ReviewInv, MarksWereGranted
    <2> HIDE DEF GrantedIn
    <2> QED
      BY <1>2, <1>4, <2>1
  <1>6. /\ UNCHANGED selection /\ UNCHANGED expired
        /\ grants' \in 0..MaxGrants /\ saved' \in SUBSET AuditIds
        /\ draft' \in [AuditIds -> SUBSET Reports]
        /\ \A b \in AuditIds : draft'[b] \in {draft[b], {}}
    BY <1>1, <1>2 DEF Typed, TypeOK
  <1>7. \A p \in Projects : \A f \in Fingerprints : exceptions'[p][f] # 0 =>
            \/ exceptions'[p][f] = exceptions[p][f]
            \/ GrantedIn(p, f, exceptions[p][f])'
    OBVIOUS
  <1> HIDE DEF GrantedIn
  <1> QED
    BY <1>2, <1>3, <1>5, <1>6, <1>7, StoringSteps

(* Reviews of findings and controls, and the removal of an exception.      *)
LEMMA ReviewerSteps ==
    ASSUME ReviewInv, NEW a \in AuditIds,
           \/ \E f \in Fingerprints :
                (\E d \in Dispositions : ReviewFinding(a, f, d)) \/ RemoveSuppression(a, f)
           \/ ReviewControl(a)
    PROVE  ReviewInv'
  <1>1. Typed /\ report[a] \in Reports
        /\ exceptions \in [Projects -> [Fingerprints -> 0..MaxGrants]]
    BY DEF ReviewInv, Typed, TypeOK
  <1>2. {"human-review", "suppression-removed"} \subseteq Sources
    BY DEF Sources
  <1>3. ASSUME NEW f \in Fingerprints, NEW d \in Dispositions, ReviewFinding(a, f, d)
        PROVE  ReviewInv'
    <2>1. /\ a \in reported /\ f \in DOMAIN report[a]
          /\ Store(a, [report[a] EXCEPT ![f].disposition = d], "human-review")
          /\ UNCHANGED <<vars, ledger, selection, attemptVars>>
      BY <1>3 DEF ReviewFinding, Reviewable
    <2>2. PICK r \in Reports : r = [report[a] EXCEPT ![f].disposition = d]
      BY <1>1, <2>1, MarkedReports
    <2>3. DOMAIN r = DOMAIN report[a] /\ \A e \in DOMAIN r : r[e].grant = report[a][e].grant
      BY <1>1, <2>1, <2>2, ChangedReports
    <2>4. UNCHANGED <<exceptions, expired, grants>>
      BY <2>1 DEF ledger
    <2> QED
      BY <1>1, <1>2, <2>1, <2>2, <2>3, <2>4, DecisionSteps
  <1>4. ASSUME NEW f \in Fingerprints, RemoveSuppression(a, f) PROVE ReviewInv'
    <2>1. /\ a \in reported /\ f \in DOMAIN report[a]
          /\ exceptions' = [exceptions EXCEPT ![owner[a]][f] = 0]
          /\ Store(a, [report[a] EXCEPT ![f].grant = 0], "suppression-removed")
          /\ UNCHANGED <<vars, expired, grants, selection, attemptVars>>
      BY <1>4 DEF RemoveSuppression
    <2>2. 0 \in 0..MaxGrants
      BY BoundsAssumption
    <2>3. PICK r \in Reports : r = [report[a] EXCEPT ![f].grant = 0]
      BY <1>1, <2>1, <2>2, MarkedReports
    <2>4. /\ DOMAIN r = DOMAIN report[a] /\ r[f].grant = 0
          /\ \A e \in DOMAIN r : e # f => r[e] = report[a][e]
      BY <1>1, <2>1, <2>3, ChangedReports
    <2>5. /\ exceptions' \in [Projects -> [Fingerprints -> 0..MaxGrants]]
          /\ \A p \in Projects : \A e \in Fingerprints :
                 exceptions'[p][e] \in {0, exceptions[p][e]}
      BY <1>1, <2>1, <2>2
    <2>6. \A e \in DOMAIN r : r[e].grant \in {0, report[a][e].grant}
      BY <2>4
    <2>7. Store(a, r, "suppression-removed") /\ "suppression-removed" \in Sources
      BY <1>2, <2>1, <2>3
    <2>8. UNCHANGED <<vars, selection, attemptVars, expired, grants>>
      BY <2>1
    <2> HIDE DEF Store
    <2> QED
      BY <2>1, <2>4, <2>5, <2>6, <2>7, <2>8, DecisionSteps
  <1>5. ASSUME ReviewControl(a) PROVE ReviewInv'
    <2>1. /\ a \in reported /\ Store(a, report[a], "human-review")
          /\ UNCHANGED <<vars, ledger, selection, attemptVars>>
      BY <1>5 DEF ReviewControl, Reviewable
    <2>2. PICK r \in Reports : r = report[a]
      BY <1>1
    <2>3. UNCHANGED <<exceptions, expired, grants>>
      BY <2>1 DEF ledger
    <2> QED
      BY <1>1, <1>2, <2>1, <2>2, <2>3, DecisionSteps
  <1> QED
    BY <1>3, <1>4, <1>5

(* Drafts aside, nothing about audits, reports and exceptions changes: time *)
(* passes, a baseline is looked at or set, a draft is made or dropped.     *)
LEMMA QuietSteps ==
    ASSUME ReviewInv, UNCHANGED <<vars, contents, exceptions, grants, saved>>,
           expired' \in SUBSET (1..MaxGrants),
           draft' \in [AuditIds -> SUBSET Reports],
           baseline' \in [Projects -> {0} \cup AuditIds],
           choice' \in {NoChoice} \cup AuditIds,
           \A a \in AuditIds : stage[a] = "absent" => draft'[a] = {},
           ChoiceIsUsable', BaselineIsUsable', DraftsWereGranted'
    PROVE  ReviewInv'
  <1>1. Typed /\ Owned /\ Blank /\ TrailIsComplete /\ MarksWereGranted
    BY DEF ReviewInv
  <1>2. UNCHANGED <<stage, owner, reported, report, revisions, exceptions, grants, saved>>
    BY DEF vars, contents
  <1>3. Typed'
    BY <1>1, <1>2 DEF Typed, TypeOK
  <1>4. Owned' /\ Blank' /\ TrailIsComplete'
    BY <1>1, <1>2 DEF Owned, Blank, TrailIsComplete
  <1>5. \A p, f, g : GrantedIn(p, f, g) => GrantedIn(p, f, g)'
    BY <1>2 DEF GrantedIn
  <1>6. MarksWereGranted'
    <2>1. ASSUME NEW a \in AuditIds, NEW f \in DOMAIN report[a], report[a][f].grant # 0
          PROVE  GrantedIn(owner[a], f, report[a][f].grant)'
      <3>1. GrantedIn(owner[a], f, report[a][f].grant)
        BY <1>1, <2>1 DEF MarksWereGranted
      <3> HIDE DEF GrantedIn
      <3> QED
        BY <1>2, <1>5, <3>1
    <2>2. ASSUME NEW p \in Projects, NEW f \in Fingerprints, exceptions[p][f] # 0
          PROVE  GrantedIn(p, f, exceptions[p][f])'
      <3>1. GrantedIn(p, f, exceptions[p][f])
        BY <1>1, <2>2 DEF MarksWereGranted
      <3> HIDE DEF GrantedIn
      <3> QED
        BY <1>2, <1>5, <3>1
    <2> QED
      BY <1>2, <2>1, <2>2 DEF MarksWereGranted
  <1> QED
    BY <1>3, <1>4, <1>6 DEF ReviewInv

(* An exception that expires stays granted.                                *)
LEMMA ExpireStep ==
    ASSUME ReviewInv, NEW g \in 1..MaxGrants, Expire(g)
    PROVE  ReviewInv'
  <1>1. Typed /\ Owned /\ ChoiceIsUsable /\ BaselineIsUsable
    BY DEF ReviewInv
  <1>2. /\ UNCHANGED <<vars, contents, exceptions, grants, baseline, choice, draft, saved>>
        /\ expired' = expired \cup {g}
    BY DEF Expire, selection, attemptVars
  <1>3. UNCHANGED <<stage, owner, reported, revisions>>
    BY <1>2 DEF vars, contents
  <1>4. ChoiceIsUsable' /\ BaselineIsUsable'
    BY <1>1, <1>2, <1>3 DEF ChoiceIsUsable, BaselineIsUsable
  <1>5. DraftsWereGranted'
    <2>1. \A p, f, h : GrantedIn(p, f, h) => GrantedIn(p, f, h)'
      BY <1>3 DEF GrantedIn
    <2>2. /\ \A a \in AuditIds : draft'[a] \subseteq draft[a]
          /\ \A a \in AuditIds : stage[a] # "absent" => owner'[a] = owner[a]
      BY <1>2, <1>3
    <2> QED
      BY <2>1, <2>2, DraftsKeep
  <1>6. /\ expired' \in SUBSET (1..MaxGrants)
        /\ draft' \in [AuditIds -> SUBSET Reports]
        /\ baseline' \in [Projects -> {0} \cup AuditIds]
        /\ choice' \in {NoChoice} \cup AuditIds
        /\ \A a \in AuditIds : stage[a] = "absent" => draft'[a] = {}
    BY <1>1, <1>2 DEF Typed, TypeOK, Owned
  <1> QED
    BY <1>2, <1>4, <1>5, <1>6, QuietSteps

(* The baseline is checked in one transaction and stored in another: in    *)
(* between its audit stays completed, reported and its project's.          *)
LEMMA BaselineSteps ==
    ASSUME ReviewInv, SetBaseline \/ \E a \in AuditIds : CheckBaseline(a)
    PROVE  ReviewInv'
  <1>1. Typed /\ Owned /\ ChoiceIsUsable /\ BaselineIsUsable
    BY DEF ReviewInv
  <1>2. UNCHANGED <<vars, contents, exceptions, expired, grants, draft, saved>>
    BY DEF SetBaseline, CheckBaseline, ledger, attemptVars
  <1>3. UNCHANGED <<stage, owner, reported, revisions>>
    BY <1>2 DEF vars, contents
  <1>4. /\ ChoiceIsUsable' /\ BaselineIsUsable'
        /\ baseline' \in [Projects -> {0} \cup AuditIds]
        /\ choice' \in {NoChoice} \cup AuditIds
    <2>1. ASSUME NEW a \in AuditIds, CheckBaseline(a)
          PROVE  /\ choice' = a /\ UNCHANGED baseline
                 /\ stage[a] = "completed" /\ a \in reported
      BY <2>1 DEF CheckBaseline
    <2>2. CASE \E a \in AuditIds : CheckBaseline(a)
      BY <1>1, <1>3, <2>1, <2>2 DEF ChoiceIsUsable, BaselineIsUsable, Typed, TypeOK
    <2>3. CASE SetBaseline
      <3>1. /\ choice # NoChoice /\ choice' = NoChoice
            /\ baseline' = [baseline EXCEPT ![owner[choice]] = choice]
        BY <2>3 DEF SetBaseline
      <3>2. choice \in AuditIds /\ stage[choice] = "completed" /\ choice \in reported
        BY <1>1, <3>1 DEF ChoiceIsUsable, Typed, TypeOK
      <3>3. owner[choice] \in Projects
        BY <1>1, <3>2 DEF Owned
      <3>4. BaselineIsUsable'
        <4>1. ASSUME NEW p \in Projects, baseline'[p] # 0
              PROVE  /\ stage[baseline'[p]] = "completed"
                     /\ owner[baseline'[p]] = p
                     /\ baseline'[p] \in reported
          <5>1. CASE p = owner[choice]
            BY <1>1, <3>1, <3>2, <3>3, <5>1 DEF Typed, TypeOK
          <5>2. CASE p # owner[choice]
            BY <1>1, <3>1, <4>1, <5>2 DEF BaselineIsUsable, Typed, TypeOK
          <5> QED
            BY <5>1, <5>2
        <4> QED
          BY <1>3, <4>1 DEF BaselineIsUsable
      <3> QED
        BY <1>1, <3>1, <3>2, <3>3, <3>4 DEF ChoiceIsUsable, Typed, TypeOK
    <2> QED
      BY <2>2, <2>3
  <1>5. DraftsWereGranted'
    <2>1. \A p, f, h : GrantedIn(p, f, h) => GrantedIn(p, f, h)'
      BY <1>3 DEF GrantedIn
    <2>2. /\ \A a \in AuditIds : draft'[a] \subseteq draft[a]
          /\ \A a \in AuditIds : stage[a] # "absent" => owner'[a] = owner[a]
      BY <1>2, <1>3
    <2> QED
      BY <2>1, <2>2, DraftsKeep
  <1>6. /\ expired' \in SUBSET (1..MaxGrants)
        /\ draft' \in [AuditIds -> SUBSET Reports]
        /\ \A a \in AuditIds : stage[a] = "absent" => draft'[a] = {}
    BY <1>1, <1>2 DEF Typed, TypeOK, Owned
  <1> QED
    BY <1>2, <1>4, <1>5, <1>6, QuietSteps

(* The worker marks its findings with the exceptions in force: granted,    *)
(* and for that project.                                                   *)
LEMMA ApplyStep ==
    ASSUME ReviewInv, NEW a \in AuditIds, NEW F \in SUBSET Fingerprints,
           ApplySuppressions(a, F)
    PROVE  ReviewInv'
  <1> DEFINE marked == [f \in F |-> [disposition |-> "needs_review",
                                     grant |-> ActiveGrant(owner[a], f)]]
  <1>1. /\ Typed /\ Owned /\ ChoiceIsUsable /\ BaselineIsUsable
        /\ DraftsWereGranted /\ MarksWereGranted
    BY DEF ReviewInv
  <1>2. /\ stage[a] = "running" /\ draft' = [draft EXCEPT ![a] = {marked}]
        /\ UNCHANGED <<vars, contents, exceptions, expired, grants, baseline, choice, saved>>
    BY DEF ApplySuppressions, ledger, selection
  <1>3. UNCHANGED <<stage, owner, reported, revisions>>
    BY <1>2 DEF vars, contents
  <1>4. owner[a] \in Projects
    BY <1>1, <1>2 DEF Owned
  <1>5. \A f \in F : ActiveGrant(owner[a], f) \in {0, exceptions[owner[a]][f]} \cap (0..MaxGrants)
    BY <1>1, <1>4, BoundsAssumption DEF ActiveGrant, Typed, TypeOK
  <1>6. \A f \in F : ActiveGrant(owner[a], f) # 0 =>
            GrantedIn(owner[a], f, ActiveGrant(owner[a], f))
    <2> SUFFICES ASSUME NEW f \in F, ActiveGrant(owner[a], f) # 0
                 PROVE  GrantedIn(owner[a], f, ActiveGrant(owner[a], f))
      OBVIOUS
    <2>1. ActiveGrant(owner[a], f) = exceptions[owner[a]][f]
      BY <1>5
    <2>2. GrantedIn(owner[a], f, exceptions[owner[a]][f])
      BY <1>1, <1>4, <2>1 DEF MarksWereGranted
    <2> QED
      BY <2>1, <2>2
  <1>7. marked \in Reports
    <2>1. \A f \in F : marked[f] \in Entries
      BY <1>5 DEF Entries
    <2>2. marked \in [F -> Entries]
      BY <2>1
    <2> HIDE DEF marked
    <2> QED
      BY <2>2 DEF Reports
  <1>8. /\ DOMAIN marked = F
        /\ \A f \in F : marked[f].grant = ActiveGrant(owner[a], f)
    OBVIOUS
  <1> HIDE DEF marked
  <1>9. /\ draft' \in [AuditIds -> SUBSET Reports]
        /\ draft'[a] = {marked}
        /\ \A b \in AuditIds \ {a} : draft'[b] = draft[b]
    BY <1>1, <1>2, <1>7 DEF Typed, TypeOK
  <1>10. DraftsWereGranted'
    <2>1. \A p, f, g : GrantedIn(p, f, g) => GrantedIn(p, f, g)'
      BY <1>3 DEF GrantedIn
    <2>2. ASSUME NEW b \in AuditIds, NEW r \in draft'[b], NEW f \in DOMAIN r, r[f].grant # 0
          PROVE  GrantedIn(owner[b], f, r[f].grant)'
      <3>1. GrantedIn(owner[b], f, r[f].grant)
        <4>1. CASE b = a
          BY <1>6, <1>8, <1>9, <2>2, <4>1
        <4>2. CASE b # a
          BY <1>1, <1>9, <2>2, <4>2 DEF DraftsWereGranted
        <4> QED
          BY <4>1, <4>2
      <3> HIDE DEF GrantedIn
      <3> QED
        BY <1>3, <2>1, <3>1
    <2> QED
      BY <2>2 DEF DraftsWereGranted
  <1>11. ChoiceIsUsable' /\ BaselineIsUsable'
    BY <1>1, <1>2, <1>3 DEF ChoiceIsUsable, BaselineIsUsable
  <1>12. /\ expired' \in SUBSET (1..MaxGrants)
         /\ baseline' \in [Projects -> {0} \cup AuditIds]
         /\ choice' \in {NoChoice} \cup AuditIds
         /\ \A b \in AuditIds : stage[b] = "absent" => draft'[b] = {}
    BY <1>1, <1>2, <1>9 DEF Typed, TypeOK, Owned
  <1> QED
    BY <1>2, <1>9, <1>10, <1>11, <1>12, QuietSteps

(* The worker saves what it drafted, or drops it once the audit has left   *)
(* "running".                                                              *)
LEMMA SaveStep ==
    ASSUME ReviewInv, NEW a \in AuditIds, SaveProgress(a)
    PROVE  ReviewInv'
  <1>1. Typed /\ Owned /\ ChoiceIsUsable /\ BaselineIsUsable /\ DraftsWereGranted
    BY DEF ReviewInv
  <1>2. PICK r \in draft[a] :
            \/ Report(a) /\ Store(a, r, "workflow") /\ saved' = saved \cup {a}
            \/ stage[a] # "running" /\ UNCHANGED <<vars, contents, saved>>
    BY DEF SaveProgress
  <1>3. /\ r \in Reports /\ stage[a] # "absent"
        /\ \A f \in DOMAIN r : r[f].grant # 0 => GrantedIn(owner[a], f, r[f].grant)
    BY <1>1, <1>2 DEF Typed, TypeOK, Owned, DraftsWereGranted
  <1>4. /\ draft' = [draft EXCEPT ![a] = {}]
        /\ UNCHANGED <<exceptions, expired, grants, baseline, choice>>
        /\ UNCHANGED selection
    BY DEF SaveProgress, ledger, selection
  <1>5. /\ draft' \in [AuditIds -> SUBSET Reports]
        /\ \A b \in AuditIds : draft'[b] \in {draft[b], {}}
        /\ \A b \in AuditIds : draft'[b] \subseteq draft[b]
    BY <1>1, <1>4 DEF Typed, TypeOK
  <1>6. CASE Report(a) /\ Store(a, r, "workflow") /\ saved' = saved \cup {a}
    <2>1. "workflow" \in Sources /\ Store(a, r, "workflow")
      BY <1>6 DEF Sources
    <2>2. UNCHANGED <<stage, owner>> /\ reported' = reported \cup {a}
      BY <1>6 DEF Report
    <2>3. \A p, f, g : GrantedIn(p, f, g) => GrantedIn(p, f, g)'
      BY <1>3, <2>1, <2>2, StoreKeeps
    <2>4. \A f \in DOMAIN r : r[f].grant # 0 => GrantedIn(owner[a], f, r[f].grant)'
      <3> SUFFICES ASSUME NEW f \in DOMAIN r, r[f].grant # 0
                   PROVE  GrantedIn(owner[a], f, r[f].grant)'
        OBVIOUS
      <3>1. GrantedIn(owner[a], f, r[f].grant)
        BY <1>3
      <3> HIDE DEF GrantedIn
      <3> QED
        BY <2>2, <2>3, <3>1
    <2>5. /\ grants' \in 0..MaxGrants /\ saved' \in SUBSET AuditIds
          /\ exceptions' \in [Projects -> [Fingerprints -> 0..MaxGrants]]
      BY <1>1, <1>4, <1>6 DEF Typed, TypeOK
    <2>6. \A p \in Projects : \A f \in Fingerprints : exceptions'[p][f] # 0 =>
              \/ exceptions'[p][f] = exceptions[p][f]
              \/ GrantedIn(p, f, exceptions[p][f])'
      BY <1>4
    <2> HIDE DEF GrantedIn
    <2> QED
      BY <1>3, <1>4, <1>5, <2>1, <2>2, <2>4, <2>5, <2>6, StoringSteps
  <1>7. CASE stage[a] # "running" /\ UNCHANGED <<vars, contents, saved>>
    <2>1. UNCHANGED <<vars, contents, exceptions, grants, saved>>
      BY <1>4, <1>7
    <2>2. UNCHANGED <<stage, owner, reported, revisions>>
      BY <2>1 DEF vars, contents
    <2>3. ChoiceIsUsable' /\ BaselineIsUsable'
      BY <1>1, <1>4, <2>2 DEF ChoiceIsUsable, BaselineIsUsable
    <2>4. DraftsWereGranted'
      <3>1. \A p, f, g : GrantedIn(p, f, g) => GrantedIn(p, f, g)'
        BY <2>2 DEF GrantedIn
      <3>2. \A b \in AuditIds : stage[b] # "absent" => owner'[b] = owner[b]
        BY <2>2
      <3> QED
        BY <1>5, <3>1, <3>2, DraftsKeep
    <2>5. /\ expired' \in SUBSET (1..MaxGrants)
          /\ baseline' \in [Projects -> {0} \cup AuditIds]
          /\ choice' \in {NoChoice} \cup AuditIds
          /\ \A b \in AuditIds : stage[b] = "absent" => draft'[b] = {}
      BY <1>1, <1>4, <1>5 DEF Typed, TypeOK, Owned
    <2> QED
      BY <1>5, <2>1, <2>3, <2>4, <2>5, QuietSteps
  <1> QED
    BY <1>2, <1>6, <1>7

-----------------------------------------------------------------------------
(* Every step of the worker and of the reviewer keeps the invariant.       *)
LEMMA ReviewStep == ReviewInv /\ [NextAll]_allVars => ReviewInv'
  <1> SUFFICES ASSUME ReviewInv, [NextAll]_allVars PROVE ReviewInv'
    OBVIOUS
  <1>1. ASSUME NEW a \in AuditIds,
               \/ \E p \in Projects : Enqueue(a, p)
               \/ Run(a) \/ Finish(a) \/ GiveUp(a) \/ Resume(a) \/ Withdraw(a)
        PROVE  ReviewInv'
    BY <1>1, LifecycleSteps
  <1>2. ASSUME NEW a \in AuditIds, SaveProgress(a) PROVE ReviewInv'
    BY <1>2, SaveStep
  <1>3. ASSUME NEW a \in AuditIds, NEW F \in SUBSET Fingerprints, ApplySuppressions(a, F)
        PROVE  ReviewInv'
    BY <1>3, ApplyStep
  <1>4. ASSUME NEW a \in AuditIds,
               \/ \E f \in Fingerprints :
                    (\E d \in Dispositions : ReviewFinding(a, f, d)) \/ RemoveSuppression(a, f)
               \/ ReviewControl(a)
        PROVE  ReviewInv'
    BY <1>4, ReviewerSteps
  <1>5. ASSUME NEW a \in AuditIds, NEW f \in Fingerprints, SuppressFinding(a, f)
        PROVE  ReviewInv'
    BY <1>5, SuppressStep
  <1>6. CASE SetBaseline \/ \E a \in AuditIds : CheckBaseline(a)
    BY <1>6, BaselineSteps
  <1>7. ASSUME NEW g \in 1..MaxGrants, Expire(g) PROVE ReviewInv'
    BY <1>7, ExpireStep
  <1>8. CASE UNCHANGED allVars
    <2>1. UNCHANGED <<vars, contents, exceptions, grants, saved, expired, draft, baseline,
                      choice, stage, owner, reported, revisions>>
      BY <1>8 DEF allVars, vars, contents, ledger, selection, attemptVars
    <2>2. ChoiceIsUsable' /\ BaselineIsUsable'
      BY <2>1 DEF ReviewInv, ChoiceIsUsable, BaselineIsUsable
    <2>3. DraftsWereGranted'
      BY <2>1 DEF ReviewInv, DraftsWereGranted, GrantedIn
    <2>4. /\ expired' \in SUBSET (1..MaxGrants)
          /\ draft' \in [AuditIds -> SUBSET Reports]
          /\ baseline' \in [Projects -> {0} \cup AuditIds]
          /\ choice' \in {NoChoice} \cup AuditIds
          /\ \A a \in AuditIds : stage[a] = "absent" => draft'[a] = {}
      BY <2>1 DEF ReviewInv, Typed, TypeOK, Owned
    <2> QED
      BY <2>1, <2>2, <2>3, <2>4, QuietSteps
  <1> HIDE DEF ReviewInv
  <1> QED
    BY <1>1, <1>2, <1>3, <1>4, <1>5, <1>6, <1>7, <1>8 DEF NextAll

(* The invariant holds of the specification.                               *)
LEMMA ReviewInvariant == SpecAll => []ReviewInv
  BY ReviewInit, ReviewStep, PTL DEF SpecAll

(* Every variable of the reviews keeps to the values the store can hold.   *)
THEOREM TypeCorrect == SpecAll => []TypeOK
  <1>1. ReviewInv => TypeOK
    BY DEF ReviewInv, Typed
  <1> QED
    BY <1>1, ReviewInvariant, PTL

(* TrailIsComplete: the report a reader sees is the last revision, whoever *)
(* wrote it and however workflow saves, reviews, grants and removals       *)
(* interleave.                                                             *)
THEOREM TrailHolds == SpecAll => []TrailIsComplete
  <1>1. ReviewInv => TrailIsComplete
    BY DEF ReviewInv
  <1> QED
    BY <1>1, ReviewInvariant, PTL

(* MarksWereGranted: no mark in a report and no exception in force that a  *)
(* person did not grant for that finding of that project.                  *)
THEOREM MarksHold == SpecAll => []MarksWereGranted
  <1>1. ReviewInv => MarksWereGranted
    BY DEF ReviewInv
  <1> QED
    BY <1>1, ReviewInvariant, PTL

(* BaselineIsUsable: the baseline of a project is a completed, reported    *)
(* audit of its own.                                                       *)
THEOREM BaselinesHold == SpecAll => []BaselineIsUsable
  <1>1. ReviewInv => BaselineIsUsable
    BY DEF ReviewInv
  <1> QED
    BY <1>1, ReviewInvariant, PTL

(* Only the worker stores as "workflow", and only a running audit.         *)
LEMMA StoresAreHuman ==
    ASSUME ReviewInv, NEW a \in AuditIds, NEW r, NEW s \in Sources \ {"workflow"},
           Store(a, r, s), NEW b \in AuditIds, revisions'[b] # revisions[b]
    PROVE  revisions'[b][Len(revisions'[b])].source # "workflow"
  <1> DEFINE entry == [source |-> s, report |-> r]
  <1>1. /\ revisions \in [AuditIds -> Seq(Revisions)]
        /\ revisions' = [revisions EXCEPT ![a] = Append(@, entry)]
    BY DEF ReviewInv, Typed, Store
  <1>2. b = a /\ revisions'[b] = Append(revisions[b], entry)
    BY <1>1
  <1>3. revisions[b] \in Seq(Revisions)
    BY <1>1
  <1>4. Append(revisions[b], entry)[Len(Append(revisions[b], entry))] = entry
    BY <1>3
  <1>5. entry.source = s
    OBVIOUS
  <1> HIDE DEF entry
  <1> QED
    BY <1>2, <1>4, <1>5

(* SettledReportsAreHuman: a worker that saves late, after a cancellation  *)
(* it has not noticed, changes nothing.                                    *)
THEOREM SettledReportsHold == SpecAll => SettledReportsAreHuman
  <1>1. ReviewInv /\ [NextAll]_allVars
          => \/ UNCHANGED allVars
             \/ \A a \in AuditIds :
                  /\ stage[a] \in {"completed", "failed", "cancelled"}
                  /\ revisions'[a] # revisions[a]
                  => revisions'[a][Len(revisions'[a])].source # "workflow"
    <2> DEFINE Human == \A b \in AuditIds :
                          /\ stage[b] \in {"completed", "failed", "cancelled"}
                          /\ revisions'[b] # revisions[b]
                          => revisions'[b][Len(revisions'[b])].source # "workflow"
    <2> SUFFICES ASSUME ReviewInv, NextAll PROVE Human
      OBVIOUS
    <2>0. {"human-review", "suppression", "suppression-removed"} \subseteq Sources \ {"workflow"}
      BY DEF Sources
    <2>1. ASSUME UNCHANGED revisions PROVE Human
      BY <2>1
    <2>2. ASSUME NEW a \in AuditIds,
                 \/ \E p \in Projects : Enqueue(a, p)
                 \/ Run(a) \/ Finish(a) \/ GiveUp(a) \/ Resume(a) \/ Withdraw(a)
                 \/ \E F \in SUBSET Fingerprints : ApplySuppressions(a, F)
                 \/ CheckBaseline(a)
          PROVE  Human
      BY <2>1, <2>2 DEF Enqueue, Run, Finish, GiveUp, Resume, Withdraw, ApplySuppressions,
           CheckBaseline, contents
    <2>3. ASSUME SetBaseline \/ \E g \in 1..MaxGrants : Expire(g) PROVE Human
      BY <2>1, <2>3 DEF SetBaseline, Expire, contents
    <2>4. ASSUME NEW a \in AuditIds, SaveProgress(a) PROVE Human
      <3>1. \/ stage[a] = "running" /\ \E r : Store(a, r, "workflow")
            \/ UNCHANGED revisions
        BY <2>4 DEF SaveProgress, Report, contents
      <3>2. CASE stage[a] = "running" /\ \E r : Store(a, r, "workflow")
        <4>1. revisions \in [AuditIds -> Seq(Revisions)]
          BY DEF ReviewInv, Typed
        <4>2. \A b \in AuditIds : b # a => revisions'[b] = revisions[b]
          BY <3>2, <4>1 DEF Store
        <4> QED
          BY <3>2, <4>2
      <3> QED
        BY <2>1, <3>1, <3>2
    <2>5. ASSUME NEW a \in AuditIds, NEW f \in Fingerprints,
                 \/ \E d \in Dispositions : ReviewFinding(a, f, d)
                 \/ SuppressFinding(a, f) \/ RemoveSuppression(a, f)
          PROVE  Human
      <3>1. \E r : \E s \in Sources \ {"workflow"} : Store(a, r, s)
        BY <2>0, <2>5 DEF ReviewFinding, SuppressFinding, RemoveSuppression
      <3> QED
        BY <3>1, StoresAreHuman
    <2>6. ASSUME NEW a \in AuditIds, ReviewControl(a) PROVE Human
      <3>1. Store(a, report[a], "human-review")
        BY <2>6 DEF ReviewControl
      <3> QED
        BY <2>0, <3>1, StoresAreHuman
    <2> HIDE DEF Human, ReviewInv
    <2> QED
      BY <2>2, <2>3, <2>4, <2>5, <2>6 DEF NextAll
  <1> QED
    BY <1>1, ReviewInvariant, PTL DEF SpecAll, SettledReportsAreHuman

(***************************************************************************)
(* The profile: what is in it is whole, or it says that it is not.         *)
(*                                                                         *)
(* The pass over a project with its limits is compared with a twin that runs *)
(* beside it with more room.  As long as nothing was cut the two have the same *)
(* of everything but their limits, so that what was never cut is what a pass *)
(* with any room to spare would have found.                                *)
(***************************************************************************)

(* A sequence of any elements is a list.                                   *)
LEMMA ListOf ==
  ASSUME NEW S, NEW s \in Seq(S)
  PROVE  IsList(s) /\ Len(s) \in Nat /\ DOMAIN s = 1..Len(s) /\ ToSet(s) \subseteq S
<1>1. s \in Seq(ToSet(s))
  BY DEF ToSet
<1> QED
  BY <1>1 DEF IsList, ToSet

(* What the other lemmas use of a list.                                    *)
LEMMA ListFacts ==
  ASSUME NEW s, IsList(s) PROVE Len(s) \in Nat /\ DOMAIN s = 1..Len(s) /\ s \in Seq(ToSet(s))
BY DEF IsList

(* Lists stay lists when something is put at their end, or at the end of   *)
(* each other.                                                             *)
LEMMA AppendIsList ==
  ASSUME NEW s, IsList(s), NEW x
  PROVE  IsList(Append(s, x)) /\ Len(Append(s, x)) = Len(s) + 1
<1>1. s \in Seq(ToSet(s) \cup {x}) /\ x \in ToSet(s) \cup {x}
  BY DEF IsList
<1>2. Append(s, x) \in Seq(ToSet(s) \cup {x})
  BY <1>1
<1>3. Len(Append(s, x)) = Len(s) + 1
  BY <1>1
<1> QED
  BY <1>2, <1>3, ListOf

(* Two lists, one after the other.                                         *)
LEMMA ConcatIsList ==
  ASSUME NEW s, NEW t, IsList(s), IsList(t)
  PROVE  IsList(s \o t) /\ Len(s \o t) = Len(s) + Len(t)
<1>1. s \in Seq(ToSet(s) \cup ToSet(t)) /\ t \in Seq(ToSet(s) \cup ToSet(t))
  BY DEF IsList
<1>2. s \o t \in Seq(ToSet(s) \cup ToSet(t)) /\ Len(s \o t) = Len(s) + Len(t)
  BY <1>1
<1> QED
  BY <1>2, ListOf

(* What is kept of a list within a limit is a list, and all of it when it  *)
(* fits.                                                                   *)
LEMMA UpToFacts ==
  ASSUME NEW s, IsList(s), NEW n \in Nat
  PROVE  /\ IsList(UpTo(s, n))
         /\ Len(UpTo(s, n)) = (IF n < Len(s) THEN n ELSE Len(s))
         /\ Len(s) <= n => UpTo(s, n) = s
<1>1. s \in Seq(ToSet(s)) /\ Len(s) \in Nat
  BY DEF IsList
<1> DEFINE m == IF n < Len(s) THEN n ELSE Len(s)
<1>2. m \in 0..Len(s)
  BY <1>1
<1>3. UpTo(s, n) = SubSeq(s, 1, m)
  BY DEF UpTo
<1>4. SubSeq(s, 1, m) \in Seq(ToSet(s)) /\ Len(SubSeq(s, 1, m)) = m
  <2> HIDE DEF m
  <2> QED BY <1>1, <1>2
<1>5. ASSUME Len(s) <= n PROVE SubSeq(s, 1, m) = s
  <2>1. m = Len(s)
    BY <1>1, <1>5
  <2> HIDE DEF m
  <2>2. \A i \in 1..Len(s) : SubSeq(s, 1, m)[i] = s[i]
    BY <1>1, <2>1
  <2> QED BY <1>1, <1>4, <2>1, <2>2
<1>6. IsList(SubSeq(s, 1, m))
  <2> HIDE DEF m
  <2> QED BY <1>4, ListOf
<1> QED
  BY <1>3, <1>4, <1>5, <1>6

JoinedList(c, n, a) == IsList(a)
J == INSTANCE FoldTheorems WITH Op <- Joining, Holds <- JoinedList

(* Lists joined are a list.                                                *)
LEMMA JoinedIsList ==
  ASSUME NEW l, IsList(l), \A i \in DOMAIN l : IsList(l[i]) PROVE IsList(Joined(l))
<1>1. Len(l) \in Nat /\ DOMAIN l = 1..Len(l)
  BY ListFacts
<1>2. JoinedList(0, 0, <<>>)
  <2>1. <<>> \in Seq({})
    OBVIOUS
  <2> QED BY <2>1, ListOf DEF JoinedList
<1>3. \A k \in 1..Len(l) : \A a : JoinedList(0, k - 1, a) => JoinedList(0, k, Joining(a, l[k]))
  BY <1>1, ConcatIsList DEF JoinedList, Joining
<1>4. JoinedList(0, Len(l), J!FoldLeft(Joining, <<>>, l))
  BY <1>1, <1>2, <1>3, J!FoldHolds
<1>5. J!FoldLeft(Joining, <<>>, l) = Joined(l)
  BY DEF Joined, J!FoldLeft, FoldLeft, J!MapThenFoldSet, MapThenFoldSet, J!Max, Max
<1> QED
  BY <1>4, <1>5 DEF JoinedList

(* What a filter joins: nothing, or one element, for each.                 *)
LEMMA PassingIsList ==
  ASSUME NEW s, IsList(s), NEW f, DOMAIN f = DOMAIN s, f = [i \in DOMAIN s |-> f[i]],
         \A i \in DOMAIN s : f[i] \in {<<>>, <<s[i]>>}
  PROVE  IsList(Joined(f))
<1>1. Len(s) \in Nat /\ DOMAIN s = 1..Len(s)
  BY ListFacts
<1>2. f \in Seq({f[i] : i \in DOMAIN s})
  BY <1>1
<1>3. \A i \in DOMAIN s : <<s[i]>> \in Seq({s[i]}) /\ <<>> \in Seq({})
  OBVIOUS
<1>4. \A i \in DOMAIN s : IsList(f[i])
  BY <1>3, ListOf
<1> QED
  BY <1>2, <1>4, ListOf, JoinedIsList

-----------------------------------------------------------------------------
IsCollection(c) ==
    /\ c = [l \in ListNames \cup {"truncated"} |-> c[l]]
    /\ \A l \in ListNames : IsList(c[l])
    /\ c.truncated \in BOOLEAN

IsVisit(v) ==
    /\ v = [lists |-> v.lists, limits |-> Limits, paths |-> v.paths, path |-> v.path]
    /\ IsCollection(v.lists)

(* The same visit, with more room.                                         *)
Roomier(v) == [lists |-> v.lists, limits |-> NoLimits, paths |-> v.paths, path |-> v.path]

(* What a step makes of a visit, and what it makes of it with more room:   *)
(* the same, unless something was cut, and that is never forgotten.        *)
InStep(before, after, roomy) ==
    /\ IsVisit(after)
    /\ ~after.lists.truncated => ~before.lists.truncated /\ roomy = Roomier(after)

(* The twin has at least the room of the pass, of everything.              *)
LEMMA LimitFacts ==
  ASSUME NEW l \in ListNames
  PROVE  Limits[l] \in Nat /\ NoLimits[l] \in Nat /\ Limits[l] <= NoLimits[l]
<1>1. l \in LimitNames /\ l \notin SilentLimits
  BY DEF LimitNames, SilentLimits, ListNames
<1>2. Limits[l] \in Nat /\ Spare \in Nat
  BY <1>1, LimitsAreNumbers, SpareIsNumber
<1>3. NoLimits[l] = Limits[l] + Spare
  BY <1>1 DEF NoLimits
<1> QED
  BY <1>2, <1>3

(* A record is added or the collection is truncated, and what was not      *)
(* truncated was added by the twin too.                                    *)
LEMMA AddedFacts ==
  ASSUME NEW c, IsCollection(c), NEW list \in ListNames, NEW item
  PROVE  /\ IsCollection(Added(c, list, item, Limits))
         /\ ~Added(c, list, item, Limits).truncated =>
                ~c.truncated /\ Added(c, list, item, NoLimits) = Added(c, list, item, Limits)
<1>1. IsList(c[list]) /\ Len(c[list]) \in Nat
  BY ListFacts DEF IsCollection
<1>2. Limits[list] \in Nat /\ NoLimits[list] \in Nat /\ Limits[list] <= NoLimits[list]
  BY LimitFacts
<1>3. IsList(Append(c[list], item))
  BY <1>1, AppendIsList
<1>4. CASE Len(c[list]) < Limits[list]
  <2>1. Len(c[list]) < NoLimits[list]
    BY <1>1, <1>2, <1>4
  <2> DEFINE d == [c EXCEPT ![list] = Append(c[list], item)]
  <2>2. Added(c, list, item, Limits) = d /\ Added(c, list, item, NoLimits) = d
    BY <1>4, <2>1 DEF Added
  <2>3. \A l \in ListNames : d[l] = (IF l = list THEN Append(c[list], item) ELSE c[l])
    BY DEF IsCollection, ListNames
  <2>4. /\ d = [l \in ListNames \cup {"truncated"} |-> d[l]]
        /\ d.truncated = c.truncated
    BY DEF IsCollection, ListNames
  <2>5. IsCollection(d)
    <3> HIDE DEF d
    <3>1. \A l \in ListNames : IsList(d[l])
      BY <1>3, <2>3 DEF IsCollection
    <3> QED BY <2>4, <3>1 DEF IsCollection
  <2> HIDE DEF d
  <2> QED
    BY <2>2, <2>4, <2>5
<1>5. CASE ~(Len(c[list]) < Limits[list])
  <2> DEFINE d == [c EXCEPT !.truncated = TRUE]
  <2>1. Added(c, list, item, Limits) = d
    BY <1>5 DEF Added
  <2>2. /\ d = [l \in ListNames \cup {"truncated"} |-> d[l]]
        /\ d.truncated = TRUE /\ \A l \in ListNames : d[l] = c[l]
    BY DEF IsCollection, ListNames
  <2>3. IsCollection(d)
    <3> HIDE DEF d
    <3> QED BY <2>2 DEF IsCollection
  <2> HIDE DEF d
  <2> QED
    BY <2>1, <2>2, <2>3
<1> QED
  BY <1>4, <1>5

(* A step of a visit, with the limits and with more room: the two stay in  *)
(* step.                                                                   *)
LEMMA CapFacts ==
  ASSUME NEW v, IsVisit(v), NEW list \in ListNames, NEW item
  PROVE  InStep(v, Cap(v, list, item), Cap(Roomier(v), list, item))
<1>1. IsCollection(v.lists)
  BY DEF IsVisit
<1> DEFINE d == Added(v.lists, list, item, Limits)
           e == Added(v.lists, list, item, NoLimits)
<1>2. IsCollection(d) /\ (~d.truncated => ~v.lists.truncated /\ e = d)
  BY <1>1, AddedFacts
<1>3. Cap(v, list, item) = [lists |-> d, limits |-> Limits, paths |-> v.paths, path |-> v.path]
  <2> HIDE DEF d
  <2>1. v.limits = Limits
    BY DEF IsVisit
  <2>2. Cap(v, list, item) = [v EXCEPT !.lists = d]
    BY <2>1 DEF Cap, d
  <2> QED BY <2>2 DEF IsVisit
<1>4. Cap(Roomier(v), list, item) =
        [lists |-> e, limits |-> NoLimits, paths |-> v.paths, path |-> v.path]
  <2> HIDE DEF e
  <2>1. Cap(Roomier(v), list, item) = [Roomier(v) EXCEPT !.lists = e]
    BY DEF Cap, e, Roomier
  <2> QED BY <2>1 DEF Roomier
<1> HIDE DEF d, e
<1> QED
  BY <1>2, <1>3, <1>4 DEF InStep, IsVisit, Roomier


VisitFold(c, k, a) ==
    /\ IsVisit(a)
    /\ ~a.lists.truncated => ~c[2].lists.truncated /\ c[1][k] = Roomier(a)

FF == INSTANCE FoldTheorems WITH Op <- CapFact, Holds <- VisitFold
FE == INSTANCE FoldTheorems WITH Op <- CapEntry, Holds <- VisitFold
FN == INSTANCE FoldTheorems WITH Op <- AddNode, Holds <- VisitFold

(* The facts and the entry points of one node, each capped on its own.     *)
LEMMA FactsInStep ==
  ASSUME NEW v, IsVisit(v), NEW s, IsList(s)
  PROVE  InStep(v, FoldLeft(CapFact, v, s), FoldLeft(CapFact, Roomier(v), s))
<1>1. Len(s) \in Nat /\ DOMAIN s = 1..Len(s)
  BY ListFacts
<1>2. PICK h : /\ h[0] = Roomier(v)
               /\ \A k \in 1..Len(s) : h[k] = CapFact(h[k - 1], s[k])
               /\ h[Len(s)] = FF!FoldLeft(CapFact, Roomier(v), s)
  BY <1>1, FF!FoldSteps
<1>3. VisitFold(<<h, v>>, 0, v)
  BY <1>2 DEF VisitFold
<1>4. ASSUME NEW k \in 1..Len(s), NEW a, VisitFold(<<h, v>>, k - 1, a)
      PROVE  VisitFold(<<h, v>>, k, CapFact(a, s[k]))
  <2>1. InStep(a, CapFact(a, s[k]), CapFact(Roomier(a), s[k]))
    BY <1>4, CapFacts DEF VisitFold, CapFact, ListNames
  <2> QED
    BY <1>2, <1>4, <2>1 DEF VisitFold, InStep
<1>5. VisitFold(<<h, v>>, Len(s), FF!FoldLeft(CapFact, v, s))
  BY <1>1, <1>3, <1>4, FF!FoldHolds
<1>6. \A b : FF!FoldLeft(CapFact, b, s) = FoldLeft(CapFact, b, s)
  BY DEF FF!FoldLeft, FoldLeft, FF!MapThenFoldSet, MapThenFoldSet, FF!Max, Max
<1> QED
  BY <1>2, <1>5, <1>6 DEF VisitFold, InStep

(* The same of its entry points.                                           *)
LEMMA EntriesInStep ==
  ASSUME NEW v, IsVisit(v), NEW s, IsList(s)
  PROVE  InStep(v, FoldLeft(CapEntry, v, s), FoldLeft(CapEntry, Roomier(v), s))
<1>1. Len(s) \in Nat /\ DOMAIN s = 1..Len(s)
  BY ListFacts
<1>2. PICK h : /\ h[0] = Roomier(v)
               /\ \A k \in 1..Len(s) : h[k] = CapEntry(h[k - 1], s[k])
               /\ h[Len(s)] = FE!FoldLeft(CapEntry, Roomier(v), s)
  BY <1>1, FE!FoldSteps
<1>3. VisitFold(<<h, v>>, 0, v)
  BY <1>2 DEF VisitFold
<1>4. ASSUME NEW k \in 1..Len(s), NEW a, VisitFold(<<h, v>>, k - 1, a)
      PROVE  VisitFold(<<h, v>>, k, CapEntry(a, s[k]))
  <2>1. InStep(a, CapEntry(a, s[k]), CapEntry(Roomier(a), s[k]))
    BY <1>4, CapFacts DEF VisitFold, CapEntry, ListNames
  <2> QED
    BY <1>2, <1>4, <2>1 DEF VisitFold, InStep
<1>5. VisitFold(<<h, v>>, Len(s), FE!FoldLeft(CapEntry, v, s))
  BY <1>1, <1>3, <1>4, FE!FoldHolds
<1>6. \A b : FE!FoldLeft(CapEntry, b, s) = FoldLeft(CapEntry, b, s)
  BY DEF FE!FoldLeft, FoldLeft, FE!MapThenFoldSet, MapThenFoldSet, FE!Max, Max
<1> QED
  BY <1>2, <1>5, <1>6 DEF VisitFold, InStep

(* What one node gives is a list.                                          *)
LEMMA FewIsList ==
  /\ IsList(<<>>)
  /\ \A x : IsList(<<x>>)
<1>1. <<>> \in Seq({}) /\ \A x : <<x>> \in Seq({x})
  OBVIOUS
<1> QED
  BY <1>1, ListOf

(* The facts one node states.                                              *)
LEMMA FactsOfIsList ==
  ASSUME NEW v, NEW node PROVE IsList(FactsOf(v, node))
<1> DEFINE o == IF node.owner = "none" /\ node.fact \in {"authentication", "authorization"}
                THEN CallbackSymbol(v.lists, v.path, node) ELSE node.owner
           s == IF node.fact = "none" THEN <<>> ELSE <<FactAt(v.path, node.fact, o)>>
           t == IF Scoped(node, v.limits) THEN <<FactAt(v.path, "resource-scope", node.owner)>>
                ELSE <<>>
<1>1. FactsOf(v, node) = s \o t
  BY DEF FactsOf
<1>2. IsList(s) /\ IsList(t)
  <2> HIDE DEF o
  <2> QED BY FewIsList
<1> HIDE DEF s, t
<1> QED
  BY <1>1, <1>2, ConcatIsList

(* They are the same with more room.                                       *)
LEMMA FactsOfRoomier ==
  ASSUME NEW v, IsVisit(v), NEW node PROVE FactsOf(Roomier(v), node) = FactsOf(v, node)
<1>1. NoLimits.scopeNodes = Limits.scopeNodes
  BY DEF NoLimits, LimitNames, SilentLimits
<1>2. /\ Roomier(v).path = v.path /\ Roomier(v).lists = v.lists
      /\ Roomier(v).limits.scopeNodes = v.limits.scopeNodes
  BY <1>1 DEF IsVisit, Roomier
<1>3. Scoped(node, Roomier(v).limits) = Scoped(node, v.limits)
  BY <1>2 DEF Scoped
<1> QED
  BY <1>2, <1>3 DEF FactsOf

(* What guards one node.                                                   *)
LEMMA GuardsOfIsList ==
  ASSUME NEW path, NEW node, NEW procedure PROVE IsList(GuardsOf(path, node, procedure))
<1> DEFINE guard(kind) == IF procedure /\ kind \in node.guards
                          THEN <<FactAt(path, kind, node.callback)>> ELSE <<>>
           member == IF node.member /\ node.owner # "none"
                     THEN <<FactAt(path, "authentication", node.owner)>> ELSE <<>>
           s == guard("authentication")
           t == guard("validation")
<1>1. GuardsOf(path, node, procedure) = (s \o t) \o member
  BY DEF GuardsOf
<1>2. IsList(s) /\ IsList(t) /\ IsList(member)
  BY FewIsList
<1> HIDE DEF s, t, member
<1>3. IsList(s \o t)
  BY <1>2, ConcatIsList
<1> QED
  BY <1>1, <1>2, <1>3, ConcatIsList

(* The entry points one node is.                                           *)
LEMMA EntriesOfIsList ==
  ASSUME NEW c, NEW path, NEW node PROVE IsList(EntriesOf(c, path, node))
BY FewIsList DEF EntriesOf

(* A call, with all that it adds: itself, its facts, its entry point and   *)
(* what guards it.                                                         *)
LEMMA CallInStep ==
  ASSUME NEW v, IsVisit(v), NEW node
  PROVE  InStep(v, AddCall(v, node), AddCall(Roomier(v), node))
<1> DEFINE call == [file |-> v.path, first |-> node.first, last |-> node.last,
                    caller |-> node.owner]
           facts == FactsOf(v, node)
           entries == EntriesOf(v.lists, v.path, node)
           r == Roomier(v)
           v1 == Cap(v, "calls", call)
           r1 == Cap(r, "calls", call)
           v2 == FoldLeft(CapFact, v1, facts)
           r2 == FoldLeft(CapFact, r1, facts)
           v3 == FoldLeft(CapEntry, v2, entries)
           r3 == FoldLeft(CapEntry, r2, entries)
           entered(w) == /\ node.entry = "procedure"
                         /\ Len(w.lists.entrypoints) > Len(v.lists.entrypoints)
           guards == GuardsOf(v.path, node, entered(v3))
           others == GuardsOf(v.path, node, entered(r3))
           v4 == FoldLeft(CapFact, v3, guards)
<1>1. AddCall(v, node) = v4 /\ AddCall(r, node) = FoldLeft(CapFact, r3, others)
  <2>1. FactsOf(r, node) = facts
    BY FactsOfRoomier
  <2>2. r.path = v.path /\ r.lists = v.lists
    BY DEF Roomier
  <2> HIDE DEF r, facts
  <2> QED BY <2>1, <2>2 DEF AddCall, facts
<1>2. InStep(v, v1, r1)
  BY CapFacts DEF ListNames
<1>3. InStep(v, v2, r2)
  <2> HIDE DEF v1, r1, facts
  <2>1. IsVisit(v1) /\ IsList(facts)
    BY <1>2, FactsOfIsList DEF InStep, facts
  <2>2. InStep(v1, v2, FoldLeft(CapFact, Roomier(v1), facts))
    BY <2>1, FactsInStep
  <2> QED
    BY <1>2, <2>2 DEF InStep
<1>4. InStep(v, v3, r3)
  <2> HIDE DEF v2, r2, entries
  <2>1. IsVisit(v2) /\ IsList(entries)
    BY <1>3, EntriesOfIsList DEF InStep, entries
  <2>2. InStep(v2, v3, FoldLeft(CapEntry, Roomier(v2), entries))
    BY <2>1, EntriesInStep
  <2> QED
    BY <1>3, <2>2 DEF InStep
<1>5. InStep(v3, v4, FoldLeft(CapFact, Roomier(v3), guards))
  <2> HIDE DEF v3, guards
  <2>1. IsVisit(v3) /\ IsList(guards)
    BY <1>4, GuardsOfIsList DEF InStep, guards
  <2> QED
    BY <2>1, FactsInStep
<1>6. ~v3.lists.truncated => others = guards
  <2> HIDE DEF v3, r3
  <2>1. ~v3.lists.truncated => Roomier(v3).lists = r3.lists
    BY <1>4 DEF InStep
  <2>2. ~v3.lists.truncated => entered(r3) = entered(v3)
    BY <2>1 DEF Roomier
  <2> HIDE DEF entered
  <2> QED
    BY <2>2
<1>7. AddCall(Roomier(v), node) = FoldLeft(CapFact, r3, others)
  BY <1>1 DEF r
<1>8. IsVisit(v4)
  BY <1>5 DEF InStep
<1>9. ASSUME ~v4.lists.truncated
      PROVE  ~v.lists.truncated /\ FoldLeft(CapFact, r3, others) = Roomier(v4)
  <2> HIDE DEF v3, r3, v4, guards, others
  <2>1. ~v3.lists.truncated /\ FoldLeft(CapFact, Roomier(v3), guards) = Roomier(v4)
    BY <1>5, <1>9 DEF InStep
  <2>2. ~v.lists.truncated /\ r3 = Roomier(v3)
    BY <1>4, <2>1 DEF InStep
  <2> QED BY <1>6, <2>1, <2>2
<1> HIDE DEF r, v3, r3, v4, guards, others
<1> QED
  BY <1>1, <1>7, <1>8, <1>9 DEF InStep

(* Whatever the node is, it keeps the pass and its twin in step.           *)
LEMMA NodeInStep ==
  ASSUME NEW v, IsVisit(v), NEW node
  PROVE  InStep(v, AddNode(v, node), AddNode(Roomier(v), node))
<1>0. /\ Roomier(v).path = v.path /\ Roomier(v).paths = v.paths
      /\ Roomier(v).limits.bindings = v.limits.bindings
  <2>1. NoLimits.bindings = Limits.bindings
    BY DEF NoLimits, LimitNames, SilentLimits
  <2>2. v.limits = Limits
    BY DEF IsVisit
  <2> QED BY <2>1, <2>2 DEF Roomier
<1>1. CASE node.kind = "function"
  <2>1. \A w : AddNode(w, node) = Cap(w, "symbols", FunctionSymbol(w.path, node))
    BY <1>1 DEF AddNode
  <2> QED BY <1>0, <2>1, CapFacts DEF ListNames
<1>2. CASE node.kind = "import"
  <2> DEFINE item(w) == [file |-> w.path, resolved |-> ResolveImport(w.paths, node.candidates),
                         bindings |-> ImportBindings(node, w.limits)]
  <2>1. \A w : AddNode(w, node) = Cap(w, "imports", item(w))
    BY <1>2 DEF AddNode, AddImport
  <2>2. item(Roomier(v)) = item(v)
    BY <1>0 DEF ImportBindings
  <2> HIDE DEF item
  <2> QED BY <2>1, <2>2, CapFacts DEF ListNames
<1>3. CASE node.kind = "call"
  <2>1. \A w : AddNode(w, node) = AddCall(w, node)
    BY <1>3 DEF AddNode
  <2> QED BY <2>1, CallInStep
<1>4. CASE node.kind \notin {"function", "import", "call"}
  <2>1. \A w : AddNode(w, node) = Cap(w, "facts", FactAt(w.path, node.kind, node.owner))
    BY <1>4 DEF AddNode, CapFact
  <2> QED BY <1>0, <2>1, CapFacts DEF ListNames
<1> QED
  BY <1>1, <1>2, <1>3, <1>4

(* So do all nodes of a file.                                              *)
LEMMA NodesInStep ==
  ASSUME NEW v, IsVisit(v), NEW s, IsList(s)
  PROVE  InStep(v, FoldLeft(AddNode, v, s), FoldLeft(AddNode, Roomier(v), s))
<1>1. Len(s) \in Nat /\ DOMAIN s = 1..Len(s)
  BY ListFacts
<1>2. PICK h : /\ h[0] = Roomier(v)
               /\ \A k \in 1..Len(s) : h[k] = AddNode(h[k - 1], s[k])
               /\ h[Len(s)] = FN!FoldLeft(AddNode, Roomier(v), s)
  BY <1>1, FN!FoldSteps
<1>3. VisitFold(<<h, v>>, 0, v)
  BY <1>2 DEF VisitFold
<1>4. ASSUME NEW k \in 1..Len(s), NEW a, VisitFold(<<h, v>>, k - 1, a)
      PROVE  VisitFold(<<h, v>>, k, AddNode(a, s[k]))
  <2>1. InStep(a, AddNode(a, s[k]), AddNode(Roomier(a), s[k]))
    BY <1>4, NodeInStep DEF VisitFold
  <2> QED
    BY <1>2, <1>4, <2>1 DEF VisitFold, InStep
<1>5. VisitFold(<<h, v>>, Len(s), FN!FoldLeft(AddNode, v, s))
  BY <1>1, <1>3, <1>4, FN!FoldHolds
<1>6. \A b : FN!FoldLeft(AddNode, b, s) = FoldLeft(AddNode, b, s)
  BY DEF FN!FoldLeft, FoldLeft, FN!MapThenFoldSet, MapThenFoldSet, FN!Max, Max
<1> QED
  BY <1>2, <1>5, <1>6 DEF VisitFold, InStep

-----------------------------------------------------------------------------
(* A list has as many elements after each was changed.                     *)
LEMMA MapIsList ==
  ASSUME NEW s, IsList(s), NEW f, f = [i \in DOMAIN s |-> f[i]]
  PROVE  IsList(f) /\ Len(f) = Len(s)
<1>1. DOMAIN s = 1..Len(s) /\ Len(s) \in Nat
  BY ListFacts
<1>2. f \in Seq({f[i] : i \in DOMAIN s}) /\ Len(f) = Len(s)
  BY <1>1
<1> QED
  BY <1>2, ListOf

(* The entry points of a file whose declarations are entry points, or      *)
(* whose methods are.                                                      *)
LEMMA PerSymbolIsList ==
  ASSUME NEW kind, NEW file, NEW s, IsList(s) PROVE IsList(PerSymbol(kind, file, s))
<1> DEFINE f == PerSymbol(kind, file, s)
<1>1. f = [i \in DOMAIN s |-> f[i]]
  BY DEF PerSymbol
<1> HIDE DEF f
<1> QED
  BY <1>1, MapIsList DEF f

(* The entry points of a file, from what was collected of its symbols, are *)
(* the same in both.                                                       *)
LEMMA EntrypointsOfFile ==
  ASSUME NEW c, IsCollection(c), NEW file, IsList(file.methods)
  PROVE  /\ IsList(FileEntrypoints(c, file, Limits))
         /\ FileEntrypoints(c, file, NoLimits) = FileEntrypoints(c, file, Limits)
<1>1. IsList(c.symbols)
  BY DEF IsCollection, ListNames
<1>2. IsList(SymbolsOf(c, file))
  <2> DEFINE s == c.symbols
             f == [i \in DOMAIN s |-> IF s[i].file = file.path THEN <<s[i]>> ELSE <<>>]
  <2>1. SymbolsOf(c, file) = Joined(f)
    BY DEF SymbolsOf, Passing
  <2>2. DOMAIN f = DOMAIN s /\ f = [i \in DOMAIN s |-> f[i]]
        /\ \A i \in DOMAIN s : f[i] \in {<<>>, <<s[i]>>}
    OBVIOUS
  <2> HIDE DEF f
  <2> QED BY <1>1, <2>1, <2>2, PassingIsList
<1> DEFINE of == SymbolsOf(c, file)
<1>3. IsList(InlineActions(c, file))
  <2> DEFINE f == [i \in DOMAIN of |-> IF of[i].inline THEN <<of[i]>> ELSE <<>>]
  <2>1. InlineActions(c, file) = PerSymbol("server-action", file, Joined(f))
    BY DEF InlineActions, Passing
  <2>2. DOMAIN f = DOMAIN of /\ f = [i \in DOMAIN of |-> f[i]]
        /\ \A i \in DOMAIN of : f[i] \in {<<>>, <<of[i]>>}
    OBVIOUS
  <2> HIDE DEF f, of
  <2>3. IsList(Joined(f))
    BY <1>2, <2>2, PassingIsList DEF of
  <2> QED BY <2>1, <2>3, PerSymbolIsList
<1> DEFINE exported == Joined([i \in DOMAIN of |-> IF of[i].exported THEN <<of[i]>> ELSE <<>>])
<1>4. IsList(exported)
  <2> DEFINE f == [i \in DOMAIN of |-> IF of[i].exported THEN <<of[i]>> ELSE <<>>]
  <2>1. exported = Joined(f)
    OBVIOUS
  <2>2. DOMAIN f = DOMAIN of /\ f = [i \in DOMAIN of |-> f[i]]
        /\ \A i \in DOMAIN of : f[i] \in {<<>>, <<of[i]>>}
    OBVIOUS
  <2> HIDE DEF f, of, exported
  <2> QED BY <1>2, <2>1, <2>2, PassingIsList DEF of
<1> DEFINE handlers == Joined([i \in DOMAIN exported |->
                        IF exported[i].name = "handler" THEN <<exported[i]>> ELSE <<>>])
<1>5. IsList(UpTo(handlers, 1))
  <2> DEFINE f == [i \in DOMAIN exported |->
                    IF exported[i].name = "handler" THEN <<exported[i]>> ELSE <<>>]
  <2>1. handlers = Joined(f)
    OBVIOUS
  <2>2. DOMAIN f = DOMAIN exported /\ f = [i \in DOMAIN exported |-> f[i]]
        /\ \A i \in DOMAIN exported : f[i] \in {<<>>, <<exported[i]>>}
    OBVIOUS
  <2> HIDE DEF f, exported, handlers
  <2> QED BY <1>4, <2>1, <2>2, PassingIsList, UpToFacts
<1>6. IsList(NextRoutes(c, file))
  <2> DEFINE f == NextRoutes(c, file)
  <2>1. f = [m \in DOMAIN file.methods |-> f[m]]
    BY DEF NextRoutes
  <2> HIDE DEF f
  <2> QED BY <2>1, MapIsList DEF f
<1> DEFINE named(L) == {s.name : s \in ToSet(UpTo(exported, L.entrySymbols))}
           pages(L) == EntryOf("next-pages-api", file, named(L), <<>>)
           guard(L) == EntryOf("middleware", file, named(L), UpTo(file.matchers, L.matchers))
           e1 == InRole(file, "next-route", NextRoutes(c, file))
           e2(L) == InRole(file, "next-pages-api", <<pages(L)>>)
           e3 == InRole(file, "server-action", PerSymbol("server-action", file, exported))
           e4 == InRole(file, "aws-lambda", PerSymbol("aws-lambda", file, UpTo(handlers, 1)))
           e5 == InlineActions(c, file)
           e6(L) == InRole(file, "middleware", <<guard(L)>>)
<1>7. \A L : FileEntrypoints(c, file, L) = ((((e1 \o e2(L)) \o e3) \o e4) \o e5) \o e6(L)
  BY DEF FileEntrypoints, Passing, FirstSuch
<1>8. e2(NoLimits) = e2(Limits) /\ e6(NoLimits) = e6(Limits)
  <2>1. NoLimits.entrySymbols = Limits.entrySymbols /\ NoLimits.matchers = Limits.matchers
    BY DEF NoLimits, LimitNames, SilentLimits
  <2> HIDE DEF exported
  <2> QED BY <2>1
<1>9. \A role, entries : IsList(entries) => IsList(InRole(file, role, entries))
  BY FewIsList DEF InRole
<1>10. IsList(e1) /\ IsList(e2(Limits)) /\ IsList(e3) /\ IsList(e4) /\ IsList(e6(Limits))
  <2>1. IsList(PerSymbol("server-action", file, exported))
        /\ IsList(PerSymbol("aws-lambda", file, UpTo(handlers, 1)))
    <3> HIDE DEF exported, handlers
    <3> QED BY <1>4, <1>5, PerSymbolIsList
  <2>2. IsList(<<pages(Limits)>>) /\ IsList(<<guard(Limits)>>)
    <3> HIDE DEF pages, guard
    <3> QED BY FewIsList
  <2> HIDE DEF exported, handlers, pages, guard
  <2> QED BY <1>6, <1>9, <2>1, <2>2
<1>11. IsList(FileEntrypoints(c, file, Limits))
  <2> DEFINE two == e1 \o e2(Limits)
             three == two \o e3
             four == three \o e4
             five == four \o e5
  <2>1. IsList(two)
    <3> HIDE DEF e1, e2
    <3> QED BY <1>10, ConcatIsList
  <2>2. IsList(three)
    <3> HIDE DEF two, e3
    <3> QED BY <1>10, <2>1, ConcatIsList
  <2>3. IsList(four)
    <3> HIDE DEF three, e4
    <3> QED BY <1>10, <2>2, ConcatIsList
  <2>4. IsList(five)
    <3> HIDE DEF four
    <3> QED BY <1>3, <2>3, ConcatIsList
  <2>5. FileEntrypoints(c, file, Limits) = five \o e6(Limits)
    BY <1>7
  <2> HIDE DEF five, e6
  <2> QED BY <1>10, <2>4, <2>5, ConcatIsList
<1>12. FileEntrypoints(c, file, NoLimits) = FileEntrypoints(c, file, Limits)
  <2> HIDE DEF e1, e2, e3, e4, e5, e6
  <2> QED BY <1>7, <1>8
<1> QED
  BY <1>11, <1>12

(* The limits that are no lists.                                           *)
LEMMA OtherLimits ==
  /\ Limits.nodes \in Nat /\ NoLimits.nodes \in Nat /\ Limits.nodes <= NoLimits.nodes
  /\ Limits.files \in Nat /\ NoLimits.files \in Nat /\ Limits.files <= NoLimits.files
  /\ Limits.edges \in Nat /\ NoLimits.edges \in Nat /\ Limits.edges <= NoLimits.edges
  /\ Limits.components \in Nat /\ NoLimits.components \in Nat
  /\ Limits.components <= NoLimits.components
  /\ Limits.componentEdges \in Nat /\ NoLimits.componentEdges \in Nat
  /\ Limits.componentEdges <= NoLimits.componentEdges
<1> DEFINE others == {"files", "nodes", "edges", "components", "componentEdges"}
<1>1. \A l \in others :
        /\ l \in LimitNames /\ l \notin SilentLimits
  BY DEF LimitNames, SilentLimits
<1>2. Spare \in Nat /\ \A l \in others : Limits[l] \in Nat
  BY <1>1, LimitsAreNumbers, SpareIsNumber
<1>3. \A l \in others : NoLimits[l] = Limits[l] + Spare
  BY <1>1 DEF NoLimits
<1>4. \A l \in others :
        Limits[l] \in Nat /\ NoLimits[l] \in Nat /\ Limits[l] <= NoLimits[l]
  <2> HIDE DEF others
  <2> QED BY <1>2, <1>3
<1> QED
  BY <1>4

(* A file of which nothing is cut adds the same with more room.            *)
LEMMA FileInStep ==
  ASSUME NEW c, IsCollection(c), NEW file, IsList(file.nodes), IsList(file.methods), NEW paths
  PROVE  LET a == VisitFileIn(c, file, paths, Limits)
         IN  /\ IsCollection(a)
             /\ ~a.truncated => /\ ~c.truncated
                                /\ VisitFileIn(c, file, paths, NoLimits) = a
<1> DEFINE v == [lists |-> c, limits |-> Limits, paths |-> paths, path |-> file.path]
           s == UpTo(file.nodes, Limits.nodes)
           w == FoldLeft(AddNode, v, s)
           d == w.lists
           long == Len(file.nodes) > Limits.nodes
           bounded == [d EXCEPT !.truncated = d.truncated \/ long]
           entries == FileEntrypoints(bounded, file, Limits)
           full == [bounded EXCEPT !.truncated = TRUE]
           more == [bounded EXCEPT !.entrypoints = bounded.entrypoints \o entries]
<1>1. IsVisit(v) /\ v.lists = c
  BY DEF IsVisit
<1>2. IsList(s) /\ Len(file.nodes) \in Nat
  BY OtherLimits, UpToFacts, ListFacts
<1>3. InStep(v, w, FoldLeft(AddNode, Roomier(v), s))
  <2> HIDE DEF v, s
  <2> QED BY <1>1, <1>2, NodesInStep
<1>4. IsCollection(d) /\ (~d.truncated => ~c.truncated)
  <2> HIDE DEF v, s, w
  <2> QED BY <1>1, <1>3 DEF InStep, IsVisit
<1>5. Visit(c, file, paths, Limits) = d
  BY DEF Visit
<1>6. VisitFileIn(c, file, paths, Limits) =
        IF Len(bounded.entrypoints) >= Limits.entrypoints THEN full ELSE more
  <2> HIDE DEF d, long
  <2> QED BY <1>5 DEF VisitFileIn, long
<1>7. /\ IsCollection(bounded) /\ bounded.truncated = (d.truncated \/ long)
      /\ bounded.entrypoints = d.entrypoints
  <2> HIDE DEF d
  <2>1. /\ bounded = [l \in ListNames \cup {"truncated"} |-> bounded[l]]
        /\ bounded.truncated = (d.truncated \/ long) /\ \A l \in ListNames : bounded[l] = d[l]
    BY <1>4 DEF IsCollection, ListNames
  <2>2. bounded.truncated \in BOOLEAN
    BY <1>4, <2>1 DEF IsCollection
  <2> HIDE DEF bounded
  <2> QED BY <1>4, <2>1, <2>2 DEF IsCollection, ListNames
<1>8. IsList(bounded.entrypoints) /\ Len(bounded.entrypoints) \in Nat
  <2> HIDE DEF bounded
  <2> QED BY <1>7, ListFacts DEF IsCollection, ListNames
<1>9. IsList(entries) /\ FileEntrypoints(bounded, file, NoLimits) = entries
  <2> HIDE DEF bounded
  <2> QED BY <1>7, EntrypointsOfFile
<1>10. /\ IsCollection(full) /\ full.truncated = TRUE
       /\ IsCollection(more) /\ more.truncated = bounded.truncated
  <2>1. IsList(bounded.entrypoints \o entries)
    <3> HIDE DEF bounded, entries
    <3> QED BY <1>8, <1>9, ConcatIsList
  <2> HIDE DEF bounded, entries
  <2>2. /\ full = [l \in ListNames \cup {"truncated"} |-> full[l]]
        /\ full.truncated = TRUE /\ \A l \in ListNames : full[l] = bounded[l]
    BY <1>7 DEF IsCollection, ListNames
  <2>3. /\ more = [l \in ListNames \cup {"truncated"} |-> more[l]]
        /\ more.truncated = bounded.truncated
        /\ \A l \in ListNames : more[l] = IF l = "entrypoints" THEN bounded.entrypoints \o entries
                                          ELSE bounded[l]
    BY <1>7 DEF IsCollection, ListNames
  <2> HIDE DEF full, more
  <2>4. IsCollection(full)
    BY <1>7, <2>2 DEF IsCollection
  <2>5. IsCollection(more)
    BY <1>7, <2>1, <2>3 DEF IsCollection
  <2> QED BY <2>2, <2>3, <2>4, <2>5
<1>11. ASSUME ~bounded.truncated, ~(Len(bounded.entrypoints) >= Limits.entrypoints)
       PROVE  VisitFileIn(c, file, paths, NoLimits) = more
  <2>1. ~d.truncated /\ ~long
    <3> HIDE DEF bounded, d, long
    <3> QED BY <1>4, <1>7, <1>11 DEF IsCollection
  <2>2. s = file.nodes /\ UpTo(file.nodes, NoLimits.nodes) = file.nodes
        /\ ~(Len(file.nodes) > NoLimits.nodes)
    <3>1. Len(file.nodes) <= Limits.nodes /\ Len(file.nodes) <= NoLimits.nodes
      BY <1>2, <2>1, OtherLimits
    <3> QED BY <1>2, <3>1, OtherLimits, UpToFacts
  <2>3. FoldLeft(AddNode, Roomier(v), s) = Roomier(w)
    <3> HIDE DEF v, s, w
    <3> QED BY <1>3, <2>1 DEF InStep
  <2>4. Visit(c, file, paths, NoLimits) = d
    <3>1. Roomier(v) = [lists |-> c, limits |-> NoLimits, paths |-> paths, path |-> file.path]
      BY DEF Roomier
    <3> HIDE DEF v, s, w
    <3> QED BY <2>2, <2>3, <3>1 DEF Visit, Roomier
  <2>5. ~(Len(bounded.entrypoints) >= NoLimits.entrypoints)
    <3> HIDE DEF bounded
    <3> QED BY <1>8, <1>11, LimitFacts DEF ListNames
  <2>6. [d EXCEPT !.truncated = d.truncated \/ Len(file.nodes) > NoLimits.nodes] = bounded
    <3>1. (d.truncated \/ Len(file.nodes) > NoLimits.nodes) = (d.truncated \/ long)
      BY <2>1, <2>2
    <3> HIDE DEF d, long
    <3> QED BY <3>1
  <2> HIDE DEF d, bounded, entries
  <2> QED
    BY <1>9, <2>4, <2>5, <2>6 DEF VisitFileIn
<1> HIDE DEF d, long, bounded, full, more
<1> QED
  BY <1>4, <1>6, <1>7, <1>10, <1>11

-----------------------------------------------------------------------------
(* What the end of the profile goes over is lists.                         *)
LEMMA ResolvedIsList ==
  ASSUME NEW c, IsCollection(c) PROVE IsList(Resolved(c))
<1> DEFINE s == c.calls
           f == [i \in DOMAIN s |-> IF Target(c, s[i]) # <<>> THEN <<s[i]>> ELSE <<>>]
<1>1. Resolved(c) = Joined(f)
  BY DEF Resolved, Passing
<1>2. IsList(s)
  BY DEF IsCollection, ListNames
<1>3. /\ DOMAIN f = DOMAIN s /\ f = [i \in DOMAIN s |-> f[i]]
      /\ \A i \in DOMAIN s : f[i] \in {<<>>, <<s[i]>>}
  OBVIOUS
<1> HIDE DEF f, s
<1> QED
  BY <1>1, <1>2, <1>3, PassingIsList

(* The imports between components.                                         *)
LEMMA ImportsAreList ==
  ASSUME NEW c, IsCollection(c), NEW roots PROVE IsList(ComponentImports(c, roots))
<1> DEFINE From(i) == ComponentOwner(roots, i.file)
           To(i) == IF i.resolved = <<>> THEN <<>> ELSE ComponentOwner(roots, i.resolved[1])
           s == c.imports
           f == [i \in DOMAIN s |->
                    IF <<>> \notin {From(s[i]), To(s[i])} /\ From(s[i]) # To(s[i])
                    THEN <<s[i]>> ELSE <<>>]
           crossing == Joined(f)
           all == ComponentImports(c, roots)
<1>1. all = [n \in DOMAIN crossing |-> From(crossing[n]) \o To(crossing[n])]
  BY DEF ComponentImports, Passing
<1>2. IsList(s)
  BY DEF IsCollection, ListNames
<1>3. /\ DOMAIN f = DOMAIN s /\ f = [i \in DOMAIN s |-> f[i]]
      /\ \A i \in DOMAIN s : f[i] \in {<<>>, <<s[i]>>}
  <2> HIDE DEF From, To
  <2> QED OBVIOUS
<1>4. IsList(crossing)
  <2> HIDE DEF f, s
  <2> QED BY <1>2, <1>3, PassingIsList
<1>5. all = [n \in DOMAIN crossing |-> all[n]]
  <2> HIDE DEF crossing, From, To
  <2> QED BY <1>1
<1> HIDE DEF all, crossing
<1> QED
  BY <1>4, <1>5, MapIsList DEF all

(* Counting: a list has finitely many elements.                            *)
LEMMA ListIsFinite ==
  ASSUME NEW s, IsList(s) PROVE IsFiniteSet(ToSet(s)) /\ Cardinality(ToSet(s)) \in Nat
<1>1. Len(s) \in Nat /\ DOMAIN s = 1..Len(s) /\ s \in Seq(ToSet(s))
  BY ListFacts
<1>2. s \in Surjection(1..Len(s), ToSet(s))
  BY <1>1 DEF Surjection, ToSet
<1>3. IsFiniteSet(1..Len(s))
  BY <1>1, FS_Interval
<1> QED
  BY <1>2, <1>3, FS_Surjection, FS_CardinalityType

(* Who is among so few is never beyond the limit.                          *)
LEMMA FewBefore ==
  ASSUME NEW S, IsFiniteSet(S), NEW n \in Nat, Cardinality(S) <= n,
         NEW e \in S, NEW T, T \subseteq S \ {e}
  PROVE  Cardinality(T) < n
<1>1. IsFiniteSet(S \ {e}) /\ Cardinality(S \ {e}) = Cardinality(S) - 1
  BY FS_RemoveElement
<1>2. IsFiniteSet(T) /\ Cardinality(T) <= Cardinality(S \ {e})
  BY <1>1, FS_Subset
<1>3. Cardinality(S) \in Nat /\ Cardinality(T) \in Nat
  BY <1>2, FS_CardinalityType
<1> QED
  BY <1>1, <1>2, <1>3

(* All edges, unless there are more than the limit.                        *)
LEMMA AllEdges ==
  ASSUME NEW c, IsCollection(c), NEW roots, NEW L, L.componentEdges \in Nat,
         Cardinality(ToSet(ComponentImports(c, roots))) <= L.componentEdges
  PROVE  ComponentEdges(c, roots, L) = ToSet(ComponentImports(c, roots))
<1> DEFINE all == ComponentImports(c, roots)
           S == ToSet(all)
           Imports(e) == Cardinality({i \in DOMAIN all : all[i] = e})
           Place(e) == <<CHOOSE i \in DOMAIN roots : roots[i] = e[1],
                         CHOOSE i \in DOMAIN roots : roots[i] = e[2]>>
           Before(d, e) == \/ Imports(d) > Imports(e)
                           \/ /\ Imports(d) = Imports(e)
                              /\ \/ Place(d)[1] < Place(e)[1]
                                 \/ (Place(d)[1] = Place(e)[1] /\ Place(d)[2] < Place(e)[2])
<1>1. ComponentEdges(c, roots, L)
        = {e \in S : Cardinality({d \in S \ {e} : Before(d, e)}) < L.componentEdges}
  BY DEF ComponentEdges
<1>2. IsFiniteSet(S)
  BY ImportsAreList, ListIsFinite
<1>3. \A e \in S : {d \in S \ {e} : Before(d, e)} \subseteq S \ {e}
  OBVIOUS
<1> HIDE DEF all, S, Before
<1>4. \A e \in S : Cardinality({d \in S \ {e} : Before(d, e)}) < L.componentEdges
  <2>1. Cardinality(S) <= L.componentEdges
    BY DEF all, S
  <2> QED BY <1>2, <1>3, <2>1, FewBefore
<1> QED
  BY <1>1, <1>4 DEF S, all

(* A profile that is complete is the one that would be made of the same    *)
(* collection without limits: none of the bounds of its end, for           *)
(* components, their edges and the targets of calls, was met.              *)
LEMMA SameProfile ==
  ASSUME NEW p \in Profiled, NEW c, IsCollection(c),
         Len(p.files) <= Limits.files, Len(c.entrypoints) <= Limits.entrypoints,
         ProfileOf(p, c, Limits).status = "complete"
  PROVE  ProfileOf(p, c, NoLimits) = ProfileOf(p, c, Limits)
<1> DEFINE invalid(L) == p.issues \/ \E f \in ToSet(Parsed(p, L)) : ~f.valid
           PerComponent(roots, s) == [i \in DOMAIN s |-> <<s[i], ComponentOwner(roots, s[i].file)>>]
           Profile(L, none, cut, wrong, roots, targeted, entries, edges) ==
             [status |-> IF none THEN "unsupported"
                         ELSE IF cut \/ wrong THEN "partial" ELSE "complete",
              symbols |-> PerComponent(roots, c.symbols), imports |-> PerComponent(roots, c.imports),
              facts |-> PerComponent(roots, c.facts), entrypoints |-> PerComponent(roots, entries),
              calls |-> [i \in DOMAIN targeted |-> <<targeted[i], Target(c, targeted[i])[1]>>],
              componentEdges |-> edges]
<1>1. \A L : ProfileOf(p, c, L) =
        Profile(L, Parsed(p, L) = <<>>, IsCut(p, c, L), invalid(L), Components(p, L),
                UpTo(Resolved(c), L.edges), UpTo(c.entrypoints, L.entrypoints),
                ComponentEdges(c, Components(p, L), L))
  BY DEF ProfileOf
<1>2. Parsed(p, Limits) # <<>> /\ ~IsCut(p, c, Limits) /\ ~invalid(Limits)
  <2> HIDE DEF invalid
  <2>1. ProfileOf(p, c, Limits).status =
            (IF Parsed(p, Limits) = <<>> THEN "unsupported"
             ELSE IF IsCut(p, c, Limits) \/ invalid(Limits) THEN "partial" ELSE "complete")
    BY DEF ProfileOf, invalid
  <2> QED BY <2>1
<1>3. IsList(p.files) /\ IsList(p.roots)
  BY ProfiledInLists DEF IsList
<1>4. Parsed(p, NoLimits) = Parsed(p, Limits)
  <2>1. Len(p.files) \in Nat /\ Len(p.files) <= NoLimits.files
    BY <1>3, OtherLimits, ListFacts
  <2> QED BY <1>3, <2>1, OtherLimits, UpToFacts DEF Parsed
<1>5. Components(p, NoLimits) = Components(p, Limits)
  <2>1. Len(p.roots) \in Nat /\ ~(Len(p.roots) > Limits.components)
    BY <1>2, <1>3, ListFacts DEF IsCut
  <2>2. Len(p.roots) <= Limits.components /\ Len(p.roots) <= NoLimits.components
    BY <2>1, OtherLimits
  <2> QED BY <1>3, <2>2, OtherLimits, UpToFacts DEF Components
<1>6. /\ UpTo(Resolved(c), NoLimits.edges) = UpTo(Resolved(c), Limits.edges)
      /\ ~(Len(Resolved(c)) > NoLimits.edges)
  <2>1. IsList(Resolved(c)) /\ Len(Resolved(c)) \in Nat
    BY ResolvedIsList, ListFacts
  <2>2. ~(Len(Resolved(c)) > Limits.edges)
    BY <1>2 DEF IsCut
  <2>3. Len(Resolved(c)) <= Limits.edges /\ Len(Resolved(c)) <= NoLimits.edges
    BY <2>1, <2>2, OtherLimits
  <2> QED BY <2>1, <2>3, OtherLimits, UpToFacts
<1>7. UpTo(c.entrypoints, NoLimits.entrypoints) = UpTo(c.entrypoints, Limits.entrypoints)
  <2>1. IsList(c.entrypoints) /\ Len(c.entrypoints) \in Nat
    BY ListFacts DEF IsCollection, ListNames
  <2>2. Limits.entrypoints \in Nat /\ NoLimits.entrypoints \in Nat
        /\ Limits.entrypoints <= NoLimits.entrypoints
    BY LimitFacts DEF ListNames
  <2> QED BY <2>1, <2>2, UpToFacts
<1> DEFINE roots == Components(p, Limits)
           n == Cardinality(ToSet(ComponentImports(c, roots)))
<1>8. n \in Nat /\ n <= Limits.componentEdges /\ n <= NoLimits.componentEdges
  <2>4. ~(n > Limits.componentEdges)
    BY <1>2 DEF IsCut
  <2>5. n \in Nat
    BY ImportsAreList, ListIsFinite
  <2> HIDE DEF n
  <2> QED BY <2>4, <2>5, OtherLimits
<1>9. ComponentEdges(c, roots, NoLimits) = ComponentEdges(c, roots, Limits)
  BY <1>8, AllEdges, OtherLimits
<1>10. ~IsCut(p, c, NoLimits)
  <2>1. Len(p.roots) \in Nat /\ ~(Len(p.roots) > Limits.components)
    BY <1>2, <1>3, ListFacts DEF IsCut
  <2>2. ~(Len(p.roots) > NoLimits.components)
    BY <2>1, OtherLimits
  <2>3. ~c.truncated
    BY <1>2 DEF IsCut
  <2>4. ~(n > NoLimits.componentEdges)
    <3> HIDE DEF n
    <3> QED BY <1>8, OtherLimits
  <2> QED
    BY <1>5, <1>6, <2>2, <2>3, <2>4 DEF IsCut
<1>11. (IsCut(p, c, NoLimits) <=> IsCut(p, c, Limits)) /\ (invalid(NoLimits) <=> invalid(Limits))
  BY <1>2, <1>4, <1>10
<1>12. IsCut(p, c, NoLimits) = IsCut(p, c, Limits) /\ invalid(NoLimits) = invalid(Limits)
  <2>1. IsCut(p, c, NoLimits) \in BOOLEAN /\ IsCut(p, c, Limits) \in BOOLEAN
    BY DEF IsCut
  <2>2. invalid(NoLimits) = invalid(Limits)
    BY <1>4
  <2> HIDE DEF invalid
  <2> QED BY <1>11, <2>1, <2>2
<1>13. \A L, M, none, cut, wrong, r, targeted, entries, edges :
        Profile(L, none, cut, wrong, r, targeted, entries, edges)
          = Profile(M, none, cut, wrong, r, targeted, entries, edges)
  OBVIOUS
<1> HIDE DEF invalid, Profile, roots
<1> QED
  BY <1>1, <1>4, <1>5, <1>6, <1>7, <1>9, <1>12, <1>13 DEF roots

-----------------------------------------------------------------------------
(* What the pass with more room has collected after each file.             *)
RoomyPass(project, h) ==
    /\ h[0] = Uncollected(project, NoLimits)
    /\ \A k \in 1..Len(project.files) :
          h[k] = VisitFileIn(h[k - 1], project.files[k], Paths(project, NoLimits), NoLimits)

(* The invariant: as long as nothing was cut, the pass has what it would   *)
(* have with more room after as many files.                                *)
Kept(k) ==
    ~collected.truncated =>
        /\ Len(profiled.files) <= Limits.files
        /\ \A h : RoomyPass(profiled, h) => h[k] = collected

ProfileInvariant ==
    /\ profiled \in Profiled
    /\ IsCollection(collected)
    /\ \E k \in 0..Len(Parsed(profiled, Limits)) :
          /\ unvisited = SubSeq(Parsed(profiled, Limits), k + 1, Len(Parsed(profiled, Limits)))
          /\ Kept(k)
    /\ projectProfile # <<>> =>
          unvisited = <<>> /\ projectProfile = <<ProfileOf(profiled, collected, Limits)>>

(* What is assumed of a project.                                           *)
LEMMA ProjectFacts ==
  ASSUME NEW p \in Profiled
  PROVE  /\ IsList(p.files) /\ Len(p.files) \in Nat /\ p.truncated \in BOOLEAN
         /\ IsList(Parsed(p, Limits)) /\ Len(Parsed(p, Limits)) \in Nat
         /\ Len(p.files) <= Limits.files =>
                /\ Parsed(p, Limits) = p.files
                /\ Paths(p, NoLimits) = Paths(p, Limits)
         /\ \A k \in 1..Len(Parsed(p, Limits)) :
                IsList(Parsed(p, Limits)[k].nodes) /\ IsList(Parsed(p, Limits)[k].methods)
<1>1. IsList(p.files) /\ Len(p.files) \in Nat /\ p.truncated \in BOOLEAN
  BY ProfiledInLists, ListFacts DEF IsList
<1>2. IsList(Parsed(p, Limits)) /\ Len(Parsed(p, Limits)) \in Nat
  BY <1>1, UpToFacts, OtherLimits, ListFacts DEF Parsed
<1>3. ASSUME Len(p.files) <= Limits.files
      PROVE  Parsed(p, Limits) = p.files /\ Paths(p, NoLimits) = Paths(p, Limits)
  <2>1. Len(p.files) <= NoLimits.files
    BY <1>1, <1>3, OtherLimits
  <2>2. Parsed(p, Limits) = p.files /\ Parsed(p, NoLimits) = p.files
    BY <1>1, <1>3, <2>1, UpToFacts, OtherLimits DEF Parsed
  <2> QED BY <2>2 DEF Paths
<1>4. ASSUME NEW k \in 1..Len(Parsed(p, Limits))
      PROVE  IsList(Parsed(p, Limits)[k].nodes) /\ IsList(Parsed(p, Limits)[k].methods)
  <2> DEFINE m == IF Limits.files < Len(p.files) THEN Limits.files ELSE Len(p.files)
  <2>1. Parsed(p, Limits) = SubSeq(p.files, 1, m) /\ m \in 0..Len(p.files)
    BY <1>1, OtherLimits DEF Parsed, UpTo
  <2>2. p.files \in Seq(ToSet(p.files)) /\ DOMAIN p.files = 1..Len(p.files)
    BY <1>1, ListFacts
  <2>3. Parsed(p, Limits)[k] = p.files[k] /\ k \in DOMAIN p.files
    <3> HIDE DEF m
    <3>1. Len(SubSeq(p.files, 1, m)) = m
      BY <2>1, <2>2
    <3>2. k \in 1..m
      BY <2>1, <3>1
    <3> QED BY <1>1, <2>1, <2>2, <3>2
  <2>4. p.files[k] \in ToSet(p.files)
    BY <2>3 DEF ToSet
  <2> QED BY <2>3, <2>4, ProfiledInLists DEF IsList
<1> QED
  BY <1>1, <1>2, <1>3, <1>4

(* The pass starts with a collection that is truncated when files were     *)
(* left out.                                                               *)
LEMMA UncollectedFacts ==
  ASSUME NEW p \in Profiled
  PROVE  /\ IsCollection(Uncollected(p, Limits))
         /\ ~Uncollected(p, Limits).truncated =>
                /\ Len(p.files) <= Limits.files
                /\ Uncollected(p, NoLimits) = Uncollected(p, Limits)
<1> DEFINE c == Uncollected(p, Limits)
<1>1. /\ c = [l \in ListNames \cup {"truncated"} |-> c[l]]
      /\ \A l \in ListNames : c[l] = <<>>
      /\ c.truncated = (p.truncated \/ Len(p.files) > Limits.files)
  BY DEF Uncollected, ListNames
<1>2. c.truncated \in BOOLEAN
  BY <1>1, ProjectFacts
<1>3. IsCollection(c)
  <2> HIDE DEF c
  <2> QED BY <1>1, <1>2, FewIsList DEF IsCollection
<1>4. ASSUME ~c.truncated
      PROVE  Len(p.files) <= Limits.files /\ Uncollected(p, NoLimits) = c
  <2>1. ~p.truncated /\ ~(Len(p.files) > Limits.files)
    BY <1>1, <1>4
  <2>2. Len(p.files) <= Limits.files /\ ~(Len(p.files) > NoLimits.files)
    BY <2>1, ProjectFacts, OtherLimits
  <2> QED BY <2>1, <2>2 DEF Uncollected
<1> QED
  BY <1>3, <1>4

(* The invariant holds before the first file.                              *)
LEMMA ProfileStarts == ProfileInit => ProfileInvariant
<1> SUFFICES ASSUME ProfileInit PROVE ProfileInvariant
  OBVIOUS
<1> DEFINE P == Parsed(profiled, Limits)
<1>1. /\ profiled \in Profiled /\ unvisited = P
      /\ collected = Uncollected(profiled, Limits) /\ projectProfile = <<>>
  BY DEF ProfileInit
<1>2. P \in Seq(ToSet(P)) /\ Len(P) \in Nat
  BY <1>1, ProjectFacts, ListFacts
<1>3. unvisited = SubSeq(P, 0 + 1, Len(P)) /\ 0 \in 0..Len(P)
  <2> HIDE DEF P
  <2> QED BY <1>1, <1>2 DEF P
<1>4. IsCollection(collected) /\ Kept(0)
  BY <1>1, UncollectedFacts DEF Kept, RoomyPass
<1> QED
  BY <1>1, <1>3, <1>4 DEF ProfileInvariant

(* Visiting a file keeps the twin beside the pass.                         *)
LEMMA VisitKeeps == ProfileInvariant /\ VisitFile => ProfileInvariant'
<1> SUFFICES ASSUME ProfileInvariant, VisitFile PROVE ProfileInvariant'
  OBVIOUS
<1> DEFINE P == Parsed(profiled, Limits)
           n == Len(P)
           paths == Paths(profiled, Limits)
<1>1. profiled \in Profiled /\ IsCollection(collected)
  BY DEF ProfileInvariant
<1>2. PICK k \in 0..n : unvisited = SubSeq(P, k + 1, n) /\ Kept(k)
  BY DEF ProfileInvariant
<1>3. P \in Seq(ToSet(P)) /\ n \in Nat
  BY <1>1, ProjectFacts, ListFacts
<1>4. /\ unvisited # <<>> /\ unvisited' = Tail(unvisited)
      /\ collected' = VisitFileIn(collected, Head(unvisited), paths, Limits)
      /\ profiled' = profiled /\ projectProfile' = projectProfile
  BY DEF VisitFile
<1>5. k + 1 \in 1..n /\ Head(unvisited) = P[k + 1] /\ unvisited' = SubSeq(P, (k + 1) + 1, n)
  <2> HIDE DEF P, n
  <2>1. k # n
    BY <1>2, <1>3, <1>4 DEF n
  <2>2. k \in Nat /\ k < n /\ k + 1 \in 1..n
    BY <1>2, <1>3, <2>1
  <2>3. Head(unvisited) = P[k + 1]
    BY <1>2, <1>3, <2>2 DEF n
  <2>4. /\ Tail(SubSeq(P, k + 1, n)) \in Seq(ToSet(P))
        /\ SubSeq(P, (k + 1) + 1, n) \in Seq(ToSet(P))
        /\ Len(Tail(SubSeq(P, k + 1, n))) = n - (k + 1)
        /\ Len(SubSeq(P, (k + 1) + 1, n)) = n - (k + 1)
    BY <1>3, <2>2 DEF n
  <2>5. \A i \in 1..(n - (k + 1)) :
          Tail(SubSeq(P, k + 1, n))[i] = SubSeq(P, (k + 1) + 1, n)[i]
    BY <1>3, <2>2 DEF n
  <2>6. Tail(SubSeq(P, k + 1, n)) = SubSeq(P, (k + 1) + 1, n)
    BY <2>4, <2>5
  <2> QED BY <1>2, <1>4, <2>2, <2>3, <2>6
<1> DEFINE file == P[k + 1]
<1>6. IsList(file.nodes) /\ IsList(file.methods)
  BY <1>1, <1>5, ProjectFacts
<1>7. /\ IsCollection(collected')
      /\ ~(collected').truncated =>
            /\ ~collected.truncated
            /\ VisitFileIn(collected, file, paths, NoLimits) = collected'
  <2> HIDE DEF P, n
  <2> QED BY <1>1, <1>4, <1>5, <1>6, FileInStep
<1>8. ASSUME ~(collected').truncated, NEW h, RoomyPass(profiled, h)
      PROVE  h[k + 1] = collected' /\ Len(profiled.files) <= Limits.files
  <2>1. Len(profiled.files) <= Limits.files /\ h[k] = collected
    BY <1>2, <1>7, <1>8 DEF Kept
  <2>2. P = profiled.files /\ Paths(profiled, NoLimits) = paths
    BY <1>1, <2>1, ProjectFacts
  <2>3. (k + 1) - 1 = k
    BY <1>2, <1>3
  <2>4. h[k + 1] = VisitFileIn(h[(k + 1) - 1], profiled.files[k + 1],
                               Paths(profiled, NoLimits), NoLimits)
    BY <1>5, <1>8, <2>2 DEF RoomyPass
  <2>5. h[(k + 1) - 1] = collected /\ profiled.files[k + 1] = file
    BY <2>1, <2>2, <2>3
  <2>6. VisitFileIn(collected, file, paths, NoLimits) = collected'
    BY <1>7, <1>8
  <2> HIDE DEF n, paths, file
  <2>7. h[k + 1] = VisitFileIn(collected, file, paths, NoLimits)
    BY <2>2, <2>4, <2>5 DEF paths
  <2> QED BY <2>1, <2>6, <2>7
<1>9. ~(collected').truncated => Len(profiled.files) <= Limits.files
  BY <1>2, <1>7 DEF Kept
<1>10. Kept(k + 1)'
  BY <1>4, <1>8, <1>9 DEF Kept
<1>11. projectProfile = <<>>
  BY <1>4 DEF ProfileInvariant
<1>12. k + 1 \in 0..n
  <2> HIDE DEF n
  <2> QED BY <1>3, <1>5
<1> QED
  BY <1>1, <1>4, <1>5, <1>7, <1>10, <1>11, <1>12 DEF ProfileInvariant

(* Every step keeps the invariant.                                         *)
LEMMA ProfileKeeps == ProfileInvariant /\ [ProfileNext]_profileVars => ProfileInvariant'
<1> SUFFICES ASSUME ProfileInvariant, [ProfileNext]_profileVars PROVE ProfileInvariant'
  OBVIOUS
<1>1. CASE VisitFile
  BY <1>1, VisitKeeps
<1>2. CASE AssembleProfile
  BY <1>2 DEF AssembleProfile, ProfileInvariant, Kept
<1>3. CASE UNCHANGED profileVars
  BY <1>3 DEF profileVars, ProfileInvariant, Kept
<1> QED
  BY <1>1, <1>2, <1>3 DEF ProfileNext

AnyFold(c, k, a) == TRUE
FW == INSTANCE FoldTheorems WITH Op <- VisitWhole, Holds <- AnyFold

(* The profile without limits is the one of a pass with room to spare: any *)
(* two such passes are the same, file by file.                             *)
LEMMA WholeIsPassed ==
  ASSUME NEW N, N = Len(profiled.files), profiled \in Profiled
  PROVE  \E h : /\ RoomyPass(profiled, h)
                /\ WholeProfile(profiled) = ProfileOf(profiled, h[N], NoLimits)
<1>1. N \in Nat /\ DOMAIN profiled.files = 1..N
  BY ProjectFacts, ListFacts
<1> DEFINE b == Uncollected(profiled, NoLimits)
<1>2. PICK h : /\ h[0] = b
               /\ \A k \in 1..N : h[k] = VisitWhole(h[k - 1], profiled.files[k])
               /\ h[N] = FW!FoldLeft(VisitWhole, b, profiled.files)
  BY <1>1, FW!FoldSteps
<1>3. FW!FoldLeft(VisitWhole, b, profiled.files) = FoldLeft(VisitWhole, b, profiled.files)
  BY DEF FW!FoldLeft, FoldLeft, FW!MapThenFoldSet, MapThenFoldSet, FW!Max, Max
<1>4. RoomyPass(profiled, h)
  BY <1>2 DEF RoomyPass, VisitWhole
<1> QED
  BY <1>2, <1>3, <1>4 DEF WholeProfile

(* What is complete was never cut, so that its twin is the whole profile.  *)
LEMMA InvariantMakesWhole == ProfileInvariant => ProfileIsWhole
<1> SUFFICES ASSUME ProfileInvariant, projectProfile # <<>>,
                    projectProfile[1].status = "complete",
                    ~(Len(collected.entrypoints) > Limits.entrypoints)
             PROVE  projectProfile[1] = WholeProfile(profiled)
  BY DEF ProfileIsWhole
<1> DEFINE P == Parsed(profiled, Limits)
           n == Len(P)
<1>1. /\ profiled \in Profiled /\ IsCollection(collected) /\ unvisited = <<>>
      /\ projectProfile[1] = ProfileOf(profiled, collected, Limits)
  BY DEF ProfileInvariant
<1>2. PICK k \in 0..n : unvisited = SubSeq(P, k + 1, n) /\ Kept(k)
  BY DEF ProfileInvariant
<1>3. P \in Seq(ToSet(P)) /\ n \in Nat
  BY <1>1, ProjectFacts, ListFacts
<1>4. k = n
  <2> HIDE DEF P, n
  <2>1. ASSUME k < n PROVE FALSE
    <3>1. Len(SubSeq(P, k + 1, n)) = n - k
      BY <1>2, <1>3, <2>1 DEF n
    <3> QED BY <1>1, <1>2, <1>3, <2>1, <3>1
  <2> QED BY <1>2, <1>3, <2>1
<1>5. ~collected.truncated
  <2>1. ~IsCut(profiled, collected, Limits)
    BY <1>1 DEF ProfileOf
  <2> QED BY <2>1 DEF IsCut
<1>6. Len(profiled.files) <= Limits.files /\ n = Len(profiled.files)
  BY <1>1, <1>2, <1>5, ProjectFacts DEF Kept
<1>7. PICK h : /\ RoomyPass(profiled, h)
               /\ WholeProfile(profiled) = ProfileOf(profiled, h[n], NoLimits)
  BY <1>1, <1>6, WholeIsPassed
<1>8. h[n] = collected
  BY <1>2, <1>4, <1>5, <1>7 DEF Kept
<1>9. Len(collected.entrypoints) <= Limits.entrypoints
  <2>1. Len(collected.entrypoints) \in Nat /\ Limits.entrypoints \in Nat
    BY <1>1, ListFacts, LimitFacts DEF IsCollection, ListNames
  <2> QED BY <2>1
<1>10. ProfileOf(profiled, collected, NoLimits) = ProfileOf(profiled, collected, Limits)
  BY <1>1, <1>6, <1>9, SameProfile
<1> QED
  BY <1>1, <1>7, <1>8, <1>10

(* A profile that is complete is what a pass with more room makes of the   *)
(* project, however much more: no limit of the pass, of the calls that are *)
(* resolved, of the components and of the edges between them cuts without  *)
(* leaving it partial, except the one of the entry points of its last file.*)
THEOREM ProfileHolds == ProfileSpec => []ProfileIsWhole
<1>1. ProfileInit => ProfileInvariant
  BY ProfileStarts
<1>2. ProfileInvariant /\ [ProfileNext]_profileVars => ProfileInvariant'
  BY ProfileKeeps
<1>3. ProfileInvariant => ProfileIsWhole
  BY InvariantMakesWhole
<1> QED
  BY <1>1, <1>2, <1>3, PTL DEF ProfileSpec

(***************************************************************************)
(* The contracts and postures: none of their verdicts rests on what was cut. *)
(*                                                                         *)
(* For each analysis: when nothing was cut that it did not tell, what it went *)
(* over with its limits is what it goes over with room to spare, and so is *)
(* its verdict.                                                            *)
(***************************************************************************)

(* What is in none of the parts is not in the whole.                       *)
JoinedFrom(c, n, a) == IsList(a) /\ ToSet(a) \subseteq c
JR == INSTANCE FoldTheorems WITH Op <- Joining, Holds <- JoinedFrom

(* A joined list has nothing that none of its parts has.                   *)
LEMMA ConcatFrom ==
  ASSUME NEW s, NEW t, IsList(s), IsList(t) PROVE ToSet(s \o t) \subseteq ToSet(s) \cup ToSet(t)
<1>1. s \in Seq(ToSet(s) \cup ToSet(t)) /\ t \in Seq(ToSet(s) \cup ToSet(t))
  BY DEF IsList
<1>2. s \o t \in Seq(ToSet(s) \cup ToSet(t))
  BY <1>1
<1> QED
  BY <1>2, ListOf

(* What holds of the elements of every part holds of those of the whole.   *)
LEMMA JoinedInside ==
  ASSUME NEW X, NEW l, IsList(l), \A i \in DOMAIN l : IsList(l[i]) /\ ToSet(l[i]) \subseteq X
  PROVE  ToSet(Joined(l)) \subseteq X
<1>1. Len(l) \in Nat /\ DOMAIN l = 1..Len(l)
  BY ListFacts
<1>2. JoinedFrom(X, 0, <<>>)
  <2>1. ToSet(<<>>) = {}
    BY DEF ToSet
  <2> QED BY <2>1, FewIsList DEF JoinedFrom
<1>3. \A k \in 1..Len(l) : \A a : JoinedFrom(X, k - 1, a) => JoinedFrom(X, k, Joining(a, l[k]))
  BY <1>1, ConcatIsList, ConcatFrom DEF JoinedFrom, Joining
<1>4. JoinedFrom(X, Len(l), JR!FoldLeft(Joining, <<>>, l))
  BY <1>1, <1>2, <1>3, JR!FoldHolds
<1>5. JR!FoldLeft(Joining, <<>>, l) = Joined(l)
  BY DEF Joined, JR!FoldLeft, FoldLeft, JR!MapThenFoldSet, MapThenFoldSet, JR!Max, Max
<1> QED
  BY <1>4, <1>5 DEF JoinedFrom

(* A list that is joined is as long as each of its parts.                  *)
JoinedLonger(c, n, a) == IsList(a) /\ (n >= c[1] => Len(a) >= c[2])
JL == INSTANCE FoldTheorems WITH Op <- Joining, Holds <- JoinedLonger

(* A part fits where the whole does.                                       *)
LEMMA PartIsShorter ==
  ASSUME NEW l, IsList(l), \A i \in DOMAIN l : IsList(l[i]), NEW p \in DOMAIN l
  PROVE  Len(l[p]) <= Len(Joined(l))
<1> DEFINE c == <<p, Len(l[p])>>
<1>1. Len(l) \in Nat /\ DOMAIN l = 1..Len(l) /\ p \in 1..Len(l)
  BY ListFacts
<1>2. JoinedLonger(c, 0, <<>>)
  BY <1>1, FewIsList DEF JoinedLonger
<1>3. ASSUME NEW k \in 1..Len(l), NEW a, JoinedLonger(c, k - 1, a)
      PROVE  JoinedLonger(c, k, Joining(a, l[k]))
  <2>1. IsList(a) /\ IsList(l[k])
    BY <1>1, <1>3 DEF JoinedLonger
  <2>2. IsList(a \o l[k]) /\ Len(a \o l[k]) = Len(a) + Len(l[k])
    BY <2>1, ConcatIsList
  <2>3. Len(a) \in Nat /\ Len(l[k]) \in Nat /\ Len(l[p]) \in Nat
    BY <1>1, <2>1, ListFacts
  <2>4. k >= p => Len(a \o l[k]) >= Len(l[p])
    <3>1. CASE k = p
      BY <2>2, <2>3, <3>1
    <3>2. CASE k # p
      <4>1. k >= p => k - 1 >= p
        BY <1>1, <3>2
      <4>2. k >= p => Len(a) >= Len(l[p])
        BY <1>3, <4>1 DEF JoinedLonger
      <4> QED BY <2>2, <2>3, <4>2
    <3> QED BY <3>1, <3>2
  <2> QED BY <2>2, <2>4 DEF JoinedLonger, Joining
<1>4. JoinedLonger(c, Len(l), JL!FoldLeft(Joining, <<>>, l))
  <2> HIDE DEF c
  <2> QED BY <1>1, <1>2, <1>3, JL!FoldHolds
<1>5. JL!FoldLeft(Joining, <<>>, l) = Joined(l)
  BY DEF Joined, JL!FoldLeft, FoldLeft, JL!MapThenFoldSet, MapThenFoldSet, JL!Max, Max
<1>6. JoinedLonger(c, Len(l), Joined(l))
  BY <1>4, <1>5
<1>7. Len(l) >= p /\ Len(Joined(l)) \in Nat /\ Len(l[p]) \in Nat
  BY <1>1, JoinedIsList, ListFacts
<1> QED
  BY <1>6, <1>7 DEF JoinedLonger

(* Shorter parts make a shorter list.                                      *)
JoinedShorter(c, n, a) == IsList(a) /\ IsList(c[n]) /\ Len(a) <= Len(c[n])
JS == INSTANCE FoldTheorems WITH Op <- Joining, Holds <- JoinedShorter

(* Of shorter parts, a shorter list.                                       *)
LEMMA ShorterParts ==
  ASSUME NEW l, NEW m, IsList(l), IsList(m), DOMAIN l = DOMAIN m,
         \A i \in DOMAIN l : IsList(l[i]) /\ IsList(m[i]) /\ Len(l[i]) <= Len(m[i])
  PROVE  Len(Joined(l)) <= Len(Joined(m))
<1>1. Len(l) \in Nat /\ DOMAIN l = 1..Len(l) /\ DOMAIN m = 1..Len(l)
  BY ListFacts
<1>2. PICK h : /\ h[0] = <<>>
               /\ \A k \in 1..Len(l) : h[k] = Joining(h[k - 1], m[k])
               /\ h[Len(l)] = JS!FoldLeft(Joining, <<>>, m)
  BY <1>1, JS!FoldSteps
<1>3. JoinedShorter(h, 0, <<>>)
  BY <1>2, FewIsList DEF JoinedShorter
<1>4. ASSUME NEW k \in 1..Len(l), NEW a, JoinedShorter(h, k - 1, a)
      PROVE  JoinedShorter(h, k, Joining(a, l[k]))
  <2>1. /\ IsList(a) /\ IsList(l[k]) /\ IsList(h[k - 1]) /\ IsList(m[k])
        /\ Len(a) <= Len(h[k - 1]) /\ Len(l[k]) <= Len(m[k])
    BY <1>1, <1>4 DEF JoinedShorter
  <2>2. /\ IsList(a \o l[k]) /\ Len(a \o l[k]) = Len(a) + Len(l[k])
        /\ IsList(h[k - 1] \o m[k]) /\ Len(h[k - 1] \o m[k]) = Len(h[k - 1]) + Len(m[k])
    BY <2>1, ConcatIsList
  <2>3. Len(a) \in Nat /\ Len(l[k]) \in Nat /\ Len(h[k - 1]) \in Nat /\ Len(m[k]) \in Nat
    BY <2>1, ListFacts
  <2>4. h[k] = h[k - 1] \o m[k]
    BY <1>2 DEF Joining
  <2>5. Len(a \o l[k]) <= Len(h[k - 1] \o m[k])
    <3>1. \A w, x, y, z \in Nat : w <= y /\ x <= z => w + x <= y + z
      OBVIOUS
    <3>2. Len(a) + Len(l[k]) <= Len(h[k - 1]) + Len(m[k])
      BY <2>1, <2>3, <3>1
    <3> QED BY <2>2, <3>2
  <2> QED BY <2>2, <2>4, <2>5 DEF JoinedShorter, Joining
<1>5. JoinedShorter(h, Len(l), JS!FoldLeft(Joining, <<>>, l))
  BY <1>1, <1>3, <1>4, JS!FoldHolds
<1>6. \A s : JS!FoldLeft(Joining, <<>>, s) = Joined(s)
  BY DEF Joined, JS!FoldLeft, FoldLeft, JS!MapThenFoldSet, MapThenFoldSet, JS!Max, Max
<1> QED
  BY <1>2, <1>5, <1>6 DEF JoinedShorter

NewList(c, n, a) == IsList(a)
DL == INSTANCE FoldTheorems WITH Op <- AddNew, Holds <- NewList

(* The different elements of a list, in the order they are first met.      *)
LEMMA DistinctIsList ==
  ASSUME NEW s, IsList(s) PROVE IsList(Distinct(s))
<1>1. Len(s) \in Nat /\ DOMAIN s = 1..Len(s)
  BY ListFacts
<1>2. NewList(0, 0, <<>>)
  BY FewIsList DEF NewList
<1>3. \A k \in 1..Len(s) : \A a : NewList(0, k - 1, a) => NewList(0, k, AddNew(a, s[k]))
  BY AppendIsList DEF NewList, AddNew
<1>4. NewList(0, Len(s), DL!FoldLeft(AddNew, <<>>, s))
  BY <1>1, <1>2, <1>3, DL!FoldHolds
<1>5. DL!FoldLeft(AddNew, <<>>, s) = Distinct(s)
  BY DEF Distinct, DL!FoldLeft, FoldLeft, DL!MapThenFoldSet, MapThenFoldSet, DL!Max, Max
<1> QED
  BY <1>4, <1>5 DEF NewList

(* A filter keeps elements of its list, and those that pass.               *)
LEMMA PassingElements ==
  ASSUME NEW s, IsList(s), NEW f, DOMAIN f = DOMAIN s, f = [i \in DOMAIN s |-> f[i]],
         \A i \in DOMAIN s : f[i] \in {<<>>, <<s[i]>>}
  PROVE  ToSet(Joined(f)) \subseteq {s[i] : i \in {j \in DOMAIN s : f[j] # <<>>}}
<1> DEFINE X == {s[i] : i \in {j \in DOMAIN s : f[j] # <<>>}}
<1>1. IsList(f)
  BY MapIsList
<1>2. ASSUME NEW i \in DOMAIN f PROVE IsList(f[i]) /\ ToSet(f[i]) \subseteq X
  <2>1. CASE f[i] = <<>>
    BY <2>1, FewIsList DEF ToSet
  <2>2. CASE f[i] # <<>>
    <3>1. f[i] = <<s[i]>> /\ s[i] \in X
      BY <2>2
    <3>2. ToSet(<<s[i]>>) = {s[i]}
      BY DEF ToSet
    <3> HIDE DEF X
    <3> QED BY <3>1, <3>2, FewIsList
  <2> QED BY <2>1, <2>2
<1> HIDE DEF X
<1>3. ToSet(Joined(f)) \subseteq X
  BY <1>1, <1>2, JoinedInside
<1> QED
  BY <1>3 DEF X

(* A set that is no larger than the limit is kept whole.                   *)
LEMMA LeastIsAll ==
  ASSUME NEW S, IsFiniteSet(S), NEW n \in Nat, Cardinality(S) <= n PROVE Least(S, n) = S
<1>1. \A x \in S : {y \in S \ {x} : y < x} \subseteq S \ {x}
  OBVIOUS
<1>2. \A x \in S : Cardinality({y \in S \ {x} : y < x}) < n
  BY <1>1, FewBefore
<1> QED
  BY <1>2 DEF Least

-----------------------------------------------------------------------------
(* Without limits there is more room of everything; only how far imports   *)
(* are followed is the same.                                               *)
LEMMA MaximumFacts ==
  /\ \A l \in MaximumNames \ {"importDepth"} :
        /\ Maximum[l] \in Nat /\ Unlimited[l] \in Nat /\ Spare \in Nat
        /\ Unlimited[l] = Maximum[l] + Spare /\ Maximum[l] <= Unlimited[l]
  /\ Unlimited.importDepth = Maximum.importDepth
<1>1. Spare \in Nat /\ \A l \in MaximumNames : Maximum[l] \in Nat
  BY MaximumIsNumbers, SpareIsNumber
<1>2. \A l \in MaximumNames \ {"importDepth"} : Unlimited[l] = Maximum[l] + Spare
  BY DEF Unlimited
<1>3. Unlimited.importDepth = Maximum.importDepth
  BY DEF Unlimited, MaximumNames
<1> QED
  BY <1>1, <1>2, <1>3

(* What a list that is no longer than a limit, or a set that is no larger, *)
(* is cut to under both.                                                   *)
LEMMA UncutList ==
  ASSUME NEW l \in MaximumNames \ {"importDepth"}, NEW s, IsList(s)
  PROVE  /\ Len(s) \in Nat
         /\ Len(s) <= Maximum[l] \/ ~(Len(s) > Maximum[l]) =>
                UpTo(s, Maximum[l]) = s /\ UpTo(s, Unlimited[l]) = s
         /\ IsList(UpTo(s, Maximum[l])) /\ Len(UpTo(s, Maximum[l])) \in Nat
         /\ ~(Len(UpTo(s, Maximum[l])) >= Maximum[l]) =>
                UpTo(s, Maximum[l]) = s /\ UpTo(s, Unlimited[l]) = s
<1>1. /\ Maximum[l] \in Nat /\ Unlimited[l] \in Nat /\ Maximum[l] <= Unlimited[l]
  BY MaximumFacts
<1>2. Len(s) \in Nat
  BY ListFacts
<1>3. ASSUME Len(s) <= Maximum[l]
      PROVE  UpTo(s, Maximum[l]) = s /\ UpTo(s, Unlimited[l]) = s
  BY <1>1, <1>2, <1>3, UpToFacts
<1>4. IsList(UpTo(s, Maximum[l])) /\ Len(UpTo(s, Maximum[l])) \in Nat
  BY <1>1, UpToFacts, ListFacts
<1>5. ~(Len(UpTo(s, Maximum[l])) >= Maximum[l]) => Len(s) <= Maximum[l]
  BY <1>1, <1>2, UpToFacts
<1>6. ~(Len(s) > Maximum[l]) => Len(s) <= Maximum[l]
  BY <1>1, <1>2
<1> QED
  BY <1>2, <1>3, <1>4, <1>5, <1>6

(* What is no more than a limit is kept, with the limit and without.       *)
LEMMA UncutSet ==
  ASSUME NEW l \in MaximumNames \ {"importDepth"}, NEW S, IsFiniteSet(S),
         ~(Cardinality(S) > Maximum[l])
  PROVE  Least(S, Maximum[l]) = S /\ Least(S, Unlimited[l]) = S
<1>1. /\ Maximum[l] \in Nat /\ Unlimited[l] \in Nat /\ Maximum[l] <= Unlimited[l]
  BY MaximumFacts
<1>2. Cardinality(S) \in Nat
  BY FS_CardinalityType
<1>3. Cardinality(S) <= Maximum[l] /\ Cardinality(S) <= Unlimited[l]
  BY <1>1, <1>2
<1> QED
  BY <1>1, <1>3, LeastIsAll

(* What is assumed of a project: its parts come in lists.                  *)
LEMMA ContractedFacts ==
  ASSUME NEW p \in Contracted
  PROVE  /\ IsList(p.environment.templates) /\ IsList(p.environment.sources)
         /\ IsList(p.api.specifications) /\ IsList(p.api.entrypoints)
         /\ IsList(p.database.files) /\ IsList(p.webhooks.entrypoints)
         /\ IsList(p.webhooks.calls) /\ IsList(p.webhooks.references)
         /\ IsList(p.flags.json) /\ IsList(p.flags.sources)
         /\ IsList(p.structure.modules) /\ IsList(p.copies.duplicates)
         /\ IsList(p.code.files) /\ IsList(p.code.artifacts)
         /\ IsList(p.code.manifests) /\ IsList(p.code.issues)
<1> DEFINE all == <<p.environment.templates, p.environment.sources, p.api.specifications,
                    p.api.entrypoints, p.database.files, p.webhooks.entrypoints,
                    p.webhooks.calls, p.webhooks.references, p.flags.json, p.flags.sources,
                    p.structure.modules, p.copies.duplicates, p.code.files,
                    p.code.artifacts, p.code.manifests, p.code.issues>>
<1>1. AreLists(all)
  BY ContractedInLists
<1>2. DOMAIN all = 1..16
  OBVIOUS
<1>3. \A i \in 1..16 : IsList(all[i])
  <2> HIDE DEF all
  <2> QED BY <1>1, <1>2 DEF AreLists
<1>4. /\ IsList(all[1]) /\ IsList(all[2]) /\ IsList(all[3]) /\ IsList(all[4]) /\ IsList(all[5])
      /\ IsList(all[6]) /\ IsList(all[7]) /\ IsList(all[8]) /\ IsList(all[9]) /\ IsList(all[10])
      /\ IsList(all[11]) /\ IsList(all[12]) /\ IsList(all[13]) /\ IsList(all[14])
      /\ IsList(all[15]) /\ IsList(all[16])
  <2> HIDE DEF all
  <2> QED BY <1>3
<1> QED
  BY <1>4

-----------------------------------------------------------------------------
(* The API: a file of operations is left out only if there are as many as  *)
(* the limit already.                                                      *)
ReadNames == {"operations", "scopes", "specifications", "failed", "limit"}

IsRead(r) ==
    /\ r = [l \in ReadNames |-> r[l]]
    /\ IsList(r.operations) /\ r.limit = Maximum.operations

(* The same with more room.                                                *)
AsRead(q, r) ==
    /\ q = [l \in ReadNames |-> q[l]]
    /\ q.operations = r.operations /\ q.scopes = r.scopes
    /\ q.specifications = r.specifications /\ q.failed = r.failed
    /\ q.limit = Unlimited.operations

IsShort(r) == Len(r.operations) < Maximum.operations

ReadInStep(r, q, after, roomy) ==
    IsRead(after) /\ (IsShort(after) => IsShort(r) /\ AsRead(roomy, after))

ReadFold(c, k, a) ==
    IsRead(a) /\ (IsShort(a) => IsShort(c[2]) /\ AsRead(c[1][k], a))

RP == INSTANCE FoldTheorems WITH Op <- ReadPath, Holds <- ReadFold
RS == INSTANCE FoldTheorems WITH Op <- ReadSpecification, Holds <- ReadFold

(* Reading one path of a specification: what was not cut of it, the twin   *)
(* reads too.                                                              *)
LEMMA PathInStep ==
  ASSUME NEW r, IsRead(r), NEW path, IsList(path.operations)
  PROVE  /\ IsRead(ReadPath(r, path))
         /\ IsShort(ReadPath(r, path)) => IsShort(r)
         /\ IsShort(r) =>
                \A q : AsRead(q, r) => AsRead(ReadPath(q, path), ReadPath(r, path))
<1>1. IsList(r.operations) /\ Len(r.operations) \in Nat
  BY ListFacts DEF IsRead
<1>2. /\ Maximum.operations \in Nat /\ Unlimited.operations \in Nat
      /\ Maximum.operations <= Unlimited.operations
  BY MaximumFacts DEF MaximumNames
<1> DEFINE both == r.operations \o path.operations
<1>3. IsList(both)
  BY <1>1, ConcatIsList
<1>4. CASE Len(r.operations) >= Maximum.operations
  <2>1. ReadPath(r, path) = r
    BY <1>4 DEF ReadPath, IsRead
  <2>2. ~IsShort(r)
    BY <1>1, <1>2, <1>4 DEF IsShort
  <2> QED BY <2>1, <2>2
<1>5. CASE ~(Len(r.operations) >= Maximum.operations)
  <2>1. IsShort(r)
    BY <1>1, <1>2, <1>5 DEF IsShort
  <2> DEFINE t == [r EXCEPT !.operations = both, !.failed = r.failed \/ path.ref]
  <2>2. ReadPath(r, path) = t
    BY <1>5 DEF ReadPath, IsRead
  <2>3. /\ t = [l \in ReadNames |-> t[l]] /\ t.operations = both
        /\ t.failed = (r.failed \/ path.ref) /\ t.scopes = r.scopes
        /\ t.specifications = r.specifications /\ t.limit = r.limit
    <3> HIDE DEF both
    <3> QED BY DEF IsRead, ReadNames
  <2>4. IsRead(t)
    <3> HIDE DEF t, both
    <3> QED BY <1>3, <2>3 DEF IsRead
  <2>5. ASSUME NEW q, AsRead(q, r) PROVE AsRead(ReadPath(q, path), t)
    <3> DEFINE u == [q EXCEPT !.operations = both, !.failed = r.failed \/ path.ref]
    <3>1. ~(Len(q.operations) >= q.limit)
      BY <1>1, <1>2, <1>5, <2>5 DEF AsRead
    <3>2. ReadPath(q, path) = u
      BY <2>5, <3>1 DEF ReadPath, AsRead
    <3>3. /\ u = [l \in ReadNames |-> u[l]] /\ u.operations = both
          /\ u.failed = (r.failed \/ path.ref) /\ u.scopes = q.scopes
          /\ u.specifications = q.specifications /\ u.limit = q.limit
      <4> HIDE DEF both
      <4> QED BY <2>5 DEF AsRead, ReadNames
    <3> HIDE DEF t, u, both
    <3> QED BY <2>3, <2>5, <3>2, <3>3 DEF AsRead
  <2> HIDE DEF t
  <2> QED BY <2>1, <2>2, <2>4, <2>5
<1> QED
  BY <1>4, <1>5

(* All paths of a specification.                                           *)
LEMMA PathsInStep ==
  ASSUME NEW r, IsRead(r), NEW q, AsRead(q, r), NEW s, IsList(s),
         \A path \in ToSet(s) : IsList(path.operations)
  PROVE  ReadInStep(r, q, FoldLeft(ReadPath, r, s), FoldLeft(ReadPath, q, s))
<1>1. Len(s) \in Nat /\ DOMAIN s = 1..Len(s)
  BY ListFacts
<1>2. PICK h : /\ h[0] = q
               /\ \A k \in 1..Len(s) : h[k] = ReadPath(h[k - 1], s[k])
               /\ h[Len(s)] = RP!FoldLeft(ReadPath, q, s)
  BY <1>1, RP!FoldSteps
<1>3. ReadFold(<<h, r>>, 0, r)
  BY <1>2 DEF ReadFold
<1>4. ASSUME NEW k \in 1..Len(s), NEW a, ReadFold(<<h, r>>, k - 1, a)
      PROVE  ReadFold(<<h, r>>, k, ReadPath(a, s[k]))
  <2>1. IsList(s[k].operations)
    BY <1>1 DEF ToSet
  <2> QED
    BY <1>2, <1>4, <2>1, PathInStep DEF ReadFold
<1>5. ReadFold(<<h, r>>, Len(s), RP!FoldLeft(ReadPath, r, s))
  BY <1>1, <1>3, <1>4, RP!FoldHolds
<1>6. \A b : RP!FoldLeft(ReadPath, b, s) = FoldLeft(ReadPath, b, s)
  BY DEF RP!FoldLeft, FoldLeft, RP!MapThenFoldSet, MapThenFoldSet, RP!Max, Max
<1> QED
  BY <1>2, <1>5, <1>6 DEF ReadFold, ReadInStep

(* Without the twin with more room.                                        *)
LEMMA PathsAreRead ==
  ASSUME NEW r, IsRead(r), NEW s, IsList(s), \A path \in ToSet(s) : IsList(path.operations)
  PROVE  /\ IsRead(FoldLeft(ReadPath, r, s))
         /\ IsShort(FoldLeft(ReadPath, r, s)) => IsShort(r)
<1> DEFINE q == [r EXCEPT !.limit = Unlimited.operations]
<1>1. AsRead(q, r)
  BY DEF AsRead, IsRead, ReadNames
<1> HIDE DEF q
<1> QED
  BY <1>1, PathsInStep DEF ReadInStep

(* A specification, whose paths are capped before they are read.           *)
LEMMA SpecificationInStep ==
  ASSUME NEW r, IsRead(r), NEW s, IsList(s.paths),
         \A path \in ToSet(s.paths) : IsList(path.operations)
  PROVE  /\ IsRead(ReadSpecification(r, s))
         /\ IsShort(ReadSpecification(r, s)) =>
                /\ IsShort(r)
                /\ \A q : AsRead(q, r) => AsRead(ReadSpecification(q, s), ReadSpecification(r, s))
<1> DEFINE after(t) == FoldLeft(ReadPath, t, s.paths)
           own(t) == SubSeq(after(t).operations, Len(t.operations) + 1, Len(after(t).operations))
           scope(t) == CommonPathScope([o \in DOMAIN own(t) |-> own(t)[o].path])
           failing(t) == [t EXCEPT !.failed = TRUE]
           reading(t) == [after(t) EXCEPT !.specifications = after(t).specifications + 1,
                                          !.scopes = after(t).scopes \cup {scope(t)}]
<1>1. \A t : ReadSpecification(t, s) = IF ~s.valid THEN failing(t) ELSE reading(t)
  BY DEF ReadSpecification
<1>2. IsRead(after(r)) /\ (IsShort(after(r)) => IsShort(r))
  BY PathsAreRead
<1>3. ASSUME NEW q, AsRead(q, r), IsShort(after(r)) PROVE AsRead(after(q), after(r))
  BY <1>3, PathsInStep DEF ReadInStep
<1>4. CASE ~s.valid
  <2>1. \A t : ReadSpecification(t, s) = failing(t)
    <3> HIDE DEF failing, reading
    <3> QED BY <1>1, <1>4
  <2>2. IsRead(failing(r)) /\ failing(r).operations = r.operations
    BY DEF IsRead, ReadNames
  <2>3. ASSUME NEW q, AsRead(q, r) PROVE AsRead(failing(q), failing(r))
    BY <2>3 DEF AsRead, IsRead, ReadNames
  <2> HIDE DEF failing
  <2> QED BY <2>1, <2>2, <2>3 DEF IsShort
<1>5. CASE s.valid
  <2>1. \A t : ReadSpecification(t, s) = reading(t)
    <3> HIDE DEF failing, reading
    <3> QED BY <1>1, <1>5
  <2>2. /\ reading(r) = [l \in ReadNames |-> reading(r)[l]]
        /\ reading(r).operations = after(r).operations /\ reading(r).limit = after(r).limit
        /\ reading(r).specifications = after(r).specifications + 1
        /\ reading(r).scopes = after(r).scopes \cup {scope(r)}
        /\ reading(r).failed = after(r).failed
    <3> HIDE DEF after, scope
    <3> QED BY <1>2 DEF IsRead, ReadNames
  <2>3. IsRead(reading(r)) /\ (IsShort(reading(r)) => IsShort(after(r)))
    <3> HIDE DEF after, reading, scope
    <3> QED BY <1>2, <2>2 DEF IsRead, IsShort
  <2>4. ASSUME NEW q, AsRead(q, r), IsShort(after(r)) PROVE AsRead(reading(q), reading(r))
    <3>1. AsRead(after(q), after(r))
      BY <1>3, <2>4
    <3>2. scope(q) = scope(r)
      <4>1. after(q).operations = after(r).operations /\ q.operations = r.operations
        <5> HIDE DEF after
        <5> QED BY <2>4, <3>1 DEF AsRead
      <4>2. own(q) = own(r)
        <5> HIDE DEF after
        <5> QED BY <4>1
      <4> HIDE DEF own
      <4> QED BY <4>2
    <3>3. /\ reading(q) = [l \in ReadNames |-> reading(q)[l]]
          /\ reading(q).operations = after(q).operations /\ reading(q).limit = after(q).limit
          /\ reading(q).specifications = after(q).specifications + 1
          /\ reading(q).scopes = after(q).scopes \cup {scope(q)}
          /\ reading(q).failed = after(q).failed
      <4> HIDE DEF after, scope
      <4> QED BY <3>1 DEF AsRead, ReadNames
    <3> HIDE DEF after, reading, scope
    <3> QED BY <2>2, <3>1, <3>2, <3>3 DEF AsRead
  <2> HIDE DEF after, reading, scope
  <2> QED BY <1>2, <2>1, <2>3, <2>4
<1> QED
  BY <1>4, <1>5

(* All specifications of a project.                                        *)
LEMMA SpecificationsInStep ==
  ASSUME NEW r, IsRead(r), NEW q, AsRead(q, r), NEW s, IsList(s),
         \A e \in ToSet(s) : IsList(e.paths) /\ \A i \in ToSet(e.paths) : IsList(i.operations)
  PROVE  ReadInStep(r, q, FoldLeft(ReadSpecification, r, s), FoldLeft(ReadSpecification, q, s))
<1>1. Len(s) \in Nat /\ DOMAIN s = 1..Len(s)
  BY ListFacts
<1>2. PICK h : /\ h[0] = q
               /\ \A k \in 1..Len(s) : h[k] = ReadSpecification(h[k - 1], s[k])
               /\ h[Len(s)] = RS!FoldLeft(ReadSpecification, q, s)
  BY <1>1, RS!FoldSteps
<1>3. ReadFold(<<h, r>>, 0, r)
  BY <1>2 DEF ReadFold
<1>4. ASSUME NEW k \in 1..Len(s), NEW a, ReadFold(<<h, r>>, k - 1, a)
      PROVE  ReadFold(<<h, r>>, k, ReadSpecification(a, s[k]))
  <2>1. s[k] \in ToSet(s)
    BY <1>1 DEF ToSet
  <2> QED
    BY <1>2, <1>4, <2>1, SpecificationInStep DEF ReadFold
<1>5. ReadFold(<<h, r>>, Len(s), RS!FoldLeft(ReadSpecification, r, s))
  BY <1>1, <1>3, <1>4, RS!FoldHolds
<1>6. \A b : RS!FoldLeft(ReadSpecification, b, s) = FoldLeft(ReadSpecification, b, s)
  BY DEF RS!FoldLeft, FoldLeft, RS!MapThenFoldSet, MapThenFoldSet, RS!Max, Max
<1> QED
  BY <1>2, <1>5, <1>6 DEF ReadFold, ReadInStep

(* What a complete comparison says of the operations is what it would say  *)
(* of all.                                                                 *)
LEMMA ApiIsWhole ==
  ASSUME NEW p \in Contracted, ApiContract(p, Maximum).status = "complete"
  PROVE  ApiContract(p, Unlimited).verdicts = ApiContract(p, Maximum).verdicts
<1> DEFINE declared(L) == DeclaredOperations(p.api.specifications, L)
           source(L) == SourceOperations(p.api.entrypoints, L)
           start(L) == [operations |-> <<>>, scopes |-> {}, specifications |-> 0,
                        failed |-> FALSE, limit |-> L.operations]
           all == AllSourceOperations(p.api.entrypoints)
           M == Maximum
           U == Unlimited
<1>1. \A L : ApiContract(p, L).verdicts = ApiVerdicts(declared(L), source(L))
  BY DEF ApiContract
<1>2. /\ ~(Len(p.api.specifications) > M.specifications)
      /\ ~(Len(declared(M).operations) >= M.operations)
      /\ ~(Len(source(M)) >= M.sourceOperations)
  <2> HIDE DEF declared, source
  <2> QED BY DEF ApiContract, Completeness, declared, source
<1>3. IsList(p.api.specifications) /\ IsList(p.api.entrypoints)
  BY ContractedFacts
<1>4. UpTo(p.api.specifications, M.specifications) = p.api.specifications
      /\ UpTo(p.api.specifications, U.specifications) = p.api.specifications
  <2>1. "specifications" \in MaximumNames \ {"importDepth"}
    BY DEF MaximumNames
  <2> QED BY <1>2, <1>3, <2>1, UncutList
<1>5. /\ declared(M) = FoldLeft(ReadSpecification, start(M), p.api.specifications)
      /\ declared(U) = FoldLeft(ReadSpecification, start(U), p.api.specifications)
  BY <1>4 DEF DeclaredOperations
<1>6. IsRead(start(M)) /\ AsRead(start(U), start(M))
  BY FewIsList DEF IsRead, AsRead, ReadNames
<1>7. ReadInStep(start(M), start(U), declared(M), declared(U))
  <2> HIDE DEF start, declared
  <2>1. \A e \in ToSet(p.api.specifications) :
            IsList(e.paths) /\ \A i \in ToSet(e.paths) : IsList(i.operations)
    BY ContractedInLists
  <2> QED BY <1>3, <1>5, <1>6, <2>1, SpecificationsInStep
<1>8. AsRead(declared(U), declared(M))
  <2> HIDE DEF start, declared
  <2>1. Len(declared(M).operations) \in Nat /\ M.operations \in Nat
    BY <1>7, ListFacts, MaximumFacts DEF ReadInStep, IsRead, MaximumNames
  <2> QED BY <1>2, <1>7, <2>1 DEF ReadInStep, IsShort
<1>9. IsList(all)
  <2> DEFINE s == p.api.entrypoints
             f == [e \in DOMAIN s |-> OperationsOf(s[e])]
  <2>1. all = Joined(f)
    BY DEF AllSourceOperations
  <2>2. \A e \in DOMAIN s : IsList(OperationsOf(s[e]))
    <3>1. \A e \in DOMAIN s : IsList(s[e].methods)
      BY ContractedInLists DEF ToSet
    <3>2. ASSUME NEW e \in DOMAIN s PROVE IsList(OperationsOf(s[e]))
      <4> DEFINE g == OperationsOf(s[e])
      <4>1. g = [m \in DOMAIN s[e].methods |-> g[m]]
        BY DEF OperationsOf
      <4> HIDE DEF g, s
      <4> QED BY <3>1, <4>1, MapIsList DEF g
    <3> QED BY <3>2
  <2>3. IsList(f)
    <3>1. f = [e \in DOMAIN s |-> f[e]]
      OBVIOUS
    <3> HIDE DEF f
    <3> QED BY <1>3, <3>1, MapIsList
  <2>4. \A i \in DOMAIN f : IsList(f[i])
    BY <2>2
  <2> HIDE DEF f, all
  <2> QED BY <2>1, <2>3, <2>4, JoinedIsList
<1>10. source(U) = source(M)
  <2>1. "sourceOperations" \in MaximumNames \ {"importDepth"}
    BY DEF MaximumNames
  <2>2. \A L : source(L) = UpTo(all, L.sourceOperations)
    BY DEF SourceOperations
  <2> HIDE DEF source, all
  <2> QED BY <1>2, <1>9, <2>1, <2>2, UncutList
<1>11. \A d, e, t : d.operations = e.operations /\ d.scopes = e.scopes
                        => ApiVerdicts(d, t) = ApiVerdicts(e, t)
  BY DEF ApiVerdicts
<1>12. declared(U).operations = declared(M).operations /\ declared(U).scopes = declared(M).scopes
  <2> HIDE DEF declared
  <2> QED BY <1>8 DEF AsRead
<1> HIDE DEF declared, source
<1> QED
  BY <1>1, <1>10, <1>11, <1>12

(* What can be listed is finite.                                           *)
LEMMA ImageOfList ==
  ASSUME NEW s, IsList(s), NEW f, f = [i \in DOMAIN s |-> f[i]]
  PROVE  IsFiniteSet({f[i] : i \in DOMAIN s})
<1>1. IsList(f)
  BY MapIsList
<1>2. ToSet(f) = {f[i] : i \in DOMAIN s}
  BY DEF ToSet
<1> QED
  BY <1>1, <1>2, ListIsFinite

(* Counting: parts, images and unions of what is finite.                   *)
LEMMA PartIsFinite ==
  ASSUME NEW S, IsFiniteSet(S), NEW T, T \subseteq S PROVE IsFiniteSet(T)
BY FS_Subset

(* So is what a function makes of it.                                      *)
LEMMA ImageIsFinite ==
  ASSUME NEW S, IsFiniteSet(S), NEW f, DOMAIN f = S, f = [x \in S |-> f[x]]
  PROVE  IsFiniteSet({f[x] : x \in S})
<1>1. f \in Surjection(S, {f[x] : x \in S})
  BY DEF Surjection
<1> QED
  BY <1>1, FS_Surjection

(* So are two of them.                                                     *)
LEMMA BothAreFinite ==
  ASSUME NEW S, NEW T, IsFiniteSet(S), IsFiniteSet(T) PROVE IsFiniteSet(S \cup T)
BY FS_Union

-----------------------------------------------------------------------------
(* A project declares finitely many tables.                                *)
LEMMA TablesAreFinite ==
  ASSUME NEW p \in Contracted
  PROVE  IsFiniteSet(UNION {{t.name : t \in ToSet(f.tables)} : f \in ToSet(p.database.files)})
<1> DEFINE files == ToSet(p.database.files)
           g == [f \in files |-> {t.name : t \in ToSet(f.tables)}]
<1>1. IsFiniteSet(files)
  BY ContractedFacts, ListIsFinite
<1>2. \A f \in files : IsList(f.tables)
  BY ContractedInLists
<1>3. ASSUME NEW f \in files PROVE IsFiniteSet(g[f])
  <2> DEFINE S == ToSet(f.tables)
             n == [t \in S |-> t.name]
  <2>1. IsFiniteSet(S)
    BY <1>2, <1>3, ListIsFinite
  <2>2. DOMAIN n = S /\ n = [x \in S |-> n[x]]
    OBVIOUS
  <2>3. g[f] = {n[x] : x \in S}
    OBVIOUS
  <2> HIDE DEF n, S, g
  <2> QED BY <2>1, <2>2, <2>3, ImageIsFinite
<1>4. IsFiniteSet({g[f] : f \in files})
  <2>1. DOMAIN g = files /\ g = [f \in files |-> g[f]]
    OBVIOUS
  <2> HIDE DEF g, files
  <2> QED BY <1>1, <2>1, ImageIsFinite
<1>5. IsFiniteSet(UNION {g[f] : f \in files})
  <2> HIDE DEF g, files
  <2>1. \A T \in {g[f] : f \in files} : IsFiniteSet(T)
    BY <1>3
  <2> QED BY <1>4, <2>1, FS_UNION
<1>6. {g[f] : f \in files} = {{t.name : t \in ToSet(f.tables)} : f \in ToSet(p.database.files)}
  OBVIOUS
<1> HIDE DEF g, files
<1> QED
  BY <1>5, <1>6

(* The entities of a schema: a complete answer went over all files and     *)
(* kept every entity.                                                      *)
LEMMA DatabaseIsWhole ==
  ASSUME NEW p \in Contracted, DatabaseContract(p, Maximum).status = "complete"
  PROVE  DatabaseContract(p, Unlimited).verdicts = DatabaseContract(p, Maximum).verdicts
<1> DEFINE db == p.database
           files == ToSet(db.files)
           entity == [t \in db.references |-> EntityOf(t, db.bindings)]
           sources == {EntityOf(t, db.bindings) : t \in db.references}
           tables == UNION {{t.name : t \in ToSet(f.tables)} : f \in files}
           declared == {n \in tables : \E f \in files : Declares(f, n)}
           migrated == {n \in tables :
                            \E f \in files : Migrates(f, n, {"create", "alter", "drop"})}
           names == (sources \cup declared) \cup migrated
           M == Maximum
           U == Unlimited
<1>1. \A L : DatabaseContract(p, L).verdicts
                = {<<n, Gaps(n, files, sources)>> : n \in Least(names, L.entities)}
  BY DEF DatabaseContract
<1>2. ~(Cardinality(names) > M.entities)
  BY DEF DatabaseContract, Completeness
<1>3. IsFiniteSet(names)
  <2>1. IsFiniteSet(tables)
    BY TablesAreFinite
  <2>2. IsFiniteSet(declared) /\ IsFiniteSet(migrated)
    <3>1. declared \subseteq tables /\ migrated \subseteq tables
      OBVIOUS
    <3> HIDE DEF tables, declared, migrated
    <3> QED BY <2>1, <3>1, PartIsFinite
  <2>3. IsFiniteSet(sources)
    <3>1. DOMAIN entity = db.references /\ entity = [x \in db.references |-> entity[x]]
      OBVIOUS
    <3>2. IsFiniteSet(db.references)
      BY ContractedInLists
    <3>3. sources = {entity[x] : x \in db.references}
      OBVIOUS
    <3> HIDE DEF entity, sources
    <3> QED BY <3>1, <3>2, <3>3, ImageIsFinite
  <2> HIDE DEF tables, declared, migrated, sources
  <2> QED BY <2>2, <2>3, BothAreFinite
<1>4. Least(names, M.entities) = Least(names, U.entities)
  <2>1. "entities" \in MaximumNames \ {"importDepth"}
    BY DEF MaximumNames
  <2> HIDE DEF names
  <2> QED BY <1>2, <1>3, <2>1, UncutSet
<1> HIDE DEF names, files, sources
<1> QED
  BY <1>1, <1>4

-----------------------------------------------------------------------------
(* The evidence of tests: a complete answer looked at every critical file  *)
(* and at all tests that reach it.                                         *)
LEMMA TestsAreWhole ==
  ASSUME NEW p \in Contracted, TestEvidence(p, Maximum).status = "complete"
  PROVE  TestEvidence(p, Unlimited).verdicts = TestEvidence(p, Maximum).verdicts
<1> DEFINE files == p.tests.files
           tests == {f.name : f \in {g \in files : g.test}}
           critical == p.tests.critical
           related(c, depth) == {t \in tests : c \in ReachableFrom(t, files, depth)}
           verdicts(kept, depth) ==
                {<<c, IF related(c, depth) # {} THEN "observed" ELSE "not-observed">> : c \in kept}
           M == Maximum
           U == Unlimited
<1>1. \A L : TestEvidence(p, L).verdicts = verdicts(Least(critical, L.targets), L.importDepth)
  BY DEF TestEvidence
<1>2. ~(Cardinality(critical) > M.targets)
  <2>1. TestEvidence(p, M).status
          = IF p.profile = "unsupported" \/ critical = {} THEN "unsupported"
            ELSE IF \/ \/ Cardinality(critical) > M.targets
                       \/ \E c \in Least(critical, M.targets) :
                                Cardinality(related(c, M.importDepth)) > M.related
                    \/ \E f \in files : ~f.parsed \/ f.unresolved
                    \/ p.truncated
            THEN "partial" ELSE "complete"
    BY DEF TestEvidence
  <2> HIDE DEF related
  <2> QED BY <2>1
<1>3. Least(critical, M.targets) = Least(critical, U.targets)
  <2>1. "targets" \in MaximumNames \ {"importDepth"}
    BY DEF MaximumNames
  <2>2. IsFiniteSet(critical)
    BY ContractedInLists
  <2> QED BY <1>2, <2>1, <2>2, UncutSet
<1>4. U.importDepth = M.importDepth
  BY MaximumFacts
<1> HIDE DEF verdicts, critical
<1> QED
  BY <1>1, <1>3, <1>4

-----------------------------------------------------------------------------
(* A set from which those are kept that few come before.                   *)
LEMMA LocatedIsList ==
  ASSUME NEW p \in Contracted
  PROVE  /\ IsList(Located(p.structure))
         /\ ToSet(Located(p.structure)) \subseteq ToSet(p.structure.modules)
<1> DEFINE s == p.structure.modules
           f == [i \in DOMAIN s |-> IF s[i].file # 0 THEN <<s[i]>> ELSE <<>>]
<1>1. Located(p.structure) = Joined(f)
  BY DEF Located, Passing
<1>2. IsList(s)
  BY ContractedFacts
<1>3. /\ DOMAIN f = DOMAIN s /\ f = [i \in DOMAIN s |-> f[i]]
      /\ \A i \in DOMAIN s : f[i] \in {<<>>, <<s[i]>>}
  OBVIOUS
<1>4. {s[i] : i \in {j \in DOMAIN s : f[j] # <<>>}} \subseteq ToSet(s)
  BY DEF ToSet
<1> HIDE DEF f, s
<1> QED
  BY <1>1, <1>2, <1>3, <1>4, PassingIsList, PassingElements DEF s

(* The cycles of imports are a list.                                       *)
LEMMA CyclesAreList ==
  ASSUME NEW p \in Contracted PROVE IsList(Cycles(p.structure))
<1> DEFINE modules == Located(p.structure)
           through == [m \in DOMAIN modules |-> CyclesThrough(modules[m])]
           all == Joined(through)
           f == [i \in DOMAIN all |-> IF all[i] # <<>> THEN <<all[i]>> ELSE <<>>]
<1>1. Cycles(p.structure) = Distinct(Joined(f))
  BY DEF Cycles, Passing
<1>2. \A m \in ToSet(p.structure.modules) : IsList(m.dependencies)
  BY ContractedInLists
<1>3. ASSUME NEW m, IsList(m.dependencies) PROVE IsList(CyclesThrough(m))
  <2> DEFINE s == m.dependencies
             g == [i \in DOMAIN s |-> IF s[i].target # 0 THEN <<s[i]>> ELSE <<>>]
             located == Joined(g)
             h == [i \in DOMAIN located |-> IF located[i].circular THEN <<located[i]>> ELSE <<>>]
             circular == Joined(h)
             c == CyclesThrough(m)
  <2>1. LocatedDependencies(m) = located
    BY DEF LocatedDependencies, Passing
  <2>2. IsList(located)
    <3>1. /\ DOMAIN g = DOMAIN s /\ g = [i \in DOMAIN s |-> g[i]]
          /\ \A i \in DOMAIN s : g[i] \in {<<>>, <<s[i]>>}
      OBVIOUS
    <3> HIDE DEF g
    <3> QED BY <1>3, <3>1, PassingIsList
  <2>3. IsList(circular)
    <3>1. /\ DOMAIN h = DOMAIN located /\ h = [i \in DOMAIN located |-> h[i]]
          /\ \A i \in DOMAIN located : h[i] \in {<<>>, <<located[i]>>}
      <4> HIDE DEF located
      <4> QED OBVIOUS
    <3> HIDE DEF h, located
    <3> QED BY <2>2, <3>1, PassingIsList
  <2>4. c = [d \in DOMAIN circular |->
                CanonicalCycle((<<m.file>> \o InSnapshot(circular[d].cycle))
                                    \o <<circular[d].target>>)]
    <3>1. Passing(LocatedDependencies(m), LAMBDA d : d.circular) = circular
      BY <2>1 DEF Passing
    <3> QED BY <3>1 DEF CyclesThrough
  <2>5. c = [d \in DOMAIN circular |-> c[d]]
    <3> DEFINE e == [d \in DOMAIN circular |->
                CanonicalCycle((<<m.file>> \o InSnapshot(circular[d].cycle))
                                    \o <<circular[d].target>>)]
    <3>1. e = [d \in DOMAIN circular |-> e[d]]
      <4> HIDE DEF circular
      <4> QED BY Zenon
    <3> HIDE DEF e, circular, c
    <3> QED BY <2>4, <3>1 DEF e
  <2> HIDE DEF c, circular
  <2> QED BY <2>3, <2>5, MapIsList DEF c
<1>4. IsList(through) /\ \A m \in DOMAIN through : IsList(through[m])
  <2>1. through = [m \in DOMAIN modules |-> through[m]]
        /\ \A m \in DOMAIN modules : through[m] = CyclesThrough(modules[m])
    OBVIOUS
  <2>2. \A m \in DOMAIN modules : IsList(modules[m].dependencies)
    <3>1. \A m \in DOMAIN modules : modules[m] \in ToSet(modules)
      BY DEF ToSet
    <3> HIDE DEF modules
    <3> QED BY <1>2, <3>1, LocatedIsList DEF modules
  <2> HIDE DEF modules, through
  <2> QED BY <1>3, <2>1, <2>2, LocatedIsList, MapIsList DEF modules
<1>5. IsList(all)
  <2> HIDE DEF through
  <2> QED BY <1>4, JoinedIsList
<1>6. IsList(Joined(f))
  <2>1. /\ DOMAIN f = DOMAIN all /\ f = [i \in DOMAIN all |-> f[i]]
        /\ \A i \in DOMAIN all : f[i] \in {<<>>, <<all[i]>>}
    <3> HIDE DEF all
    <3> QED OBVIOUS
  <2> HIDE DEF f, all
  <2> QED BY <1>5, <2>1, PassingIsList
<1> HIDE DEF f
<1> QED
  BY <1>1, <1>6, DistinctIsList

(* The modules that are coupled most are all modules that are coupled,     *)
(* when they fit.                                                          *)
LEMMA CoupledAreAll ==
  ASSUME NEW p \in Contracted, NEW n \in Nat,
         Cardinality({m \in ToSet(Located(p.structure)) : Coupling(m) > 0}) <= n
  PROVE  CoupledMost(p.structure, n) = {m \in ToSet(Located(p.structure)) : Coupling(m) > 0}
<1> DEFINE S == {m \in ToSet(Located(p.structure)) : Coupling(m) > 0}
           Before(k, m) == \/ Coupling(k) > Coupling(m)
                           \/ (Coupling(k) = Coupling(m) /\ k.file < m.file)
<1>1. CoupledMost(p.structure, n)
        = {m \in S : Cardinality({k \in S \ {m} : Before(k, m)}) < n}
  BY DEF CoupledMost
<1>2. IsFiniteSet(S)
  <2>1. IsFiniteSet(ToSet(Located(p.structure)))
    BY LocatedIsList, ListIsFinite
  <2>2. S \subseteq ToSet(Located(p.structure))
    OBVIOUS
  <2> HIDE DEF S
  <2> QED BY <2>1, <2>2, PartIsFinite
<1>3. \A m \in S : {k \in S \ {m} : Before(k, m)} \subseteq S \ {m}
  OBVIOUS
<1> HIDE DEF S, Before
<1>4. \A m \in S : Cardinality({k \in S \ {m} : Before(k, m)}) < n
  <2>1. Cardinality(S) <= n
    BY DEF S
  <2> QED BY <1>2, <1>3, <2>1, FewBefore
<1> QED
  BY <1>1, <1>4 DEF S

(* The architecture: no cycle, violation or coupling was left out of a     *)
(* complete answer.                                                        *)
LEMMA ArchitectureIsWhole ==
  ASSUME NEW p \in Contracted, Architecture(p, Maximum).status = "complete"
  PROVE  Architecture(p, Unlimited).verdicts = Architecture(p, Maximum).verdicts
<1> DEFINE s == p.structure
           cycles == Cycles(s)
           orphans == Orphans(s)
           hotspots == {m \in ToSet(Located(s)) : Coupling(m) > 0}
           verdicts(c, o, h) ==
                ({<<"cycle", e>> : e \in ToSet(c)} \cup {<<"orphan", f>> : f \in o})
                    \cup {<<"hotspot", m.file, Coupling(m)>> : m \in h}
           M == Maximum
           U == Unlimited
<1>1. \A L : Architecture(p, L).verdicts
                = verdicts(UpTo(cycles, L.cycles), Least(orphans, L.orphans),
                           CoupledMost(s, L.hotspots))
  BY DEF Architecture
<1>2. /\ ~(Len(cycles) > M.cycles) /\ ~(Cardinality(orphans) > M.orphans)
      /\ ~(Cardinality(hotspots) > M.hotspots)
  BY DEF Architecture, MechanicalStatus
<1>3. /\ "cycles" \in MaximumNames \ {"importDepth"}
      /\ "orphans" \in MaximumNames \ {"importDepth"}
      /\ "hotspots" \in MaximumNames \ {"importDepth"}
  BY DEF MaximumNames
<1>4. UpTo(cycles, M.cycles) = UpTo(cycles, U.cycles)
  <2>1. IsList(cycles)
    BY CyclesAreList
  <2> HIDE DEF cycles
  <2> QED BY <1>2, <1>3, <2>1, UncutList
<1> DEFINE located == ToSet(Located(s))
<1>5. IsFiniteSet(located)
  BY LocatedIsList, ListIsFinite
<1>6. Least(orphans, M.orphans) = Least(orphans, U.orphans)
  <2> DEFINE alone == {n \in located : n.orphan}
             file == [m \in alone |-> m.file]
  <2>1. IsFiniteSet(alone)
    <3>1. alone \subseteq located
      OBVIOUS
    <3> HIDE DEF alone, located
    <3> QED BY <1>5, <3>1, PartIsFinite
  <2>2. orphans \subseteq {file[m] : m \in alone}
    BY DEF Orphans
  <2>3. DOMAIN file = alone /\ file = [m \in alone |-> file[m]]
    OBVIOUS
  <2>4. IsFiniteSet({file[m] : m \in alone})
    <3> HIDE DEF file, alone
    <3> QED BY <2>1, <2>3, ImageIsFinite
  <2>5. IsFiniteSet(orphans)
    <3> HIDE DEF file, alone, orphans
    <3> QED BY <2>2, <2>4, PartIsFinite
  <2> HIDE DEF orphans
  <2> QED BY <1>2, <1>3, <2>5, UncutSet
<1>7. CoupledMost(s, M.hotspots) = CoupledMost(s, U.hotspots)
  <2>1. IsFiniteSet(hotspots)
    <3>1. hotspots \subseteq located
      OBVIOUS
    <3> HIDE DEF hotspots, located
    <3> QED BY <1>5, <3>1, PartIsFinite
  <2>2. /\ M.hotspots \in Nat /\ U.hotspots \in Nat
        /\ Cardinality(hotspots) <= M.hotspots /\ Cardinality(hotspots) <= U.hotspots
    <3> HIDE DEF hotspots
    <3>1. Cardinality(hotspots) \in Nat
      BY <2>1, FS_CardinalityType
    <3>2. M.hotspots \in Nat /\ U.hotspots \in Nat /\ M.hotspots <= U.hotspots
      BY <1>3, MaximumFacts
    <3> QED BY <1>2, <3>1, <3>2
  <2> QED BY <2>2, CoupledAreAll
<1> HIDE DEF verdicts, cycles, orphans
<1> QED
  BY <1>1, <1>4, <1>6, <1>7

-----------------------------------------------------------------------------
(* A project has finitely many blocks that are repeated.                   *)
LEMMA BlocksAreFinite ==
  ASSUME NEW p \in Contracted PROVE IsFiniteSet(Blocks(p.copies))
<1> DEFINE copies == p.copies
           s == copies.duplicates
           f == [i \in DOMAIN s |-> IF /\ Valid(s[i].first, copies.length)
                                       /\ Valid(s[i].second, copies.length) /\ s[i].lines > 0
                                    THEN <<s[i]>> ELSE <<>>]
           named == Joined(f)
           places == [d \in DOMAIN named |-> {named[d].first, named[d].second}]
           block == [d \in DOMAIN named |-> [places |-> places[d], lines |-> named[d].lines]]
<1>1. Blocks(copies) = {[places |-> places[d], lines |-> named[d].lines] :
            d \in {e \in DOMAIN named : \A g \in DOMAIN named : g > e => places[g] # places[e]}}
  BY DEF Blocks, Passing
<1>2. Blocks(copies) \subseteq {block[d] : d \in DOMAIN named}
  <2> HIDE DEF named, places
  <2> QED BY <1>1
<1>3. IsList(named)
  <2>1. IsList(s)
    BY ContractedFacts
  <2>2. /\ DOMAIN f = DOMAIN s /\ f = [i \in DOMAIN s |-> f[i]]
        /\ \A i \in DOMAIN s : f[i] \in {<<>>, <<s[i]>>}
    OBVIOUS
  <2> HIDE DEF f, s
  <2> QED BY <2>1, <2>2, PassingIsList
<1>4. IsFiniteSet({block[d] : d \in DOMAIN named})
  <2>1. block = [d \in DOMAIN named |-> block[d]]
    <3> HIDE DEF named, places
    <3> QED OBVIOUS
  <2> HIDE DEF block, named
  <2> QED BY <1>3, <2>1, ImageOfList
<1> HIDE DEF block, named
<1> QED
  BY <1>2, <1>4, PartIsFinite DEF copies

(* Duplication: every block is in a complete answer.                       *)
LEMMA DuplicationIsWhole ==
  ASSUME NEW p \in Contracted, Duplication(p, Maximum).status = "complete"
  PROVE  Duplication(p, Unlimited).verdicts = Duplication(p, Maximum).verdicts
<1> DEFINE blocks == Blocks(p.copies)
           M == Maximum
           U == Unlimited
<1>1. \A L : Duplication(p, L).verdicts = Longest(blocks, L.blocks)
  BY DEF Duplication
<1>2. ~(Cardinality(blocks) > M.blocks)
  BY DEF Duplication, MechanicalStatus
<1>3. M.blocks \in Nat /\ U.blocks \in Nat /\ M.blocks <= U.blocks
  BY MaximumFacts DEF MaximumNames
<1>4. Cardinality(blocks) \in Nat
  BY BlocksAreFinite, FS_CardinalityType
<1>5. Cardinality(blocks) <= M.blocks /\ Cardinality(blocks) <= U.blocks
  <2> HIDE DEF blocks
  <2> QED BY <1>2, <1>3, <1>4
<1>6. Longest(blocks, M.blocks) = blocks /\ Longest(blocks, U.blocks) = blocks
  <2> HIDE DEF blocks
  <2> QED BY <1>5, Zenon DEF Longest
<1> HIDE DEF blocks
<1> QED
  BY <1>1, <1>6

-----------------------------------------------------------------------------
(* The measures of files, of whose nodes only so many are visited.         *)
LEMMA MeasuredIsList ==
  ASSUME NEW p \in Contracted, NEW n \in Nat, NEW L, L.nodes = n
  PROVE  IsList(Measured(p.code.files, L))
<1> DEFINE files == p.code.files
           cut == [f \in DOMAIN files |-> UpTo(files[f], n)]
           functions == [f \in DOMAIN files |->
                [i \in DOMAIN cut[f] |-> IF cut[f][i].function THEN <<cut[f][i]>> ELSE <<>>]]
           parts == [f \in DOMAIN files |-> Joined(functions[f])]
<1>1. Measured(files, L) = Joined(parts)
  <2>1. Measured(files, L) = Joined([f \in DOMAIN files |->
            Joined([i \in DOMAIN UpTo(files[f], L.nodes) |->
                        IF UpTo(files[f], L.nodes)[i].function
                        THEN <<UpTo(files[f], L.nodes)[i]>> ELSE <<>>])])
    BY DEF Measured, Passing
  <2>2. parts = [f \in DOMAIN files |->
            Joined([i \in DOMAIN UpTo(files[f], L.nodes) |->
                        IF UpTo(files[f], L.nodes)[i].function
                        THEN <<UpTo(files[f], L.nodes)[i]>> ELSE <<>>])]
    OBVIOUS
  <2> HIDE DEF parts
  <2> QED BY <2>1, <2>2
<1>2. IsList(files) /\ \A f \in DOMAIN files : IsList(files[f])
  BY ContractedInLists, ContractedFacts DEF AreLists
<1>3. ASSUME NEW f \in DOMAIN files PROVE IsList(Joined(functions[f]))
  <2> DEFINE s == UpTo(files[f], n)
             g == [i \in DOMAIN s |-> IF s[i].function THEN <<s[i]>> ELSE <<>>]
  <2>1. functions[f] = g
    OBVIOUS
  <2>2. IsList(s)
    BY <1>2, UpToFacts
  <2>3. /\ DOMAIN g = DOMAIN s /\ g = [i \in DOMAIN s |-> g[i]]
        /\ \A i \in DOMAIN s : g[i] \in {<<>>, <<s[i]>>}
    OBVIOUS
  <2> HIDE DEF g, s, functions
  <2> QED BY <2>1, <2>2, <2>3, PassingIsList
<1>4. parts = [f \in DOMAIN files |-> parts[f]]
      /\ \A f \in DOMAIN files : parts[f] = Joined(functions[f])
  <2> HIDE DEF functions
  <2> QED OBVIOUS
<1>5. IsList(parts) /\ \A f \in DOMAIN parts : IsList(parts[f])
  <2>1. DOMAIN parts = DOMAIN files
    OBVIOUS
  <2> HIDE DEF functions, parts, files
  <2> QED BY <1>2, <1>3, <1>4, <2>1, MapIsList
<1> HIDE DEF parts, files
<1> QED
  BY <1>1, <1>5, JoinedIsList DEF files

(* The measures: a file whose nodes were not all visited makes the answer  *)
(* partial.                                                                *)
LEMMA MeasuresAreWhole ==
  ASSUME NEW p \in Contracted, Measures(p, Maximum).status = "complete",
         ~CutUntold("measures", p)
  PROVE  Measures(p, Unlimited).verdicts = Measures(p, Maximum).verdicts
<1> DEFINE files == p.code.files
           measured(L) == Measured(files, L)
           list == Passing(Measured(files, Maximum), IsHotspot)
           hotspots == ToSet(list)
           spots(h, n) == {<<"hotspot", f.name>> :
                f \in {g \in h : Cardinality({e \in h \ {g} : Worse(e, g)}) < n}}
           covered(s) == {<<"coverage", a>> : a \in ToSet(s)}
           M == Maximum
           U == Unlimited
<1>1. \A L : Measures(p, L).verdicts
        = spots(ToSet(Passing(Measured(files, L), IsHotspot)), L.functionHotspots)
            \cup covered(UpTo(p.code.artifacts, L.artifacts))
  BY DEF Measures
<1>2. /\ \A f \in DOMAIN files : ~(Len(files[f]) > M.nodes)
      /\ ~(Cardinality(hotspots) > M.functionHotspots)
  BY DEF Measures
<1>3. /\ "nodes" \in MaximumNames \ {"importDepth"}
      /\ "functionHotspots" \in MaximumNames \ {"importDepth"}
      /\ "artifacts" \in MaximumNames \ {"importDepth"}
  BY DEF MaximumNames
<1>4. Measured(files, U) = Measured(files, M)
  <2>1. \A f \in DOMAIN files : UpTo(files[f], U.nodes) = UpTo(files[f], M.nodes)
    <3>1. \A f \in DOMAIN files : IsList(files[f])
      BY ContractedInLists DEF AreLists
    <3> QED BY <1>2, <1>3, <3>1, UncutList
  <2> DEFINE of(s) == Joined([i \in DOMAIN s |-> IF s[i].function THEN <<s[i]>> ELSE <<>>])
  <2>2. \A L : Measured(files, L)
                = Joined([f \in DOMAIN files |-> of(UpTo(files[f], L.nodes))])
    BY DEF Measured, Passing
  <2> HIDE DEF of
  <2>3. [f \in DOMAIN files |-> of(UpTo(files[f], U.nodes))]
            = [f \in DOMAIN files |-> of(UpTo(files[f], M.nodes))]
    BY <2>1
  <2> QED BY <2>2, <2>3
<1>5. IsFiniteSet(hotspots)
  <2> DEFINE s == Measured(files, M)
             g == [i \in DOMAIN s |-> IF IsHotspot(s[i]) THEN <<s[i]>> ELSE <<>>]
  <2>1. list = Joined(g)
    BY DEF Passing
  <2>2. IsList(s)
    BY <1>3, MaximumFacts, MeasuredIsList
  <2>3. /\ DOMAIN g = DOMAIN s /\ g = [i \in DOMAIN s |-> g[i]]
        /\ \A i \in DOMAIN s : g[i] \in {<<>>, <<s[i]>>}
    <3> HIDE DEF s
    <3> QED OBVIOUS
  <2> HIDE DEF g, s, list
  <2> QED BY <2>1, <2>2, <2>3, PassingIsList, ListIsFinite
<1>6. spots(hotspots, M.functionHotspots) = spots(hotspots, U.functionHotspots)
  <2> DEFINE worst(n) == {g \in hotspots : Cardinality({e \in hotspots \ {g} : Worse(e, g)}) < n}
  <2>1. \A n \in Nat : Cardinality(hotspots) <= n => worst(n) = hotspots
    <3> SUFFICES ASSUME NEW n \in Nat, Cardinality(hotspots) <= n
                 PROVE  \A g \in hotspots :
                            Cardinality({e \in hotspots \ {g} : Worse(e, g)}) < n
      OBVIOUS
    <3>1. \A g \in hotspots : {e \in hotspots \ {g} : Worse(e, g)} \subseteq hotspots \ {g}
      OBVIOUS
    <3> HIDE DEF hotspots
    <3> QED BY <1>5, <3>1, FewBefore
  <2>2. /\ M.functionHotspots \in Nat /\ U.functionHotspots \in Nat
        /\ M.functionHotspots <= U.functionHotspots
    BY <1>3, MaximumFacts
  <2>3. Cardinality(hotspots) \in Nat
    <3> HIDE DEF hotspots
    <3> QED BY <1>5, FS_CardinalityType
  <2>4. Cardinality(hotspots) <= M.functionHotspots
        /\ Cardinality(hotspots) <= U.functionHotspots
    <3> HIDE DEF hotspots
    <3> QED BY <1>2, <2>2, <2>3
  <2>5. worst(M.functionHotspots) = worst(U.functionHotspots)
    <3> HIDE DEF hotspots, worst
    <3> QED BY <2>1, <2>2, <2>4
  <2>6. \A n : spots(hotspots, n) = {<<"hotspot", f.name>> : f \in worst(n)}
    OBVIOUS
  <2> HIDE DEF hotspots, worst, spots
  <2> QED BY <2>5, <2>6
<1>7. UpTo(p.code.artifacts, M.artifacts) = UpTo(p.code.artifacts, U.artifacts)
  <2>1. ~(Len(p.code.artifacts) > M.artifacts)
    BY DEF CutUntold
  <2> QED BY <1>3, <2>1, ContractedFacts, UncutList
<1>8. Measures(p, M).verdicts = spots(hotspots, M.functionHotspots)
            \cup covered(UpTo(p.code.artifacts, M.artifacts))
  <2> HIDE DEF spots, covered
  <2> QED BY <1>1
<1>9. Measures(p, U).verdicts = spots(hotspots, U.functionHotspots)
            \cup covered(UpTo(p.code.artifacts, U.artifacts))
  <2> DEFINE hot(s) == ToSet(Passing(s, IsHotspot))
  <2>1. \A L : Measures(p, L).verdicts = spots(hot(Measured(files, L)), L.functionHotspots)
            \cup covered(UpTo(p.code.artifacts, L.artifacts))
    <3> HIDE DEF spots, covered
    <3> QED BY <1>1
  <2>2. hotspots = hot(Measured(files, M))
    OBVIOUS
  <2> HIDE DEF spots, covered, hot, hotspots
  <2> QED BY <1>4, <2>1, <2>2
<1> HIDE DEF spots, covered, hotspots
<1> QED
  BY <1>6, <1>7, <1>8, <1>9

(* What the analysis of dead code reports is lists.                        *)
LEMMA IssuesAreLists ==
  ASSUME NEW p \in Contracted
  PROVE  /\ IsList(Issues(p.code))
         /\ \A k \in {"unlisted", "exports", "types"} : IsList(Symbols(Issues(p.code), k))
<1> DEFINE s == p.code.issues
           f == [i \in DOMAIN s |-> IF s[i].file # 0 THEN <<s[i]>> ELSE <<>>]
           issues == Issues(p.code)
           keys == {"unlisted", "exports", "types"}
<1>1. issues = Joined(f)
  BY DEF Issues, Passing
<1>2. /\ DOMAIN f = DOMAIN s /\ f = [i \in DOMAIN s |-> f[i]]
      /\ \A i \in DOMAIN s : f[i] \in {<<>>, <<s[i]>>}
  OBVIOUS
<1>3. {s[i] : i \in {j \in DOMAIN s : f[j] # <<>>}} \subseteq ToSet(s)
  BY DEF ToSet
<1>4. IsList(issues) /\ ToSet(issues) \subseteq ToSet(s)
  <2> HIDE DEF f, issues
  <2> QED BY <1>1, <1>2, <1>3, ContractedFacts, PassingIsList, PassingElements
<1>5. ASSUME NEW i \in ToSet(s), NEW k \in keys PROVE IsList(i[k])
  <2> DEFINE all == <<i.unlisted, i.exports, i.types>>
  <2>1. AreLists(all)
    BY ContractedInLists
  <2>2. DOMAIN all = 1..3
    OBVIOUS
  <2>3. \A n \in 1..3 : IsList(all[n])
    <3> HIDE DEF all
    <3> QED BY <2>1, <2>2 DEF AreLists
  <2>4. IsList(all[1]) /\ IsList(all[2]) /\ IsList(all[3])
    <3> HIDE DEF all
    <3> QED BY <2>3
  <2>5. IsList(i.unlisted) /\ IsList(i.exports) /\ IsList(i.types)
    BY <2>4
  <2> HIDE DEF all
  <2> QED BY <2>5
<1>6. ASSUME NEW k \in keys PROVE IsList(Symbols(issues, k))
  <2> DEFINE g == [i \in DOMAIN issues |-> issues[i][k]]
  <2>1. Symbols(issues, k) = Joined(g)
    BY DEF Symbols
  <2>2. g = [i \in DOMAIN issues |-> g[i]]
    <3> HIDE DEF issues
    <3> QED OBVIOUS
  <2>3. \A i \in DOMAIN issues : issues[i] \in ToSet(s)
    <3>1. \A i \in DOMAIN issues : issues[i] \in ToSet(issues)
      <4> HIDE DEF issues
      <4> QED BY DEF ToSet
    <3> HIDE DEF issues
    <3> QED BY <1>4, <3>1
  <2>4. \A i \in DOMAIN issues : IsList(g[i])
    <3> HIDE DEF issues, s, keys
    <3> QED BY <1>5, <1>6, <2>3
  <2>5. DOMAIN g = DOMAIN issues
    OBVIOUS
  <2> HIDE DEF g, issues
  <2> QED BY <1>4, <2>1, <2>2, <2>4, <2>5, MapIsList, JoinedIsList
<1> QED
  BY <1>4, <1>6

(* Unused files and dependencies are finitely many.                        *)
LEMMA UnusedFilesAreFinite ==
  ASSUME NEW p \in Contracted
  PROVE  IsFiniteSet({i.file : i \in {j \in ToSet(Issues(p.code)) : j.unused}})
<1> DEFINE all == ToSet(Issues(p.code))
           S == {j \in all : j.unused}
           file == [i \in S |-> i.file]
<1>1. IsFiniteSet(S)
  <2>1. S \subseteq all
    OBVIOUS
  <2>2. IsFiniteSet(all)
    BY IssuesAreLists, ListIsFinite
  <2> HIDE DEF S, all
  <2> QED BY <2>1, <2>2, PartIsFinite
<1>2. DOMAIN file = S /\ file = [i \in S |-> file[i]]
  OBVIOUS
<1>3. {i.file : i \in {j \in ToSet(Issues(p.code)) : j.unused}} = {file[i] : i \in S}
  OBVIOUS
<1>4. IsFiniteSet({file[i] : i \in S})
  <2> HIDE DEF file, S
  <2> QED BY <1>1, <1>2, ImageIsFinite
<1> HIDE DEF file, S
<1> QED
  BY <1>3, <1>4

(* So are the dependencies nothing uses.                                   *)
LEMMA DependenciesAreFinite ==
  ASSUME NEW p \in Contracted, NEW L
  PROVE  IsFiniteSet(UnusedRuntimeDependencies(p.code, L))
<1> DEFINE manifests == ToSet(p.code.manifests)
           of == [m \in manifests |-> m.dependencies]
<1>1. IsFiniteSet(manifests)
  BY ContractedFacts, ListIsFinite
<1>2. IsFiniteSet({of[m] : m \in manifests})
  <2>1. DOMAIN of = manifests /\ of = [m \in manifests |-> of[m]]
    OBVIOUS
  <2> HIDE DEF of, manifests
  <2> QED BY <1>1, <2>1, ImageIsFinite
<1>3. \A m \in manifests : IsFiniteSet(of[m])
  BY ContractedInLists
<1>4. IsFiniteSet(UNION {of[m] : m \in manifests})
  <2> HIDE DEF of, manifests
  <2>1. \A T \in {of[m] : m \in manifests} : IsFiniteSet(T)
    BY <1>3
  <2> QED BY <1>2, <2>1, FS_UNION
<1>5. UnusedRuntimeDependencies(p.code, L) \subseteq UNION {of[m] : m \in manifests}
  BY DEF UnusedRuntimeDependencies
<1> HIDE DEF of, manifests
<1> QED
  BY <1>4, <1>5, PartIsFinite

(* Dead code: a complete answer has every unused file, export and          *)
(* dependency, when the commands of the manifests were read to the end.    *)
LEMMA DeadCodeIsWhole ==
  ASSUME NEW p \in Contracted, DeadCode(p, Maximum).status = "complete",
         ~CutUntold("dead code", p)
  PROVE  DeadCode(p, Unlimited).verdicts = DeadCode(p, Maximum).verdicts
<1> DEFINE code == p.code
           issues == Issues(code)
           files == {i.file : i \in {j \in ToSet(issues) : j.unused}}
           unused(L) == UnusedRuntimeDependencies(code, L)
           keys == {"unlisted", "exports", "types"}
           symbols(k, n) == {<<k, s>> : s \in ToSet(UpTo(Symbols(issues, k), n))}
           verdicts(f, d, n) == ({<<"file", e>> : e \in f} \cup {<<"dependency", e>> : e \in d})
                                    \cup UNION {symbols(k, n) : k \in keys}
           M == Maximum
           U == Unlimited
<1>1. \A L : DeadCode(p, L).verdicts
                = verdicts(Least(files, L.deadCode), Least(unused(L), L.deadCode), L.deadCode)
  BY DEF DeadCode
<1>2. /\ ~(Cardinality(files) > M.deadCode) /\ ~(Cardinality(unused(M)) > M.deadCode)
      /\ \A k \in keys : ~(Len(Symbols(issues, k)) > M.deadCode)
  <2> DEFINE cut == \/ Cardinality(files) > M.deadCode \/ Cardinality(unused(M)) > M.deadCode
                    \/ \E k \in keys : Len(Symbols(issues, k)) > M.deadCode
                    \/ code.misconfigured
  <2>1. DeadCode(p, M).status = MechanicalStatus(p, KnipEntries(code, M) # {}, code.tested, cut)
    BY DEF DeadCode
  <2>2. ~cut
    <3> HIDE DEF cut
    <3> QED BY <2>1 DEF MechanicalStatus
  <2> HIDE DEF files, unused
  <2> QED BY <2>2
<1>3. "deadCode" \in MaximumNames \ {"importDepth"}
  BY DEF MaximumNames
<1>4. unused(U) = unused(M)
  <2>1. ManifestCommands(code.manifests, M) = ManifestCommands(code.manifests, U)
    BY DEF CutUntold
  <2> QED BY <2>1 DEF UnusedRuntimeDependencies, SourceReferencedPackages
<1>5. IsFiniteSet(files)
  BY UnusedFilesAreFinite
<1>6. IsFiniteSet(unused(M))
  BY DependenciesAreFinite
<1>7. Least(files, M.deadCode) = Least(files, U.deadCode)
  <2> HIDE DEF files
  <2> QED BY <1>2, <1>3, <1>5, UncutSet
<1>8. Least(unused(M), M.deadCode) = Least(unused(U), U.deadCode)
  <2> HIDE DEF unused
  <2> QED BY <1>2, <1>3, <1>4, <1>6, UncutSet
<1>9. \A k \in keys : symbols(k, M.deadCode) = symbols(k, U.deadCode)
  <2>1. \A k \in keys : IsList(Symbols(issues, k))
    BY IssuesAreLists
  <2>2. \A k \in keys : UpTo(Symbols(issues, k), M.deadCode) = UpTo(Symbols(issues, k), U.deadCode)
    <3> HIDE DEF issues, keys
    <3> QED BY <1>2, <1>3, <2>1, UncutList
  <2> HIDE DEF issues, keys
  <2> QED BY <2>2
<1>10. \A f, d : verdicts(f, d, M.deadCode) = verdicts(f, d, U.deadCode)
  <2>1. {symbols(k, M.deadCode) : k \in keys} = {symbols(k, U.deadCode) : k \in keys}
    <3> HIDE DEF symbols, keys
    <3> QED BY <1>9
  <2> HIDE DEF symbols, keys
  <2> QED BY <2>1
<1> HIDE DEF verdicts, files, unused
<1> QED
  BY <1>1, <1>7, <1>8, <1>10

-----------------------------------------------------------------------------
(* Flags are declared in JSON files and in sources that were parsed.       *)
LEMMA FlagListsAre ==
  ASSUME NEW p \in Contracted
  PROVE  /\ IsList(p.flags.json) /\ \A f \in DOMAIN p.flags.json : IsList(p.flags.json[f])
         /\ IsList(ParsedFiles(p.flags))
         /\ \A i \in DOMAIN ParsedFiles(p.flags) :
                LET file == ParsedFiles(p.flags)[i]
                IN  /\ file \in ToSet(p.flags.sources) /\ file.parsed
                    /\ IsList(file.declarations) /\ IsList(file.calls)
<1> DEFINE s == p.flags.sources
           f == [i \in DOMAIN s |-> IF s[i].parsed THEN <<s[i]>> ELSE <<>>]
           files == ParsedFiles(p.flags)
<1>1. files = Joined(f)
  BY DEF ParsedFiles, Passing
<1>2. /\ DOMAIN f = DOMAIN s /\ f = [i \in DOMAIN s |-> f[i]]
      /\ \A i \in DOMAIN s : f[i] \in {<<>>, <<s[i]>>}
  OBVIOUS
<1> DEFINE parsed == {x \in ToSet(s) : x.parsed}
<1>3. {s[i] : i \in {j \in DOMAIN s : f[j] # <<>>}} \subseteq parsed
  BY DEF ToSet
<1>4. IsList(files) /\ \A x \in ToSet(files) : x \in ToSet(s) /\ x.parsed
  <2>1. IsList(files) /\ ToSet(files) \subseteq parsed
    <3> HIDE DEF f, files, parsed
    <3> QED BY <1>1, <1>2, <1>3, ContractedFacts, PassingIsList, PassingElements
  <2> HIDE DEF files
  <2> QED BY <2>1
<1>5. \A i \in DOMAIN files : files[i] \in ToSet(files)
  <2> HIDE DEF files
  <2> QED BY DEF ToSet
<1>6. \A x \in ToSet(s) : IsList(x.declarations) /\ IsList(x.calls)
  BY ContractedInLists
<1>7. IsList(p.flags.json) /\ \A i \in DOMAIN p.flags.json : IsList(p.flags.json[i])
  BY ContractedInLists, ContractedFacts DEF AreLists
<1> HIDE DEF files, s
<1> QED
  BY <1>4, <1>5, <1>6, <1>7 DEF files, s

(* Flags: every declaration and every use of a flag is in a complete       *)
(* answer.                                                                 *)
LEMMA FlagsAreWhole ==
  ASSUME NEW p \in Contracted, FeatureFlags(p, Maximum).status = "complete",
         ~CutUntold("flags", p)
  PROVE  FeatureFlags(p, Unlimited).verdicts = FeatureFlags(p, Maximum).verdicts
<1> DEFINE flags == p.flags
           M == Maximum
           U == Unlimited
           n == M.declarations
           json(L) == JsonDeclarations(flags, L)
           typescript(L) == TypescriptDeclarations(flags, L)
           files == ParsedFiles(flags)
           verdicts(d, u) == {<<k, FlagStatus(d, u, k)>> :
                                k \in {r.key : r \in ToSet(d) \cup ToSet(u)} \ {0}}
           declarations(L) == UpTo(json(L) \o typescript(L), L.declarations)
<1>1. \A L : FeatureFlags(p, L).verdicts = verdicts(declarations(L), Usages(flags, L))
  BY DEF FeatureFlags
<1>2. /\ ~(Len(json(M)) + Len(typescript(M)) > n)
      /\ ~(Len(Usages(flags, M)) >= M.usages)
  <2> DEFINE failed == \E f \in ToSet(flags.sources) : ~f.parsed /\ f.flagged
             cut == \/ Len(json(M)) + Len(typescript(M)) > n
                    \/ Len(Usages(flags, M)) >= M.usages
             nothing == /\ declarations(M) = <<>> /\ Usages(flags, M) = <<>>
                        /\ ~flags.provider /\ ~failed
  <2>1. FeatureFlags(p, M).status = IF nothing THEN "unsupported"
                                    ELSE Completeness(p, cut \/ failed)
    BY DEF FeatureFlags
  <2>2. ~cut
    <3> HIDE DEF cut, failed, nothing
    <3> QED BY <2>1 DEF Completeness
  <2> HIDE DEF json, typescript
  <2> QED BY <2>2
<1>3. /\ "declarations" \in MaximumNames \ {"importDepth"}
      /\ "usages" \in MaximumNames \ {"importDepth"}
  BY DEF MaximumNames
<1>4. n \in Nat
  BY <1>3, MaximumFacts
<1>5. json(M) = Joined(flags.json) /\ json(U) = Joined(flags.json) /\ IsList(Joined(flags.json))
  <2> DEFINE s == flags.json
             cut(l) == [f \in DOMAIN s |-> UpTo(s[f], l)]
  <2>1. IsList(s) /\ \A f \in DOMAIN s : IsList(s[f])
    BY FlagListsAre
  <2>2. IsList(Joined(s)) /\ ~(Len(Joined(s)) > n)
    BY <2>1, JoinedIsList DEF CutUntold
  <2>3. \A f \in DOMAIN s : Len(s[f]) <= n
    <3>1. \A f \in DOMAIN s : Len(s[f]) <= Len(Joined(s)) /\ Len(s[f]) \in Nat
      BY <2>1, PartIsShorter, ListFacts
    <3>2. Len(Joined(s)) \in Nat
      BY <2>2, ListFacts
    <3> HIDE DEF s, n
    <3> QED BY <1>4, <2>2, <3>1, <3>2
  <2>4. cut(M.declarations) = s /\ cut(U.declarations) = s
    <3>1. \A f \in DOMAIN s : UpTo(s[f], M.declarations) = s[f] /\ UpTo(s[f], U.declarations) = s[f]
      <4> HIDE DEF s
      <4> QED BY <1>3, <2>1, <2>3, UncutList
    <3>2. s = [f \in DOMAIN s |-> s[f]]
      BY <2>1 DEF IsList
    <3> HIDE DEF s
    <3> QED BY <3>1, <3>2
  <2>5. \A L : json(L) = UpTo(Joined(cut(L.declarations)), L.declarations)
    BY DEF JsonDeclarations
  <2>6. UpTo(Joined(s), M.declarations) = Joined(s) /\ UpTo(Joined(s), U.declarations) = Joined(s)
    <3> HIDE DEF s
    <3> QED BY <1>3, <2>2, UncutList
  <2> HIDE DEF json, cut, s
  <2> QED BY <2>2, <2>4, <2>5, <2>6 DEF s
<1>6. typescript(U) = typescript(M) /\ IsList(typescript(M))
  <2> DEFINE cut(l) == [f \in DOMAIN files |-> UpTo(files[f].declarations, l)]
             whole == [f \in DOMAIN files |-> files[f].declarations]
  <2>1. IsList(files) /\ \A f \in DOMAIN files : IsList(files[f].declarations)
    BY FlagListsAre
  <2>2. \A f \in DOMAIN files : ~(Len(files[f].declarations) > n)
    <3>1. \A f \in ToSet(flags.sources) : ~(f.parsed /\ Len(f.declarations) > n)
      BY DEF CutUntold
    <3>2. \A f \in DOMAIN files : files[f] \in ToSet(flags.sources) /\ files[f].parsed
      BY FlagListsAre
    <3> HIDE DEF files, n
    <3> QED BY <3>1, <3>2
  <2>3. \A f \in DOMAIN files :
            /\ UpTo(files[f].declarations, M.declarations) = files[f].declarations
            /\ UpTo(files[f].declarations, U.declarations) = files[f].declarations
    <3> HIDE DEF files
    <3> QED BY <1>3, <2>1, <2>2, UncutList
  <2>4. cut(M.declarations) = whole /\ cut(U.declarations) = whole
    <3> HIDE DEF files
    <3> QED BY <2>3
  <2>5. \A L : typescript(L) = Joined(cut(L.declarations))
    BY DEF TypescriptDeclarations
  <2>6. whole = [f \in DOMAIN files |-> whole[f]] /\ \A f \in DOMAIN whole : IsList(whole[f])
    <3> HIDE DEF files
    <3> QED BY <2>1
  <2>7. IsList(Joined(whole))
    <3> HIDE DEF whole, files
    <3> QED BY <2>1, <2>6, MapIsList, JoinedIsList
  <2> HIDE DEF typescript, cut, whole, files
  <2> QED BY <2>4, <2>5, <2>7
<1>7. declarations(U) = declarations(M)
  <2> DEFINE j == Joined(flags.json)
             t == typescript(M)
  <2>1. /\ IsList(j \o t) /\ Len(j \o t) = Len(j) + Len(t)
        /\ Len(j) \in Nat /\ Len(t) \in Nat
    <3> HIDE DEF j, t
    <3>1. IsList(j) /\ IsList(t)
      BY <1>5, <1>6 DEF j, t
    <3> QED BY <3>1, ConcatIsList, ListFacts
  <2>2. ~(Len(j \o t) > n)
    <3> HIDE DEF j, t, json, typescript
    <3> QED BY <1>2, <1>5, <2>1 DEF j, t
  <2>3. UpTo(j \o t, M.declarations) = j \o t /\ UpTo(j \o t, U.declarations) = j \o t
    <3> HIDE DEF j, t
    <3> QED BY <1>3, <2>1, <2>2, UncutList
  <2> HIDE DEF json, typescript
  <2> QED BY <1>5, <1>6, <2>3
<1>8. Usages(flags, U) = Usages(flags, M)
  <2> DEFINE calls == [f \in DOMAIN files |-> files[f].calls]
             all == Joined(calls)
  <2>1. \A L : Usages(flags, L) = UpTo(all, L.usages)
    BY DEF Usages
  <2>2. calls = [f \in DOMAIN files |-> calls[f]] /\ DOMAIN calls = DOMAIN files
        /\ \A f \in DOMAIN calls : calls[f] = files[f].calls
    <3> HIDE DEF files
    <3> QED OBVIOUS
  <2>3. IsList(files) /\ \A f \in DOMAIN files : IsList(files[f].calls)
    BY FlagListsAre
  <2>4. IsList(all)
    <3> HIDE DEF calls, files
    <3> QED BY <2>2, <2>3, MapIsList, JoinedIsList
  <2> HIDE DEF all
  <2> QED BY <1>2, <1>3, <2>1, <2>4, UncutList
<1> HIDE DEF verdicts, declarations
<1> QED
  BY <1>1, <1>7, <1>8

(* The environment: reads are left out only of an answer that is partial.  *)
CollectedNames == {"named", "dynamic", "cut", "limits"}

IsCollected(r) ==
    /\ r = [l \in CollectedNames |-> r[l]]
    /\ IsList(r.named) /\ r.dynamic \in Nat /\ r.limits = Maximum

AsCollected(q, r) ==
    /\ q = [l \in CollectedNames |-> q[l]]
    /\ q.named = r.named /\ q.dynamic = r.dynamic /\ q.limits = Unlimited

CollectedFold(c, k, a) ==
    IsCollected(a) /\ (~a.cut => AsCollected(c[k], a))

SR == INSTANCE FoldTheorems WITH Op <- SourceReads, Holds <- CollectedFold

(* What a file reads of the environment, by name or by a name it computes. *)
LEMMA ReadsAreLists ==
  ASSUME NEW file, IsList(file.reads)
  PROVE  IsList(NamedReads(file)) /\ IsList(ComputedReads(file))
<1> DEFINE s == file.reads
           f == [i \in DOMAIN s |-> IF s[i].name # 0 THEN <<s[i]>> ELSE <<>>]
           g == [i \in DOMAIN s |-> IF s[i].name = 0 THEN <<s[i]>> ELSE <<>>]
<1>1. NamedReads(file) = Joined(f) /\ ComputedReads(file) = Joined(g)
  BY DEF NamedReads, ComputedReads, Passing
<1>2. /\ DOMAIN f = DOMAIN s /\ f = [i \in DOMAIN s |-> f[i]]
      /\ \A i \in DOMAIN s : f[i] \in {<<>>, <<s[i]>>}
  OBVIOUS
<1>3. /\ DOMAIN g = DOMAIN s /\ g = [i \in DOMAIN s |-> g[i]]
      /\ \A i \in DOMAIN s : g[i] \in {<<>>, <<s[i]>>}
  OBVIOUS
<1> HIDE DEF f, g, s
<1>4. IsList(s)
  BY DEF s
<1>5. IsList(Joined(f))
  BY <1>2, <1>4, PassingIsList
<1>6. IsList(Joined(g))
  BY <1>3, <1>4, PassingIsList
<1> QED
  BY <1>1, <1>5, <1>6

(* One source file: what was not cut, the twin collects too.               *)
LEMMA SourceInStep ==
  ASSUME NEW r, IsCollected(r), NEW file, IsList(file.reads)
  PROVE  LET after == SourceReads(r, file)
         IN  /\ IsCollected(after)
             /\ ~after.cut => /\ ~r.cut
                              /\ \A q : AsCollected(q, r) => AsCollected(SourceReads(q, file), after)
<1> DEFINE named == r.named \o NamedReads(file)
           dynamic == r.dynamic + Len(ComputedReads(file))
           M == Maximum
           U == Unlimited
           full(c) == [c EXCEPT !.cut = TRUE]
           more(c, L) == [c EXCEPT !.named = UpTo(named, L.reads),
                                   !.dynamic = IF dynamic < L.dynamic THEN dynamic ELSE L.dynamic,
                                   !.cut = c.cut \/ Len(named) > L.reads \/ dynamic > L.dynamic]
           left(c, L) == Len(c.named) >= L.reads \/ ~file.parsed
<1>1. /\ M.reads \in Nat /\ U.reads \in Nat /\ M.reads <= U.reads
      /\ M.dynamic \in Nat /\ U.dynamic \in Nat /\ M.dynamic <= U.dynamic
  BY MaximumFacts DEF MaximumNames
<1>2. /\ IsList(r.named) /\ IsList(NamedReads(file)) /\ IsList(ComputedReads(file))
      /\ Len(r.named) \in Nat /\ Len(ComputedReads(file)) \in Nat /\ r.dynamic \in Nat
  BY ReadsAreLists, ListFacts DEF IsCollected
<1>3. IsList(named) /\ Len(named) \in Nat /\ Len(r.named) <= Len(named) /\ dynamic \in Nat
  <2>1. /\ IsList(named) /\ Len(named) = Len(r.named) + Len(NamedReads(file))
        /\ Len(NamedReads(file)) \in Nat
    BY <1>2, ConcatIsList, ListFacts
  <2> HIDE DEF named
  <2> QED BY <1>2, <2>1
<1>4. \A c : c.named = r.named /\ c.dynamic = r.dynamic =>
        SourceReads(c, file) = IF left(c, c.limits) THEN full(c) ELSE more(c, c.limits)
  BY DEF SourceReads
<1>5. SourceReads(r, file) = IF left(r, M) THEN full(r) ELSE more(r, M)
  <2>1. r.limits = M
    BY DEF IsCollected
  <2> HIDE DEF left, full, more
  <2> QED BY <1>4, <2>1
<1>6. CASE left(r, M)
  <2>1. IsCollected(full(r)) /\ full(r).cut
    BY DEF IsCollected, CollectedNames
  <2> HIDE DEF left, full, more
  <2> QED BY <1>5, <1>6, <2>1
<1>7. CASE ~left(r, M)
  <2> DEFINE t == more(r, M)
             few == IF dynamic < M.dynamic THEN dynamic ELSE M.dynamic
  <2>1. /\ t = [l \in CollectedNames |-> t[l]] /\ t.named = UpTo(named, M.reads)
        /\ t.dynamic = few /\ t.limits = M
        /\ t.cut = (r.cut \/ Len(named) > M.reads \/ dynamic > M.dynamic)
    <3> HIDE DEF named, dynamic, few
    <3> QED BY DEF IsCollected, CollectedNames, few
  <2>2. IsList(UpTo(named, M.reads)) /\ few \in Nat
    <3> HIDE DEF named, dynamic
    <3> QED BY <1>1, <1>3, UpToFacts
  <2>3. IsCollected(t)
    <3> HIDE DEF t, named, few
    <3> QED BY <2>1, <2>2 DEF IsCollected
  <2>4. ASSUME ~t.cut, NEW q, AsCollected(q, r) PROVE AsCollected(SourceReads(q, file), t)
    <3>1. ~(Len(named) > M.reads) /\ ~(dynamic > M.dynamic)
      <4> HIDE DEF t, named, dynamic
      <4> QED BY <2>1, <2>4
    <3>2. UpTo(named, M.reads) = named /\ UpTo(named, U.reads) = named
      <4>1. Len(named) <= M.reads /\ Len(named) <= U.reads
        <5> HIDE DEF named
        <5> QED BY <1>1, <1>3, <3>1
      <4> HIDE DEF named
      <4> QED BY <1>1, <1>3, <4>1, UpToFacts
    <3> DEFINE fewer == IF dynamic < U.dynamic THEN dynamic ELSE U.dynamic
    <3>3. few = dynamic /\ fewer = dynamic
      <4>1. dynamic <= M.dynamic /\ dynamic <= U.dynamic
        <5> HIDE DEF dynamic
        <5> QED BY <1>1, <1>3, <3>1
      <4> HIDE DEF dynamic
      <4> QED BY <1>1, <1>3, <4>1
    <3>4. ~left(q, U)
      BY <1>1, <1>2, <1>7, <2>4 DEF AsCollected
    <3>5. SourceReads(q, file) = more(q, U)
      <4>1. q.limits = U /\ q.named = r.named /\ q.dynamic = r.dynamic
        BY <2>4 DEF AsCollected
      <4> HIDE DEF left, full, more
      <4> QED BY <1>4, <3>4, <4>1
    <3> DEFINE u == more(q, U)
    <3>6. /\ u = [l \in CollectedNames |-> u[l]] /\ u.named = UpTo(named, U.reads)
          /\ u.dynamic = fewer /\ u.limits = U
      <4>1. q = [l \in CollectedNames |-> q[l]] /\ q.limits = U
        BY <2>4 DEF AsCollected
      <4> HIDE DEF named, dynamic, fewer
      <4> QED BY <4>1 DEF CollectedNames, fewer
    <3> HIDE DEF t, u, more, named, few, fewer
    <3> QED BY <2>1, <3>2, <3>3, <3>5, <3>6 DEF AsCollected, u
  <2>5. ~t.cut => ~r.cut
    <3> HIDE DEF t, named, dynamic
    <3> QED BY <2>1
  <2>6. SourceReads(r, file) = t
    <3> HIDE DEF left, full, more
    <3> QED BY <1>5, <1>7
  <2> HIDE DEF t
  <2> QED BY <2>3, <2>4, <2>5, <2>6
<1> QED
  BY <1>6, <1>7

(* All source files.                                                       *)
LEMMA SourcesInStep ==
  ASSUME NEW r, IsCollected(r), NEW q, AsCollected(q, r), NEW s, IsList(s),
         \A file \in ToSet(s) : IsList(file.reads)
  PROVE  /\ IsCollected(FoldLeft(SourceReads, r, s))
         /\ ~FoldLeft(SourceReads, r, s).cut =>
                AsCollected(FoldLeft(SourceReads, q, s), FoldLeft(SourceReads, r, s))
<1>1. Len(s) \in Nat /\ DOMAIN s = 1..Len(s)
  BY ListFacts
<1>2. PICK h : /\ h[0] = q
               /\ \A k \in 1..Len(s) : h[k] = SourceReads(h[k - 1], s[k])
               /\ h[Len(s)] = SR!FoldLeft(SourceReads, q, s)
  BY <1>1, SR!FoldSteps
<1>3. CollectedFold(h, 0, r)
  BY <1>2 DEF CollectedFold
<1>4. ASSUME NEW k \in 1..Len(s), NEW a, CollectedFold(h, k - 1, a)
      PROVE  CollectedFold(h, k, SourceReads(a, s[k]))
  <2>1. IsList(s[k].reads)
    BY <1>1 DEF ToSet
  <2> QED
    BY <1>2, <1>4, <2>1, SourceInStep DEF CollectedFold
<1>5. CollectedFold(h, Len(s), SR!FoldLeft(SourceReads, r, s))
  BY <1>1, <1>3, <1>4, SR!FoldHolds
<1>6. \A b : SR!FoldLeft(SourceReads, b, s) = FoldLeft(SourceReads, b, s)
  BY DEF SR!FoldLeft, FoldLeft, SR!MapThenFoldSet, MapThenFoldSet, SR!Max, Max
<1> QED
  BY <1>2, <1>5, <1>6 DEF CollectedFold

(* The reads of a project are all of them when none was cut.               *)
LEMMA ReadsAreWhole ==
  ASSUME NEW p \in Contracted
  PROVE  /\ IsList(ReadsIn(p.environment.sources, Maximum).named)
         /\ ~ReadsIn(p.environment.sources, Maximum).cut =>
                ReadsIn(p.environment.sources, Unlimited).named
                    = ReadsIn(p.environment.sources, Maximum).named
<1> DEFINE s == p.environment.sources
           start(L) == [named |-> <<>>, dynamic |-> 0, cut |-> FALSE, limits |-> L]
<1>1. IsCollected(start(Maximum)) /\ AsCollected(start(Unlimited), start(Maximum))
  BY FewIsList DEF IsCollected, AsCollected, CollectedNames
<1>2. \A L : ReadsIn(s, L) = FoldLeft(SourceReads, start(L), s)
  BY DEF ReadsIn
<1>3. IsList(s) /\ \A file \in ToSet(s) : IsList(file.reads)
  BY ContractedInLists, ContractedFacts
<1>4. /\ IsCollected(ReadsIn(s, Maximum))
      /\ ~ReadsIn(s, Maximum).cut => AsCollected(ReadsIn(s, Unlimited), ReadsIn(s, Maximum))
  <2> HIDE DEF s, start
  <2> QED BY <1>1, <1>2, <1>3, SourcesInStep
<1> HIDE DEF s
<1> QED
  BY <1>4 DEF IsCollected, AsCollected, s

(* So are the names its templates declare, each template within the limit  *)
(* and all of them together.                                               *)
LEMMA TemplatesAreWhole ==
  ASSUME NEW p \in Contracted,
         \A t \in ToSet(p.environment.templates) :
            ~(Len(Distinct(t)) > Maximum.templateNames),
         ~(Len(Distinct(DeclaredVariables(p.environment.templates, Maximum)))
                > Maximum.templateNames)
  PROVE  DeclaredNames(p.environment.templates, Unlimited)
            = DeclaredNames(p.environment.templates, Maximum)
<1> DEFINE s == p.environment.templates
           cut(n) == [t \in DOMAIN s |-> UpTo(Distinct(s[t]), n)]
           whole == [t \in DOMAIN s |-> Distinct(s[t])]
           M == Maximum
           U == Unlimited
<1>1. IsList(s) /\ \A t \in DOMAIN s : IsList(s[t])
  BY ContractedInLists, ContractedFacts DEF AreLists
<1>2. "templateNames" \in MaximumNames \ {"importDepth"}
  BY DEF MaximumNames
<1>3. \A t \in DOMAIN s : IsList(Distinct(s[t])) /\ ~(Len(Distinct(s[t])) > M.templateNames)
  <2>1. \A t \in DOMAIN s : s[t] \in ToSet(s)
    BY DEF ToSet
  <2> QED BY <1>1, <2>1, DistinctIsList
<1>4. \A t \in DOMAIN s : /\ UpTo(Distinct(s[t]), M.templateNames) = Distinct(s[t])
                          /\ UpTo(Distinct(s[t]), U.templateNames) = Distinct(s[t])
  <2> HIDE DEF s
  <2> QED BY <1>2, <1>3, UncutList
<1>5. cut(M.templateNames) = whole /\ cut(U.templateNames) = whole
  <2> HIDE DEF s
  <2> QED BY <1>4
<1>6. \A L : DeclaredVariables(s, L) = Joined(cut(L.templateNames))
  BY DEF DeclaredVariables
<1>7. IsList(Joined(whole))
  <2>1. whole = [t \in DOMAIN s |-> whole[t]] /\ DOMAIN whole = DOMAIN s
        /\ \A t \in DOMAIN whole : whole[t] = Distinct(s[t])
    OBVIOUS
  <2> HIDE DEF whole, s
  <2> QED BY <1>1, <1>3, <2>1, MapIsList, JoinedIsList
<1>8. DeclaredVariables(s, M) = Joined(whole) /\ DeclaredVariables(s, U) = Joined(whole)
  <2> HIDE DEF cut, whole
  <2> QED BY <1>5, <1>6
<1>9. ~(Len(Distinct(Joined(whole))) > M.templateNames)
  <2> HIDE DEF whole
  <2> QED BY <1>8
<1>10. UpTo(Distinct(Joined(whole)), M.templateNames) = UpTo(Distinct(Joined(whole)), U.templateNames)
  <2> HIDE DEF whole
  <2> QED BY <1>2, <1>7, <1>9, DistinctIsList, UncutList
<1> HIDE DEF whole, s
<1> QED
  BY <1>8, <1>10 DEF DeclaredNames, s

(* The environment: a complete answer compares all reads with all names    *)
(* that are declared.                                                      *)
LEMMA EnvironmentIsWhole ==
  ASSUME NEW p \in Contracted, EnvironmentComparison(p, Maximum).status = "complete",
         ~CutUntold("environment", p)
  PROVE  EnvironmentComparison(p, Unlimited).verdicts
            = EnvironmentComparison(p, Maximum).verdicts
<1> DEFINE environment == p.environment
           M == Maximum
           U == Unlimited
           reads(L) == ReadsIn(environment.sources, L).named
           declared(L) == DeclaredNames(environment.templates, L)
           variables(L) == Least(UsedVariables(reads(L)), L.variables)
           candidates(L) == CandidateVariables(environment, L)
           ofReads(s, n) == Passing(s, LAMBDA r : r.name = n)
           verdicts(s, d, v, c) ==
                ({<<VariableStatus(n, ToSet(s), d, environment), n>> : n \in v}
                    \cup {<<"unused", n>> : n \in d \ UsedVariables(s)})
                    \cup {<<"candidate", n>> : n \in c}
<1>1. \A L : EnvironmentComparison(p, L).verdicts
                = verdicts(reads(L), declared(L), variables(L),
                           Least(candidates(L), L.candidates))
  BY DEF EnvironmentComparison
<1>2. /\ ~ReadsIn(environment.sources, M).cut
      /\ \A t \in ToSet(environment.templates) : ~(Len(Distinct(t)) > M.templateNames)
      /\ ~(Len(Distinct(DeclaredVariables(environment.templates, M))) > M.templateNames)
      /\ ~(Cardinality(UsedVariables(reads(M))) > M.variables)
  <2> DEFINE found == ReadsIn(environment.sources, M)
             cut == \/ found.cut \/ found.dynamic >= M.dynamic
                    \/ \E t \in ToSet(environment.templates) : Len(Distinct(t)) > M.templateNames
                    \/ Len(Distinct(DeclaredVariables(environment.templates, M)))
                            > M.templateNames
                    \/ Cardinality(UsedVariables(found.named)) > M.variables
                    \/ \E n \in variables(M) : Len(ofReads(found.named, n)) > M.locations
  <2>1. EnvironmentComparison(p, M).status =
            IF environment.sources = <<>> /\ environment.templates = <<>> THEN "unsupported"
            ELSE IF cut \/ p.truncated THEN "partial" ELSE "complete"
    BY DEF EnvironmentComparison
  <2>2. ~cut
    <3> HIDE DEF cut
    <3> QED BY <2>1
  <2> HIDE DEF ofReads, variables
  <2> QED BY <2>2
<1>3. reads(U) = reads(M) /\ IsList(reads(M))
  BY <1>2, ReadsAreWhole
<1>4. declared(U) = declared(M)
  BY <1>2, TemplatesAreWhole
<1> DEFINE used == UsedVariables(reads(M))
<1>5. IsFiniteSet(used)
  <2> DEFINE S == ToSet(reads(M))
             name == [r \in S |-> r.name]
  <2>1. IsFiniteSet(S)
    BY <1>3, ListIsFinite
  <2>2. DOMAIN name = S /\ name = [r \in S |-> name[r]]
    OBVIOUS
  <2>3. used = {name[r] : r \in S}
    BY DEF UsedVariables
  <2> HIDE DEF name, S, used
  <2> QED BY <2>1, <2>2, <2>3, ImageIsFinite
<1>6. variables(M) = used /\ variables(U) = used
  <2>1. "variables" \in MaximumNames \ {"importDepth"}
    BY DEF MaximumNames
  <2>2. ~(Cardinality(used) > M.variables)
    BY <1>2
  <2>3. Least(used, M.variables) = used /\ Least(used, U.variables) = used
    <3> HIDE DEF used
    <3> QED BY <1>5, <2>1, <2>2, UncutSet
  <2>4. UsedVariables(reads(U)) = used
    <3> HIDE DEF reads
    <3> QED BY <1>3
  <2> HIDE DEF reads
  <2> QED BY <2>3, <2>4
<1>7. candidates(U) = candidates(M) /\ candidates(M) \subseteq used
  <2> DEFINE of(s, d, v) == {n \in v \cap environment.sensitive :
                /\ VariableStatus(n, ToSet(s), d, environment) = "undocumented"
                /\ \E r \in ToSet(s) : r.name = n /\ RequiredRead(r)}
  <2>1. \A L : candidates(L) = of(reads(L), declared(L), variables(L))
    BY DEF CandidateVariables
  <2>2. \A s, d, v : of(s, d, v) \subseteq v
    OBVIOUS
  <2> HIDE DEF of, reads, declared, variables, candidates, used
  <2> QED BY <1>3, <1>4, <1>6, <2>1, <2>2
<1>8. Least(candidates(M), M.candidates) = Least(candidates(U), U.candidates)
  <2>1. ~(Cardinality(candidates(U)) > M.candidates)
    BY DEF CutUntold
  <2>2. IsFiniteSet(candidates(M))
    <3> HIDE DEF candidates, used
    <3> QED BY <1>5, <1>7, PartIsFinite
  <2>3. "candidates" \in MaximumNames \ {"importDepth"}
    BY DEF MaximumNames
  <2> HIDE DEF candidates
  <2> QED BY <1>7, <2>1, <2>2, <2>3, UncutSet
<1> HIDE DEF verdicts, reads, declared, variables, candidates, used
<1> QED
  BY <1>1, <1>3, <1>4, <1>6, <1>8

WalkNames == {"symbols", "depths", "edges", "truncated", "at", "calls", "limits"}

(* The search of calls.  It is by breadth: the symbols in its queue are in *)
(* the order of their depths.                                              *)
IsWalk(a) ==
    /\ a = [l \in WalkNames |-> a[l]]
    /\ IsList(a.symbols) /\ IsList(a.depths) /\ Len(a.depths) = Len(a.symbols)
    /\ IsList(a.calls) /\ IsFiniteSet(a.edges) /\ a.limits = Maximum
    /\ \A j \in DOMAIN a.depths : a.depths[j] \in Nat
    /\ \A i, j \in DOMAIN a.depths : i <= j => a.depths[i] <= a.depths[j]

Near(a, i) ==
    /\ i \in DOMAIN a.depths
    /\ \A j \in DOMAIN a.depths : a.depths[j] <= a.depths[i] + 1

(* The same search with more room.                                         *)
Alike(q, a) ==
    /\ q = [l \in WalkNames |-> q[l]]
    /\ q.symbols = a.symbols /\ q.depths = a.depths /\ q.calls = a.calls
    /\ q.limits = Unlimited

Alongside(q, a) == Alike(q, a) /\ q.edges = a.edges /\ q.at = a.at

EdgeFold(c, k, a) ==
    /\ IsWalk(a) /\ a.at = c[3] /\ Near(a, c[3])
    /\ ~a.truncated => ~c[2].truncated /\ Alongside(c[1][k], a)

ED == INSTANCE FoldTheorems WITH Op <- AddEdge, Holds <- EdgeFold

(* The queue of the search: what it gets is at its end.                    *)
LEMMA AppendFacts ==
  ASSUME NEW s, IsList(s), NEW x
  PROVE  /\ IsList(Append(s, x)) /\ Len(Append(s, x)) = Len(s) + 1
         /\ DOMAIN Append(s, x) = 1..(Len(s) + 1) /\ Len(s) \in Nat /\ DOMAIN s = 1..Len(s)
         /\ Append(s, x)[Len(s) + 1] = x
         /\ \A i \in 1..Len(s) : Append(s, x)[i] = s[i]
<1>1. IsList(Append(s, x)) /\ Len(Append(s, x)) = Len(s) + 1 /\ Len(s) \in Nat
      /\ DOMAIN s = 1..Len(s)
  BY AppendIsList, ListFacts
<1>2. s \in Seq(ToSet(s) \cup {x})
  BY DEF IsList
<1>3. /\ Append(s, x)[Len(s) + 1] = x
      /\ \A i \in 1..Len(s) : Append(s, x)[i] = s[i]
  BY <1>2
<1> QED
  BY <1>1, <1>3, ListFacts

(* One call that leaves a symbol: the symbol it leads to is put in the     *)
(* queue once, one deeper, unless it is too deep or there are too many.    *)
LEMMA EdgeInStep ==
  ASSUME NEW a, IsWalk(a), NEW i, a.at = i, Near(a, i), NEW call
  PROVE  LET after == AddEdge(a, call)
         IN  /\ IsWalk(after) /\ after.at = i /\ Near(after, i)
             /\ ~after.truncated =>
                    /\ ~a.truncated
                    /\ \A q : Alongside(q, a) => Alongside(AddEdge(q, call), after)
<1> DEFINE M == Maximum
           U == Unlimited
           edges == a.edges \cup {call}
           found == call.target = 0 \/ call.target \in ToSet(a.symbols)
           cut == [a EXCEPT !.truncated = TRUE]
           walked(w) == [w EXCEPT !.edges = edges]
           over(w) == [walked(w) EXCEPT !.truncated = TRUE]
           symbols == Append(a.symbols, call.target)
           depths == Append(a.depths, a.depths[i] + 1)
           grown(w) == [walked(w) EXCEPT !.symbols = symbols, !.depths = depths]
<1>1. /\ M.edges \in Nat /\ U.edges \in Nat /\ M.edges <= U.edges
      /\ M.symbols \in Nat /\ U.symbols \in Nat /\ M.symbols <= U.symbols
  BY MaximumFacts DEF MaximumNames
<1>2. /\ IsList(a.symbols) /\ Len(a.symbols) \in Nat /\ a.limits = M
      /\ Cardinality(a.edges) \in Nat /\ IsFiniteSet(edges)
  BY ListFacts, FS_CardinalityType, FS_AddElement DEF IsWalk
<1>3. /\ a = [l \in WalkNames |-> a[l]]
      /\ IsList(a.depths) /\ Len(a.depths) = Len(a.symbols) /\ IsList(a.calls)
  BY DEF IsWalk
<1>4. CASE Cardinality(a.edges) >= M.edges
  <2>1. AddEdge(a, call) = cut
    BY <1>2, <1>4 DEF AddEdge
  <2>2. /\ cut = [l \in WalkNames |-> cut[l]] /\ cut.truncated = TRUE
        /\ \A l \in WalkNames \ {"truncated"} : cut[l] = a[l]
    BY <1>3 DEF WalkNames
  <2>3. /\ cut.symbols = a.symbols /\ cut.depths = a.depths /\ cut.edges = a.edges
        /\ cut.at = a.at /\ cut.calls = a.calls /\ cut.limits = a.limits
    <3> HIDE DEF cut
    <3> QED BY <2>2 DEF WalkNames
  <2>4. IsWalk(cut) /\ cut.at = i /\ Near(cut, i)
    <3> HIDE DEF cut
    <3>1. IsWalk(cut)
      BY <2>2, <2>3 DEF IsWalk
    <3>2. Near(cut, i)
      BY <2>3 DEF Near
    <3> QED BY <2>3, <3>1, <3>2
  <2> HIDE DEF cut
  <2> QED BY <2>1, <2>2, <2>4
<1>5. CASE ~(Cardinality(a.edges) >= M.edges)
  <2>0. \A q : Alongside(q, a) => ~(Cardinality(q.edges) >= U.edges)
    BY <1>1, <1>2, <1>5 DEF Alongside
  <2> DEFINE t == walked(a)
  <2>1. /\ t = [l \in WalkNames |-> t[l]] /\ t.edges = edges
        /\ t.symbols = a.symbols /\ t.depths = a.depths /\ t.at = a.at
        /\ t.calls = a.calls /\ t.limits = a.limits /\ t.truncated = a.truncated
    <3> HIDE DEF edges
    <3> QED BY <1>3 DEF WalkNames
  <2>2. IsWalk(t) /\ Near(t, i)
    <3> HIDE DEF t, edges
    <3>1. IsWalk(t)
      BY <1>2, <2>1 DEF IsWalk
    <3>2. Near(t, i)
      BY <2>1 DEF Near
    <3> QED BY <3>1, <3>2
  <2>3. ASSUME NEW q, Alongside(q, a)
        PROVE  LET u == walked(q)
               IN  /\ u = [l \in WalkNames |-> u[l]] /\ u.edges = edges
                   /\ u.symbols = a.symbols /\ u.depths = a.depths /\ u.at = a.at
                   /\ u.calls = a.calls /\ u.limits = U
    <3>1. /\ q = [l \in WalkNames |-> q[l]] /\ q.symbols = a.symbols /\ q.depths = a.depths
          /\ q.at = a.at /\ q.calls = a.calls /\ q.limits = U
      BY <2>3 DEF Alongside, Alike
    <3> HIDE DEF edges
    <3> QED BY <3>1 DEF WalkNames
  <2>4. CASE found
    <3>1. AddEdge(a, call) = t
      BY <1>2, <1>5, <2>4 DEF AddEdge
    <3>2. ASSUME NEW q, Alongside(q, a) PROVE AddEdge(q, call) = walked(q)
      <4>1. /\ q.symbols = a.symbols /\ q.limits = U /\ q.edges = a.edges
            /\ ~(Cardinality(q.edges) >= q.limits.edges)
        BY <2>0, <3>2 DEF Alongside, Alike
      <4> QED BY <2>4, <4>1 DEF AddEdge
    <3> HIDE DEF t, walked, edges, found
    <3>3. ASSUME NEW q, Alongside(q, a) PROVE Alongside(AddEdge(q, call), t)
      <4>1. AddEdge(q, call) = walked(q)
        BY <3>2, <3>3
      <4> QED BY <1>2, <2>1, <2>3, <3>3, <4>1 DEF Alongside, Alike
    <3> QED BY <2>1, <2>2, <3>1, <3>3
  <2>5. CASE ~found /\ Len(a.symbols) >= M.symbols
    <3> DEFINE o == over(a)
    <3>1. AddEdge(a, call) = o
      BY <1>2, <1>5, <2>5 DEF AddEdge
    <3>2. /\ o = [l \in WalkNames |-> o[l]] /\ o.truncated = TRUE
          /\ o.symbols = t.symbols /\ o.depths = t.depths /\ o.edges = t.edges
          /\ o.at = t.at /\ o.calls = t.calls /\ o.limits = t.limits
      <4>1. o = [t EXCEPT !.truncated = TRUE]
        OBVIOUS
      <4> HIDE DEF t, o, walked
      <4> QED BY <2>1, <4>1 DEF WalkNames
    <3> HIDE DEF o, t
    <3>3. IsWalk(o)
      BY <2>2, <3>2 DEF IsWalk
    <3>4. Near(o, i)
      BY <2>2, <3>2 DEF Near
    <3> QED BY <2>1, <3>1, <3>2, <3>3, <3>4
  <2>6. CASE ~found /\ ~(Len(a.symbols) >= M.symbols)
    <3> DEFINE g == grown(a)
    <3>1. AddEdge(a, call) = g
      BY <1>2, <1>5, <2>6 DEF AddEdge
    <3>2. ASSUME NEW q, Alongside(q, a) PROVE AddEdge(q, call) = grown(q)
      <4>1. /\ q.symbols = a.symbols /\ q.depths = a.depths /\ q.limits = U /\ q.edges = a.edges
            /\ q.at = i /\ ~(Cardinality(q.edges) >= q.limits.edges)
            /\ ~(Len(q.symbols) >= q.limits.symbols)
        BY <1>1, <1>2, <2>0, <2>6, <3>2 DEF Alongside, Alike
      <4> QED BY <2>6, <4>1 DEF AddEdge
    <3>3. /\ g = [l \in WalkNames |-> g[l]] /\ g.symbols = symbols /\ g.depths = depths
          /\ g.edges = edges /\ g.at = a.at /\ g.calls = a.calls /\ g.limits = M
          /\ g.truncated = a.truncated
      <4>1. g = [t EXCEPT !.symbols = symbols, !.depths = depths]
        OBVIOUS
      <4> HIDE DEF t, g, walked, symbols, depths, edges
      <4> QED BY <1>2, <2>1, <4>1 DEF WalkNames
    <3>4. ASSUME NEW q, Alongside(q, a)
          PROVE  /\ grown(q) = [l \in WalkNames |-> grown(q)[l]]
                 /\ grown(q).symbols = symbols /\ grown(q).depths = depths
                 /\ grown(q).edges = edges /\ grown(q).at = a.at /\ grown(q).calls = a.calls
                 /\ grown(q).limits = U
      <4> DEFINE u == walked(q)
      <4>1. /\ u = [l \in WalkNames |-> u[l]] /\ u.edges = edges /\ u.at = a.at
            /\ u.calls = a.calls /\ u.limits = U
        BY <2>3, <3>4
      <4>2. grown(q) = [u EXCEPT !.symbols = symbols, !.depths = depths]
        OBVIOUS
      <4> HIDE DEF u, grown, walked, symbols, depths, edges
      <4> QED BY <4>1, <4>2 DEF WalkNames
    <3>5. /\ IsList(symbols) /\ IsList(depths) /\ Len(depths) = Len(symbols)
          /\ \A j \in DOMAIN depths : depths[j] \in Nat /\ depths[j] <= a.depths[i] + 1
          /\ \A j, k \in DOMAIN depths : j <= k => depths[j] <= depths[k]
          /\ i \in DOMAIN depths /\ depths[i] = a.depths[i]
      <4> DEFINE d == a.depths
                 n == Len(d)
                 x == d[i] + 1
      <4>1. /\ n \in Nat /\ DOMAIN d = 1..n /\ i \in 1..n /\ x \in Nat
            /\ \A j \in 1..n : d[j] \in Nat /\ d[j] <= x
            /\ \A j, k \in 1..n : j <= k => d[j] <= d[k]
        <5>1. n \in Nat /\ DOMAIN d = 1..n
          BY <1>3, ListFacts
        <5>2. i \in DOMAIN d /\ \A j \in DOMAIN d : d[j] <= d[i] + 1
          BY DEF Near
        <5>3. /\ \A j \in DOMAIN d : d[j] \in Nat
              /\ \A j, k \in DOMAIN d : j <= k => d[j] <= d[k]
          BY DEF IsWalk
        <5> HIDE DEF d, n
        <5> QED BY <5>1, <5>2, <5>3
      <4>2. /\ IsList(depths) /\ Len(depths) = n + 1 /\ DOMAIN depths = 1..(n + 1)
            /\ depths[n + 1] = x /\ \A j \in 1..n : depths[j] = d[j]
        <5> HIDE DEF x
        <5> QED BY <1>3, AppendFacts DEF x
      <4>3. IsList(symbols) /\ Len(symbols) = n + 1
        BY <1>2, <1>3, AppendFacts
      <4> HIDE DEF d, n, x, depths, symbols
      <4>4. \A j \in 1..(n + 1) : j \in 1..n \/ j = n + 1
        BY <4>1
      <4>5. \A j \in DOMAIN depths : depths[j] \in Nat /\ depths[j] <= x
        BY <4>1, <4>2, <4>4
      <4>6. \A j, k \in DOMAIN depths : j <= k => depths[j] <= depths[k]
        <5> SUFFICES ASSUME NEW j \in 1..(n + 1), NEW k \in 1..(n + 1), j <= k
                     PROVE  depths[j] <= depths[k]
          BY <4>2
        <5>1. CASE k = n + 1
          BY <4>2, <4>5, <5>1
        <5>2. CASE k \in 1..n
          <6>1. j \in 1..n
            BY <4>1, <5>2
          <6> QED BY <4>1, <4>2, <5>2, <6>1
        <5> QED BY <4>4, <5>1, <5>2
      <4>7. i \in DOMAIN depths /\ depths[i] = d[i]
        BY <4>1, <4>2
      <4> QED BY <4>2, <4>3, <4>5, <4>6, <4>7 DEF d, x
    <3>6. IsWalk(g)
      <4> HIDE DEF g, symbols, depths, edges
      <4> QED BY <1>2, <1>3, <3>3, <3>5 DEF IsWalk
    <3>7. Near(g, i)
      <4> HIDE DEF g, symbols, depths, edges
      <4> QED BY <3>3, <3>5 DEF Near
    <3>8. ASSUME NEW q, Alongside(q, a) PROVE Alongside(AddEdge(q, call), g)
      <4>1. AddEdge(q, call) = grown(q)
        BY <3>2, <3>8
      <4> HIDE DEF g, grown, symbols, depths, edges
      <4> QED BY <3>3, <3>4, <3>8, <4>1 DEF Alongside, Alike
    <3> HIDE DEF g
    <3> QED BY <3>1, <3>3, <3>6, <3>7, <3>8
  <2> QED BY <2>4, <2>5, <2>6
<1> QED
  BY <1>4, <1>5


(* All calls that leave the symbol, which are taken from one list.         *)
LEMMA EdgesInStep ==
  ASSUME NEW a, IsWalk(a), NEW i, a.at = i, Near(a, i), NEW s, IsList(s)
  PROVE  LET after == FoldLeft(AddEdge, a, s)
         IN  /\ IsWalk(after) /\ after.at = i /\ Near(after, i)
             /\ ~after.truncated => ~a.truncated
             /\ \A q : Alongside(q, a) /\ ~after.truncated =>
                            Alongside(FoldLeft(AddEdge, q, s), after)
<1> DEFINE after == FoldLeft(AddEdge, a, s)
<1>1. Len(s) \in Nat /\ DOMAIN s = 1..Len(s)
  BY ListFacts
<1>2. \A b : ED!FoldLeft(AddEdge, b, s) = FoldLeft(AddEdge, b, s)
  BY DEF ED!FoldLeft, FoldLeft, ED!MapThenFoldSet, MapThenFoldSet, ED!Max, Max
<1>3. ASSUME NEW q, Alongside(q, a)
      PROVE  /\ IsWalk(after) /\ after.at = i /\ Near(after, i)
             /\ ~after.truncated => ~a.truncated /\ Alongside(FoldLeft(AddEdge, q, s), after)
  <2>1. PICK h : /\ h[0] = q
                 /\ \A k \in 1..Len(s) : h[k] = AddEdge(h[k - 1], s[k])
                 /\ h[Len(s)] = ED!FoldLeft(AddEdge, q, s)
    BY <1>1, ED!FoldSteps
  <2> DEFINE c == <<h, a, i>>
  <2>2. EdgeFold(c, 0, a)
    BY <1>3, <2>1 DEF EdgeFold
  <2>3. ASSUME NEW k \in 1..Len(s), NEW b, EdgeFold(c, k - 1, b)
        PROVE  EdgeFold(c, k, AddEdge(b, s[k]))
    <3>1. /\ IsWalk(b) /\ b.at = i /\ Near(b, i)
          /\ ~b.truncated => ~a.truncated /\ Alongside(h[k - 1], b)
      BY <2>3 DEF EdgeFold
    <3>2. h[k] = AddEdge(h[k - 1], s[k])
      BY <2>1
    <3> QED BY <3>1, <3>2, EdgeInStep DEF EdgeFold
  <2>4. EdgeFold(c, Len(s), ED!FoldLeft(AddEdge, a, s))
    <3> HIDE DEF c
    <3> QED BY <1>1, <2>2, <2>3, ED!FoldHolds
  <2>5. EdgeFold(c, Len(s), after) /\ h[Len(s)] = FoldLeft(AddEdge, q, s)
    BY <1>2, <2>1, <2>4
  <2> HIDE DEF after
  <2> QED BY <2>5 DEF EdgeFold
<1>4. Alongside([a EXCEPT !.limits = Unlimited], a)
  BY DEF Alongside, Alike, IsWalk, WalkNames
<1> HIDE DEF after
<1>5. /\ IsWalk(after) /\ after.at = i /\ Near(after, i)
      /\ ~after.truncated => ~a.truncated
  BY <1>3, <1>4
<1> QED
  BY <1>3, <1>5 DEF after

(* Calls that are not resolved lead nowhere.                               *)
EndFold(c, k, a) ==
    /\ a = [l \in WalkNames |-> a[l]]
    /\ a.symbols = c.symbols /\ a.depths = c.depths /\ a.calls = c.calls
    /\ a.limits = c.limits

EF == INSTANCE FoldTheorems WITH Op <- AddEdge, Holds <- EndFold

(* Calls without a target change nothing but the edges, which are not      *)
(* compared.                                                               *)
LEMMA EndsLeadNowhere ==
  ASSUME NEW a, NEW q, Alike(q, a), NEW s, IsList(s), \A call \in ToSet(s) : call.target = 0
  PROVE  Alike(FoldLeft(AddEdge, q, s), a)
<1>1. Len(s) \in Nat /\ DOMAIN s = 1..Len(s)
  BY ListFacts
<1>2. EndFold(q, 0, q)
  BY DEF EndFold, Alike
<1>3. ASSUME NEW k \in 1..Len(s), NEW b, EndFold(q, k - 1, b)
      PROVE  EndFold(q, k, AddEdge(b, s[k]))
  <2>1. s[k].target = 0
    BY <1>1 DEF ToSet
  <2> DEFINE cut == [b EXCEPT !.truncated = TRUE]
             edges == b.edges \cup {s[k]}
             walked == [b EXCEPT !.edges = edges]
  <2>2. AddEdge(b, s[k]) \in {cut, walked}
    BY <2>1 DEF AddEdge
  <2>3. EndFold(q, k, cut)
    BY <1>3 DEF EndFold, WalkNames
  <2>4. EndFold(q, k, walked)
    <3> HIDE DEF edges
    <3> QED BY <1>3 DEF EndFold, WalkNames
  <2> HIDE DEF cut, walked
  <2> QED BY <2>2, <2>3, <2>4
<1>4. EndFold(q, Len(s), EF!FoldLeft(AddEdge, q, s))
  BY <1>1, <1>2, <1>3, EF!FoldHolds
<1>5. EF!FoldLeft(AddEdge, q, s) = FoldLeft(AddEdge, q, s)
  BY DEF EF!FoldLeft, FoldLeft, EF!MapThenFoldSet, MapThenFoldSet, EF!Max, Max
<1> QED
  BY <1>4, <1>5 DEF EndFold, Alike

(* What remains of the queue after its first k symbols is at the depth     *)
(* where the search ends, if the twin went on.                             *)
Visited(a, k) ==
    /\ k = 0 => \A j \in DOMAIN a.depths : a.depths[j] = 0
    /\ k \in DOMAIN a.depths => Near(a, k)

Ended(a, k) == \A j \in DOMAIN a.depths : j > k => a.depths[j] >= Maximum.depth

WalkFold(c, k, a) ==
    /\ IsWalk(a) /\ Visited(a, k)
    /\ ~a.truncated => Alike(c[k], a) /\ (c[k].edges = a.edges \/ Ended(a, k))

WS == INSTANCE FoldTheorems WITH Op <- VisitSymbol, Holds <- WalkFold

(* The calls of one symbol are a list.                                     *)
LEMMA OutgoingIsList ==
  ASSUME NEW calls, IsList(calls), NEW caller
  PROVE  IsList(CallsOf(calls, caller))
<1> DEFINE f == [i \in DOMAIN calls |-> IF calls[i].caller = caller THEN <<calls[i]>> ELSE <<>>]
<1>1. CallsOf(calls, caller) = Joined(f)
  BY DEF CallsOf, Passing
<1>2. /\ DOMAIN f = DOMAIN calls /\ f = [i \in DOMAIN calls |-> f[i]]
      /\ \A i \in DOMAIN calls : f[i] \in {<<>>, <<calls[i]>>}
  OBVIOUS
<1> HIDE DEF f
<1> QED
  BY <1>1, <1>2, PassingIsList

(* The next symbol of the queue: the search and its twin visit the same    *)
(* one, and at the depth where the search ends the twin finds nothing that *)
(* the search has not.                                                     *)
LEMMA SymbolInStep ==
  ASSUME NEW h, NEW k \in Nat, NEW i, i = k + 1, NEW a, WalkFold(h, k, a),
         h[i] = VisitSymbol(h[k], i)
  PROVE  WalkFold(h, i, VisitSymbol(a, i))
<1> DEFINE M == Maximum
           U == Unlimited
           q == h[k]
           n == Len(a.symbols)
           caller(w) == w.symbols[i]
           out(w) == CallsOf(w.calls, w.symbols[i])
           at(w) == [w EXCEPT !.at = i]
           cut(w) == [w EXCEPT !.truncated =
                        w.truncated \/ \E c \in ToSet(out(w)) : c.target # 0]
           followed(w) == FoldLeft(AddEdge, at(w), out(w))
<1>1. \A w : VisitSymbol(w, i) = IF i > Len(w.symbols) THEN w
                                 ELSE IF w.depths[i] >= w.limits.depth THEN cut(w)
                                 ELSE followed(w)
  BY DEF VisitSymbol
<1>2. /\ IsWalk(a) /\ Visited(a, k)
      /\ ~a.truncated => Alike(q, a) /\ (q.edges = a.edges \/ Ended(a, k))
  BY DEF WalkFold
<1>3. /\ a = [l \in WalkNames |-> a[l]] /\ a.limits = M /\ IsList(a.calls)
      /\ n \in Nat /\ DOMAIN a.depths = 1..n
      /\ \A j \in 1..n : a.depths[j] \in Nat
      /\ \A j, l \in 1..n : j <= l => a.depths[j] <= a.depths[l]
  <2>1. IsWalk(a)
    BY <1>2
  <2>2. n \in Nat /\ DOMAIN a.depths = 1..n
    BY <2>1, ListFacts DEF IsWalk
  <2> HIDE DEF n
  <2> QED BY <2>1, <2>2 DEF IsWalk
<1>4. M.depth \in Nat /\ U.depth \in Nat /\ M.depth <= U.depth
  BY MaximumFacts DEF MaximumNames
<1>5. ~a.truncated => /\ q = [l \in WalkNames |-> q[l]] /\ q.symbols = a.symbols
                      /\ q.depths = a.depths /\ q.calls = a.calls /\ q.limits = U
  BY <1>2 DEF Alike
<1>6. ~a.truncated => out(q) = out(a)
  <2> HIDE DEF q
  <2> QED BY <1>5
<1>7. IsList(out(a))
  BY <1>3, OutgoingIsList
<1> HIDE DEF out, q, n
<1>8. CASE i > n
  <2>1. VisitSymbol(a, i) = a
    <3> HIDE DEF cut, followed
    <3> QED BY <1>1, <1>8 DEF n
  <2>2. ~a.truncated => h[i] = q
    <3>1. ~a.truncated => ~(i <= Len(q.symbols)) /\ i > Len(q.symbols)
      BY <1>3, <1>5, <1>8 DEF n
    <3> HIDE DEF cut, followed
    <3> QED BY <1>1, <3>1 DEF q
  <2>3. Visited(a, i)
    BY <1>3, <1>8 DEF Visited
  <2>4. Ended(a, k) => Ended(a, i)
    BY <1>3 DEF Ended
  <2> QED BY <1>2, <2>1, <2>2, <2>3, <2>4 DEF WalkFold
<1>9. CASE i <= n
  <2>1. i \in 1..n /\ ~(i > n) /\ i \in DOMAIN a.depths
    BY <1>3, <1>9
  <2>2. Near(a, i)
    <3>1. ASSUME NEW j \in 1..n PROVE a.depths[j] <= a.depths[i] + 1
      <4>1. CASE k = 0
        <5>1. a.depths[j] = 0 /\ a.depths[i] = 0
          BY <1>2, <1>3, <2>1, <4>1 DEF Visited
        <5> QED BY <5>1
      <4>2. CASE k # 0
        <5>1. k \in 1..n /\ k <= i
          BY <1>3, <2>1, <4>2
        <5>2. a.depths[j] <= a.depths[k] + 1
          BY <1>2, <1>3, <5>1 DEF Visited, Near
        <5>3. a.depths[k] <= a.depths[i]
          BY <1>3, <2>1, <5>1
        <5>4. a.depths[j] \in Nat /\ a.depths[k] \in Nat /\ a.depths[i] \in Nat
          BY <1>3, <2>1, <5>1
        <5> QED BY <5>2, <5>3, <5>4
      <4> QED BY <4>1, <4>2
    <3> QED BY <1>3, <2>1, <3>1 DEF Near
  <2>3. /\ ~a.truncated => h[i] = IF q.depths[i] >= q.limits.depth THEN cut(q) ELSE followed(q)
        /\ VisitSymbol(a, i) = IF a.depths[i] >= a.limits.depth THEN cut(a) ELSE followed(a)
    <3>1. ~a.truncated => ~(i > Len(q.symbols))
      BY <1>5, <2>1 DEF n
    <3> HIDE DEF cut, followed
    <3> QED BY <1>1, <2>1, <3>1 DEF n, q
  <2>4. at(a) = [l \in WalkNames |-> at(a)[l]] /\ IsWalk(at(a)) /\ at(a).at = i /\ Near(at(a), i)
        /\ at(a).truncated = a.truncated
    <3> DEFINE b == at(a)
    <3>1. /\ b = [l \in WalkNames |-> b[l]] /\ b.at = i /\ b.truncated = a.truncated
          /\ b.symbols = a.symbols /\ b.depths = a.depths /\ b.edges = a.edges
          /\ b.calls = a.calls /\ b.limits = a.limits
      BY <1>3 DEF WalkNames
    <3> HIDE DEF b
    <3>2. IsWalk(b)
      BY <1>2, <3>1 DEF IsWalk
    <3>3. Near(b, i)
      BY <2>2, <3>1 DEF Near
    <3> QED BY <3>1, <3>2, <3>3 DEF b
  <2>5. ~a.truncated => /\ Alike(at(q), a) /\ at(q).edges = q.edges /\ at(q).at = i
    BY <1>5 DEF Alike, WalkNames
  <2>6. CASE a.depths[i] >= M.depth
    <3>1. VisitSymbol(a, i) = cut(a)
      <4> HIDE DEF cut, followed
      <4> QED BY <1>3, <2>3, <2>6
    <3> DEFINE t == cut(a)
    <3>2. /\ t = [l \in WalkNames |-> t[l]]
          /\ t.symbols = a.symbols /\ t.depths = a.depths /\ t.edges = a.edges
          /\ t.at = a.at /\ t.calls = a.calls /\ t.limits = a.limits
          /\ t.truncated = (a.truncated \/ \E c \in ToSet(out(a)) : c.target # 0)
      BY <1>3 DEF WalkNames
    <3> HIDE DEF t
    <3>3. IsWalk(t)
      BY <1>2, <3>2 DEF IsWalk
    <3>4. Visited(t, i)
      <4>1. Near(t, i)
        BY <2>2, <3>2 DEF Near
      <4> QED BY <4>1 DEF Visited
    <3>5. Ended(t, i)
      <4>1. ASSUME NEW j \in 1..n, j > i PROVE a.depths[j] >= M.depth
        <5>0. i <= j
          BY <1>3, <4>1
        <5>1. a.depths[i] <= a.depths[j] /\ a.depths[i] \in Nat /\ a.depths[j] \in Nat
          BY <1>3, <2>1, <5>0
        <5> QED BY <1>4, <2>6, <5>1
      <4> QED BY <1>3, <3>2, <4>1 DEF Ended
    <3>6. ASSUME ~t.truncated PROVE Alike(h[i], t)
      <4>1. ~a.truncated /\ \A c \in ToSet(out(q)) : c.target = 0
        BY <1>6, <3>2, <3>6
      <4>2. Alike(cut(q), a)
        BY <1>5, <4>1 DEF Alike, WalkNames
      <4>3. Alike(followed(q), a)
        <5>1. IsList(out(q)) /\ Alike(at(q), a)
          BY <1>6, <1>7, <2>5, <4>1
        <5> HIDE DEF at
        <5> QED BY <4>1, <5>1, EndsLeadNowhere
      <4>4. h[i] \in {cut(q), followed(q)}
        <5> HIDE DEF cut, followed
        <5> QED BY <2>3, <4>1
      <4>5. Alike(h[i], a)
        <5> HIDE DEF cut, followed
        <5> QED BY <4>2, <4>3, <4>4
      <4> QED BY <3>2, <4>5 DEF Alike
    <3>7. VisitSymbol(a, i) = t
      BY <3>1 DEF t
    <3> QED BY <3>3, <3>4, <3>5, <3>6, <3>7 DEF WalkFold
  <2>7. CASE ~(a.depths[i] >= M.depth)
    <3> DEFINE t == followed(a)
    <3>1. VisitSymbol(a, i) = t
      <4> HIDE DEF cut, followed
      <4> QED BY <1>3, <2>3, <2>7
    <3>2. /\ IsWalk(t) /\ Near(t, i) /\ (~t.truncated => ~a.truncated)
          /\ \A b : Alongside(b, at(a)) /\ ~t.truncated =>
                        Alongside(FoldLeft(AddEdge, b, out(a)), t)
      <4> HIDE DEF at
      <4> QED BY <1>7, <2>4, EdgesInStep
    <3>3. ASSUME ~t.truncated PROVE Alike(h[i], t) /\ h[i].edges = t.edges
      <4>1. ~a.truncated
        BY <3>2, <3>3
      <4>2. q.edges = a.edges
        <5>1. i > k /\ ~Ended(a, k)
          BY <2>1, <2>7 DEF Ended
        <5> QED BY <1>2, <4>1, <5>1
      <4>3. at(a).symbols = a.symbols /\ at(a).depths = a.depths /\ at(a).edges = a.edges
            /\ at(a).calls = a.calls
        BY <1>3 DEF WalkNames
      <4>4. Alongside(at(q), at(a))
        <5> HIDE DEF at
        <5> QED BY <2>4, <2>5, <4>1, <4>2, <4>3 DEF Alongside, Alike
      <4>5. h[i] = followed(q)
        <5>1. ~(q.depths[i] >= q.limits.depth)
          <6>1. q.depths[i] = a.depths[i] /\ q.limits.depth = U.depth
            BY <1>5, <4>1
          <6>2. a.depths[i] \in Nat
            BY <1>3, <2>1
          <6> HIDE DEF q
          <6> QED BY <1>4, <2>7, <6>1, <6>2
        <5> HIDE DEF cut, followed
        <5> QED BY <2>3, <4>1, <5>1
      <4>6. followed(q) = FoldLeft(AddEdge, at(q), out(a))
        <5> HIDE DEF at
        <5> QED BY <1>6, <4>1
      <4> HIDE DEF t, followed, at
      <4> QED BY <3>2, <3>3, <4>4, <4>5, <4>6 DEF Alongside
    <3> HIDE DEF t
    <3>4. Visited(t, i)
      BY <3>2 DEF Visited
    <3> QED BY <3>1, <3>2, <3>3, <3>4 DEF WalkFold
  <2> QED BY <2>6, <2>7
<1> QED
  BY <1>3, <1>8, <1>9

(* A search that was not cut finds what it would find with more room.      *)
LEMMA WalkIsWhole ==
  ASSUME NEW starts, IsList(starts), NEW calls, IsList(calls),
         ~TraverseCalls(starts, calls, Maximum).truncated
  PROVE  TraverseCalls(starts, calls, Unlimited).symbols
            = TraverseCalls(starts, calls, Maximum).symbols
<1> DEFINE start(L) == [symbols |-> starts, depths |-> [s \in DOMAIN starts |-> 0], edges |-> {},
                        truncated |-> FALSE, at |-> 0, calls |-> calls, limits |-> L]
           N == Len(starts) + Len(calls)
           s == [i \in 1..N |-> i]
           a == start(Maximum)
           q == start(Unlimited)
<1>1. \A L : TraverseCalls(starts, calls, L) = FoldLeft(VisitSymbol, start(L), s)
  BY DEF TraverseCalls
<1>2. N \in Nat
  BY ListFacts
<1>3. DOMAIN s = 1..N /\ \A k \in 1..N : s[k] = k
  <2> HIDE DEF N
  <2> QED OBVIOUS
<1>4. PICK h : /\ h[0] = q
               /\ \A k \in 1..N : h[k] = VisitSymbol(h[k - 1], s[k])
               /\ h[N] = WS!FoldLeft(VisitSymbol, q, s)
  <2> HIDE DEF N, q, s
  <2> QED BY <1>2, <1>3, WS!FoldSteps
<1>5. WalkFold(h, 0, a)
  <2> DEFINE d == [j \in DOMAIN starts |-> 0]
  <2>1. d = [j \in DOMAIN starts |-> d[j]] /\ DOMAIN d = DOMAIN starts
        /\ \A j \in DOMAIN d : d[j] = 0
    OBVIOUS
  <2>2. IsList(d) /\ Len(d) = Len(starts)
    <3> HIDE DEF d
    <3> QED BY <2>1, MapIsList
  <2>3. IsFiniteSet({})
    BY FS_EmptySet
  <2>4. /\ a = [l \in WalkNames |-> a[l]] /\ a.symbols = starts /\ a.depths = d
        /\ a.edges = {} /\ a.calls = calls /\ a.limits = Maximum
    BY DEF WalkNames
  <2>5. /\ q = [l \in WalkNames |-> q[l]] /\ q.symbols = starts /\ q.depths = d
        /\ q.edges = {} /\ q.calls = calls /\ q.limits = Unlimited
    BY DEF WalkNames
  <2> HIDE DEF a, d, q
  <2>6. IsWalk(a)
    <3>1. /\ \A j \in DOMAIN a.depths : a.depths[j] \in Nat
          /\ \A i, j \in DOMAIN a.depths : i <= j => a.depths[i] <= a.depths[j]
      BY <2>1, <2>4
    <3>2. /\ IsList(a.symbols) /\ IsList(a.depths) /\ Len(a.depths) = Len(a.symbols)
          /\ IsList(a.calls) /\ IsFiniteSet(a.edges)
      BY <2>2, <2>3, <2>4
    <3> QED BY <2>4, <3>1, <3>2 DEF IsWalk
  <2>7. Visited(a, 0)
    <3>1. 0 \notin DOMAIN starts
      BY ListFacts
    <3> QED BY <2>1, <2>4, <3>1 DEF Visited
  <2>8. Alike(q, a) /\ q.edges = a.edges
    BY <2>4, <2>5 DEF Alike
  <2> QED BY <1>4, <2>6, <2>7, <2>8 DEF WalkFold
<1>6. ASSUME NEW k \in 1..N, NEW b, WalkFold(h, k - 1, b)
      PROVE  WalkFold(h, k, VisitSymbol(b, s[k]))
  <2>1. k - 1 \in Nat /\ k = (k - 1) + 1
    <3> HIDE DEF N
    <3> QED BY <1>2
  <2>2. h[k] = VisitSymbol(h[k - 1], k) /\ s[k] = k
    BY <1>3, <1>4
  <2> HIDE DEF N, s
  <2> QED BY <1>6, <2>1, <2>2, SymbolInStep
<1>7. WalkFold(h, N, WS!FoldLeft(VisitSymbol, a, s))
  <2> HIDE DEF N, a, s
  <2> QED BY <1>2, <1>3, <1>5, <1>6, WS!FoldHolds
<1>8. \A b : WS!FoldLeft(VisitSymbol, b, s) = FoldLeft(VisitSymbol, b, s)
  BY DEF WS!FoldLeft, FoldLeft, WS!MapThenFoldSet, MapThenFoldSet, WS!Max, Max
<1>9. WalkFold(h, N, TraverseCalls(starts, calls, Maximum))
      /\ h[N] = TraverseCalls(starts, calls, Unlimited)
  <2>1. TraverseCalls(starts, calls, Maximum) = FoldLeft(VisitSymbol, a, s)
    BY <1>1
  <2>2. TraverseCalls(starts, calls, Unlimited) = FoldLeft(VisitSymbol, q, s)
    BY <1>1
  <2> HIDE DEF N, a, q, s
  <2> QED BY <1>4, <1>7, <1>8, <2>1, <2>2
<1> HIDE DEF N
<1> QED
  BY <1>9 DEF WalkFold, Alike

(* The endpoints that are looked at are the same with the limits and       *)
(* without.                                                                *)
LEMMA SelectedAreWhole ==
  ASSUME NEW p \in Contracted, ~CutUntold("webhooks", p),
         ~(Len(Passing(p.webhooks.entrypoints,
                       LAMBDA e : e.label \in {"webhook", "callback"})) > Maximum.endpoints)
  PROVE  /\ Selected(p.webhooks, Unlimited) = Selected(p.webhooks, Maximum)
         /\ ToSet(Selected(p.webhooks, Maximum)) \subseteq ToSet(p.webhooks.entrypoints)
<1> DEFINE hooks == p.webhooks
           s == hooks.entrypoints
           M == Maximum
           U == Unlimited
           evidence(e, L) == Evidence(hooks.facts, e, TraverseCalls(e.symbols, hooks.calls, L),
                                      "webhook-verification")
           test(e, L) == e.label = "webhook" \/ (e.label = "callback" /\ evidence(e, L) # {})
           f(L) == [i \in DOMAIN s |-> IF test(s[i], L) THEN <<s[i]>> ELSE <<>>]
           g == [i \in DOMAIN s |-> IF s[i].label \in {"webhook", "callback"}
                                    THEN <<s[i]>> ELSE <<>>]
<1>1. \A L : Selected(hooks, L) = UpTo(Joined(f(L)), L.endpoints)
  BY DEF Selected, Passing
<1>2. ~(Len(Joined(g)) > M.endpoints)
  BY DEF Passing
<1>3. IsList(s) /\ IsList(hooks.calls)
  BY ContractedFacts
<1>4. \A i \in DOMAIN s : s[i] \in ToSet(s) /\ IsList(s[i].symbols)
  BY ContractedInLists DEF ToSet
<1>5. ASSUME NEW i \in DOMAIN s, s[i].label = "callback" PROVE evidence(s[i], U) = evidence(s[i], M)
  <2>1. ~TraverseCalls(s[i].symbols, hooks.calls, M).truncated
    BY <1>4, <1>5 DEF CutUntold
  <2>2. TraverseCalls(s[i].symbols, hooks.calls, U).symbols
            = TraverseCalls(s[i].symbols, hooks.calls, M).symbols
    BY <1>3, <1>4, <2>1, WalkIsWhole
  <2> QED BY <2>2 DEF Evidence
<1>6. f(U) = f(M)
  <2>1. \A i \in DOMAIN s : (test(s[i], U) <=> test(s[i], M))
    <3> HIDE DEF evidence, s
    <3> QED BY <1>5
  <2> HIDE DEF test, s
  <2> QED BY <2>1
<1>7. /\ DOMAIN f(M) = DOMAIN s /\ f(M) = [i \in DOMAIN s |-> f(M)[i]]
      /\ \A i \in DOMAIN s : f(M)[i] \in {<<>>, <<s[i]>>}
  <2> HIDE DEF test, s
  <2> QED OBVIOUS
<1>8. /\ DOMAIN g = DOMAIN s /\ g = [i \in DOMAIN s |-> g[i]]
      /\ \A i \in DOMAIN s : g[i] \in {<<>>, <<s[i]>>}
  OBVIOUS
<1>9. \A i \in DOMAIN s : f(M)[i] # <<>> => g[i] = f(M)[i]
  <2>1. \A i \in DOMAIN s : test(s[i], M) => s[i].label \in {"webhook", "callback"}
    OBVIOUS
  <2> HIDE DEF test, s
  <2> QED BY <2>1
<1> HIDE DEF f, g, s
<1>10. IsList(Joined(f(M))) /\ IsList(Joined(g))
  <2>1. IsList(Joined(f(M)))
    BY <1>3, <1>7, PassingIsList
  <2>2. IsList(Joined(g))
    BY <1>3, <1>8, PassingIsList
  <2> QED BY <2>1, <2>2
<1>11. Len(Joined(f(M))) <= Len(Joined(g))
  <2>1. IsList(f(M)) /\ IsList(g)
    BY <1>3, <1>7, <1>8, MapIsList
  <2>2. ASSUME NEW i \in DOMAIN s
        PROVE  IsList(f(M)[i]) /\ IsList(g[i]) /\ Len(f(M)[i]) <= Len(g[i])
    <3>1. IsList(f(M)[i]) /\ IsList(g[i])
      BY <1>7, <1>8, FewIsList
    <3>2. CASE f(M)[i] = <<>>
      <4>1. Len(f(M)[i]) = 0 /\ Len(g[i]) \in Nat
        BY <3>1, <3>2, ListFacts
      <4> QED BY <3>1, <4>1
    <3>3. CASE f(M)[i] # <<>>
      <4>1. g[i] = f(M)[i] /\ Len(g[i]) \in Nat
        BY <1>9, <3>1, <3>3, ListFacts
      <4> QED BY <3>1, <4>1
    <3> QED BY <3>2, <3>3
  <2> QED BY <1>7, <1>8, <2>1, <2>2, ShorterParts
<1>12. "endpoints" \in MaximumNames \ {"importDepth"}
  BY DEF MaximumNames
<1>13. /\ UpTo(Joined(f(M)), M.endpoints) = Joined(f(M))
       /\ UpTo(Joined(f(M)), U.endpoints) = Joined(f(M))
  <2>1. Len(Joined(f(M))) \in Nat /\ Len(Joined(g)) \in Nat /\ M.endpoints \in Nat
    BY <1>10, <1>12, ListFacts, MaximumFacts
  <2>2. Len(Joined(f(M))) <= M.endpoints
    BY <1>2, <1>11, <2>1
  <2> QED BY <1>10, <1>12, <2>2, UncutList
<1>14. Selected(hooks, U) = Selected(hooks, M) /\ Selected(hooks, M) = Joined(f(M))
  BY <1>1, <1>6, <1>13
<1>15. ToSet(Joined(f(M))) \subseteq ToSet(s)
  <2>1. ToSet(Joined(f(M))) \subseteq {s[i] : i \in {j \in DOMAIN s : f(M)[j] # <<>>}}
    BY <1>3, <1>7, PassingElements
  <2> QED BY <1>4, <2>1
<1> QED
  BY <1>14, <1>15 DEF s

(* Webhooks: what a complete answer says of an endpoint is what the search *)
(* of all its calls would say.                                             *)
LEMMA WebhooksAreWhole ==
  ASSUME NEW p \in Contracted, WebhookContract(p, Maximum).status = "complete",
         ~CutUntold("webhooks", p)
  PROVE  WebhookContract(p, Unlimited).verdicts = WebhookContract(p, Maximum).verdicts
<1> DEFINE hooks == p.webhooks
           M == Maximum
           U == Unlimited
           walk(e, L) == TraverseCalls(e.symbols, hooks.calls, L)
           endpoints(L) == ToSet(Selected(hooks, L))
           reachable(L) == UNION {ToSet(walk(e, L).symbols) : e \in endpoints(L)}
           kept(L) == EventReferences(hooks.references, reachable(L), L)
           candidates == Passing(hooks.entrypoints, LAMBDA e : e.label \in {"webhook", "callback"})
           kinds == {"webhook-verification", "idempotency"}
           evidenced(e, L) == {k \in kinds : Evidence(hooks.facts, e, walk(e, L), k) # {}}
           of(e, L) == <<e.id, evidenced(e, L)>>
           verdicts(L) == {of(e, L) : e \in endpoints(L)}
           events(s) == {<<r.event, EventStatus(s, r.event)>> : r \in ToSet(s)}
<1>1. \A L : WebhookContract(p, L).verdicts = verdicts(L) \cup events(kept(L))
  BY DEF WebhookContract
<1>2. /\ ~(Len(candidates) > M.endpoints)
      /\ \A e \in endpoints(M) : ~walk(e, M).truncated
      /\ ~(Len(kept(M)) >= M.events)
  <2> DEFINE cut == \/ Len(candidates) > M.endpoints
                    \/ \E e \in endpoints(M) : walk(e, M).truncated
                    \/ Len(kept(M)) >= M.events
  <2>1. WebhookContract(p, M).status = IF endpoints(M) = {} THEN "unsupported"
                                       ELSE Completeness(p, cut \/ hooks.unparsed)
    BY DEF WebhookContract
  <2>2. ~cut
    <3> HIDE DEF cut, endpoints
    <3> QED BY <2>1 DEF Completeness
  <2> HIDE DEF candidates, endpoints, walk, kept
  <2> QED BY <2>2
<1>3. endpoints(U) = endpoints(M) /\ endpoints(M) \subseteq ToSet(hooks.entrypoints)
  BY <1>2, SelectedAreWhole
<1>4. ASSUME NEW e \in endpoints(M) PROVE walk(e, U).symbols = walk(e, M).symbols
  <2>1. IsList(e.symbols) /\ IsList(hooks.calls)
    <3> HIDE DEF endpoints
    <3> QED BY <1>3, <1>4, ContractedInLists, ContractedFacts
  <2>2. ~walk(e, M).truncated
    <3> HIDE DEF endpoints, walk
    <3> QED BY <1>2, <1>4
  <2> QED BY <2>1, <2>2, WalkIsWhole
<1>5. reachable(U) = reachable(M)
  <2> HIDE DEF endpoints, walk
  <2> QED BY <1>3, <1>4
<1>6. ASSUME NEW e \in endpoints(M) PROVE of(e, U) = of(e, M)
  <2> DEFINE evidence(v, symbols, k) ==
            {f \in hooks.facts : f.kind = k /\ (f.file = v.file \/ f.owner \in ToSet(symbols))}
  <2>1. \A L, k : Evidence(hooks.facts, e, walk(e, L), k) = evidence(e, walk(e, L).symbols, k)
    <3> HIDE DEF walk
    <3> QED BY DEF Evidence
  <2> HIDE DEF walk, endpoints, evidence
  <2>2. \A k : Evidence(hooks.facts, e, walk(e, U), k) = Evidence(hooks.facts, e, walk(e, M), k)
    BY <1>4, <1>6, <2>1
  <2>3. evidenced(e, U) = evidenced(e, M)
    BY <2>2
  <2> HIDE DEF evidenced
  <2> QED BY <2>3
<1>7. verdicts(U) = verdicts(M)
  <2> HIDE DEF endpoints, of
  <2> QED BY <1>3, <1>6
<1>8. kept(U) = kept(M)
  <2> DEFINE s == hooks.references
             R == reachable(M)
             f == [i \in DOMAIN s |-> IF s[i].symbol \in R \/ s[i].dispatched
                                      THEN <<s[i]>> ELSE <<>>]
  <2>1. \A L : EventReferences(s, R, L) = UpTo(Joined(f), L.events)
    BY DEF EventReferences, Passing
  <2>2. kept(M) = UpTo(Joined(f), M.events) /\ kept(U) = UpTo(Joined(f), U.events)
    <3> HIDE DEF f, reachable
    <3> QED BY <1>5, <2>1
  <2>3. IsList(s)
    BY ContractedFacts
  <2>4. /\ DOMAIN f = DOMAIN s /\ f = [i \in DOMAIN s |-> f[i]]
        /\ \A i \in DOMAIN s : f[i] \in {<<>>, <<s[i]>>}
    <3> HIDE DEF R, s
    <3> QED OBVIOUS
  <2> HIDE DEF f, s, kept
  <2>5. IsList(Joined(f))
    BY <2>3, <2>4, PassingIsList
  <2>6. "events" \in MaximumNames \ {"importDepth"}
    BY DEF MaximumNames
  <2> QED BY <1>2, <2>2, <2>5, <2>6, UncutList
<1> HIDE DEF verdicts, events, kept
<1> QED
  BY <1>1, <1>7, <1>8

-----------------------------------------------------------------------------
(* The invariant: all answers are those of the project of the audit.       *)
ContractsInvariant ==
    /\ contracted \in Contracted
    /\ answers = <<>> \/ answers = [a \in Analyses |-> Analysis(a, contracted, Maximum)]

(* Every analysis that is complete is one of the above.                    *)
LEMMA InvariantMakesVerdicts == ContractsInvariant => VerdictsAreWhole
<1> SUFFICES ASSUME ContractsInvariant, NEW a \in DOMAIN answers, answers[a].status = "complete",
                    ~CutUntold(a, contracted)
             PROVE  answers[a].verdicts = Analysis(a, contracted, Unlimited).verdicts
  BY DEF VerdictsAreWhole
<1>1. contracted \in Contracted
  BY DEF ContractsInvariant
<1>2. a \in Analyses /\ answers[a] = Analysis(a, contracted, Maximum)
  <2>1. CASE answers = <<>>
    BY <2>1
  <2>2. CASE answers = [b \in Analyses |-> Analysis(b, contracted, Maximum)]
    BY <2>2
  <2> QED BY <2>1, <2>2 DEF ContractsInvariant
<1> DEFINE p == contracted
<1>3. Analysis(a, p, Maximum).status = "complete"
  BY <1>2
<1>4. SUFFICES Analysis(a, p, Unlimited).verdicts = Analysis(a, p, Maximum).verdicts
  BY <1>2
<1>5. CASE a = "environment"
  <2>1. \A L : Analysis(a, p, L) = EnvironmentComparison(p, L)
    BY <1>5 DEF Analysis
  <2> QED BY <1>1, <1>3, <1>5, <2>1, EnvironmentIsWhole
<1>6. CASE a = "api"
  <2>1. \A L : Analysis(a, p, L) = ApiContract(p, L)
    BY <1>6 DEF Analysis
  <2> QED BY <1>1, <1>3, <2>1, ApiIsWhole
<1>7. CASE a = "database"
  <2>1. \A L : Analysis(a, p, L) = DatabaseContract(p, L)
    BY <1>7 DEF Analysis
  <2> QED BY <1>1, <1>3, <2>1, DatabaseIsWhole
<1>8. CASE a = "webhooks"
  <2>1. \A L : Analysis(a, p, L) = WebhookContract(p, L)
    BY <1>8 DEF Analysis
  <2> QED BY <1>1, <1>3, <1>8, <2>1, WebhooksAreWhole
<1>9. CASE a = "flags"
  <2>1. \A L : Analysis(a, p, L) = FeatureFlags(p, L)
    BY <1>9 DEF Analysis
  <2> QED BY <1>1, <1>3, <1>9, <2>1, FlagsAreWhole
<1>10. CASE a = "tests"
  <2>1. \A L : Analysis(a, p, L) = TestEvidence(p, L)
    BY <1>10 DEF Analysis
  <2> QED BY <1>1, <1>3, <2>1, TestsAreWhole
<1>11. CASE a = "architecture"
  <2>1. \A L : Analysis(a, p, L) = Architecture(p, L)
    BY <1>11 DEF Analysis
  <2> QED BY <1>1, <1>3, <2>1, ArchitectureIsWhole
<1>12. CASE a = "duplication"
  <2>1. \A L : Analysis(a, p, L) = Duplication(p, L)
    BY <1>12 DEF Analysis
  <2> QED BY <1>1, <1>3, <2>1, DuplicationIsWhole
<1>13. CASE a = "measures"
  <2>1. \A L : Analysis(a, p, L) = Measures(p, L)
    BY <1>13 DEF Analysis
  <2> QED BY <1>1, <1>3, <1>13, <2>1, MeasuresAreWhole
<1>14. CASE a = "dead code"
  <2>1. \A L : Analysis(a, p, L) = DeadCode(p, L)
    BY <1>14 DEF Analysis
  <2> QED BY <1>1, <1>3, <1>14, <2>1, DeadCodeIsWhole
<1> QED
  BY <1>2, <1>5, <1>6, <1>7, <1>8, <1>9, <1>10, <1>11, <1>12, <1>13, <1>14 DEF Analyses

(* An answer that is complete says of each thing what it would say with    *)
(* limits that leave any room beyond their own: of the ten analyses, none  *)
(* has a limit that drops what its comparison needs and leaves the answer  *)
(* complete, but for those that CutUntold names.                           *)
THEOREM VerdictsHold == ContractsSpec => []VerdictsAreWhole
<1>1. ContractsInit => ContractsInvariant
  BY DEF ContractsInit, ContractsInvariant
<1>2. ContractsInvariant /\ [ContractsNext]_contractVars => ContractsInvariant'
  BY DEF ContractsInvariant, ContractsNext, AnalysesReturn, SaveContracts, contractVars
<1>3. ContractsInvariant => VerdictsAreWhole
  BY InvariantMakesVerdicts
<1> QED
  BY <1>1, <1>2, <1>3, PTL DEF ContractsSpec
===============================================================================
