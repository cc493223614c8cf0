-------------------------- MODULE AuditCommandProofs --------------------------
(***************************************************************************)
(* Theorems about AuditCommand, for any number of commands that run at the *)
(* same time, any projects and any limits of a snapshot.  CommandInv says  *)
(* what is true of every report there is, and that whatever it owes to a   *)
(* ledger was recorded; the rest is about the folds of a snapshot.  The    *)
(* last part is about Remediation, which finalizes what was corrected.     *)
(***************************************************************************)
EXTENDS AuditCommand, Remediation, FiniteSetTheorems, TLAPS

(* After k entries: the walk was cut, or has every readable one of them.   *)
WalkHolds(tree, k, c) ==
    /\ DOMAIN c = DOMAIN NothingCaptured
    /\ c.files \in Seq(ElementsOf(tree.entries))
    /\ c.stopped => c.truncated
    /\ \/ c.truncated \/ c.failed
       \/ \A j \in 1..k : Readable(tree.entries[j]) => tree.entries[j] \in ElementsOf(c.files)

Walk == INSTANCE FoldTheorems WITH Op <- CaptureEntry, Holds <- WalkHolds

(* The artifacts add to what was walked, and hide no cut.                  *)
Extends(c, d) ==
    /\ DOMAIN c = DOMAIN d
    /\ c.failed => d.failed
    /\ c.truncated => d.truncated
    /\ ElementsOf(c.files) \subseteq ElementsOf(d.files)

ArtifactsHold(walked, k, c) ==
    /\ DOMAIN c = DOMAIN NothingCaptured
    /\ \E S : c.files \in Seq(S)
    /\ Extends(walked, c)

Artifacts == INSTANCE FoldTheorems WITH Op <- CaptureArtifact, Holds <- ArtifactsHold

LEMMA ElementsOfAppend ==
  ASSUME NEW S, NEW s \in Seq(S), NEW e
  PROVE  ElementsOf(Append(s, e)) = ElementsOf(s) \cup {e}
<1>1. Len(s) \in Nat /\ DOMAIN s = 1..Len(s)
  OBVIOUS
<1>2. s \in Seq(S \cup {e}) /\ e \in S \cup {e}
  OBVIOUS
<1>3. /\ DOMAIN Append(s, e) = 1..(Len(s) + 1)
      /\ Append(s, e)[Len(s) + 1] = e
      /\ \A i \in 1..Len(s) : Append(s, e)[i] = s[i]
  BY <1>2
<1>4. 1..(Len(s) + 1) = (1..Len(s)) \cup {Len(s) + 1}
  BY <1>1
<1> QED BY <1>1, <1>3, <1>4 DEF ElementsOf

(* A file that is not captured leaves a mark, unless it is binary.         *)
LEMMA CapturedOrCut ==
  ASSUME NEW S, NEW c, c.files \in Seq(S), DOMAIN c = DOMAIN NothingCaptured,
         NEW e, NEW d, d = CaptureFile(c, e)
  PROVE  /\ DOMAIN d = DOMAIN NothingCaptured
         /\ d.stopped = c.stopped /\ d.failed = c.failed
         /\ c.truncated => d.truncated
         /\ d.files = c.files \/ d.files = Append(c.files, e)
         /\ e.kind # "binary" => d.truncated \/ e \in ElementsOf(d.files)
<1>1. CASE d = Truncated(c)
  BY <1>1 DEF Truncated, NothingCaptured
<1>2. CASE e.kind = "binary" /\ d = c
  BY <1>2
<1>3. CASE d = Captured(c, e)
  <2>1. /\ DOMAIN d = DOMAIN NothingCaptured
        /\ d.stopped = c.stopped /\ d.failed = c.failed /\ d.truncated = c.truncated
        /\ d.files = Append(c.files, e)
    BY <1>3 DEF Captured, NothingCaptured
  <2>2. e \in ElementsOf(Append(c.files, e))
    BY ElementsOfAppend
  <2> QED BY <2>1, <2>2
<1> QED BY <1>1, <1>2, <1>3 DEF CaptureFile

LEMMA WalkStep ==
  ASSUME NEW tree, tree.entries \in Seq(ElementsOf(tree.entries)),
         NEW k \in 1..Len(tree.entries), NEW c, WalkHolds(tree, k - 1, c)
  PROVE  WalkHolds(tree, k, CaptureEntry(c, tree.entries[k]))
<1> DEFINE e == tree.entries[k]
           d == CaptureEntry(c, e)
           Has(x, n) == \A j \in 1..n : Readable(tree.entries[j]) =>
                            tree.entries[j] \in ElementsOf(x.files)
           S == ElementsOf(tree.entries)
<1>1. k \in Nat /\ 1..k = (1..(k - 1)) \cup {k} /\ e \in S
  <2>1. Len(tree.entries) \in Nat /\ DOMAIN tree.entries = 1..Len(tree.entries)
    OBVIOUS
  <2> QED BY <2>1 DEF ElementsOf
<1>2. /\ DOMAIN c = DOMAIN NothingCaptured
      /\ c.files \in Seq(S)
      /\ c.stopped => c.truncated
      /\ c.truncated \/ c.failed \/ Has(c, k - 1)
  BY DEF WalkHolds
<1> SUFFICES /\ DOMAIN d = DOMAIN NothingCaptured
             /\ d.files \in Seq(S)
             /\ d.stopped => d.truncated
             /\ d.truncated \/ d.failed \/ Has(d, k)
  BY DEF WalkHolds
<1>3. CASE c.stopped \/ c.failed
  <2>1. d = c
    BY <1>3 DEF CaptureEntry
  <2> QED BY <2>1, <1>2, <1>3
<1>4. CASE ~(c.stopped \/ c.failed) /\ (c.visited = Limits.entries \/ Exhausted(c))
  <2>1. d = [Truncated(c) EXCEPT !.stopped = TRUE]
    BY <1>4 DEF CaptureEntry
  <2>2. DOMAIN d = DOMAIN NothingCaptured /\ d.files = c.files /\ d.truncated
    BY <2>1, <1>2 DEF Truncated, NothingCaptured
  <2> QED BY <2>2, <1>2
<1>5. CASE ~(c.stopped \/ c.failed) /\ ~(c.visited = Limits.entries \/ Exhausted(c))
  <2> DEFINE v == [c EXCEPT !.visited = @ + 1]
  <2>1. /\ DOMAIN v = DOMAIN NothingCaptured /\ v.files = c.files
        /\ v.stopped = c.stopped /\ v.failed = c.failed /\ v.truncated = c.truncated
    BY <1>2 DEF NothingCaptured
  <2>2. d = CASE e.kind = "deep"      -> Truncated(v)
              [] e.kind = "closed"    -> [v EXCEPT !.failed = TRUE]
              [] e.kind \in Supported -> CaptureFile(v, e)
              [] OTHER                -> v
    BY <1>5 DEF CaptureEntry
  <2> HIDE DEF d, v
  <2>3. CASE e.kind = "deep"
    <3>1. d = Truncated(v)
      BY <2>2, <2>3 DEF Supported, Text, Awkward
    <3>2. DOMAIN d = DOMAIN NothingCaptured /\ d.files = c.files /\ d.truncated
      BY <3>1, <2>1 DEF Truncated, NothingCaptured
    <3> QED BY <3>2, <1>2
  <2>4. CASE e.kind = "closed"
    <3>1. d = [v EXCEPT !.failed = TRUE]
      BY <2>2, <2>4 DEF Supported, Text, Awkward
    <3>2. /\ DOMAIN d = DOMAIN NothingCaptured /\ d.files = c.files /\ d.failed
          /\ d.stopped = c.stopped /\ d.truncated = c.truncated
      BY <3>1, <2>1 DEF NothingCaptured
    <3> QED BY <3>2, <1>2
  <2>5. CASE e.kind \in Supported
    <3>1. d = CaptureFile(v, e)
      BY <2>2, <2>5 DEF Supported, Text, Awkward
    <3>0. e = tree.entries[k]
      OBVIOUS
    <3> HIDE DEF S, e
    <3>2. /\ DOMAIN d = DOMAIN NothingCaptured
          /\ d.stopped = c.stopped /\ d.failed = c.failed
          /\ c.truncated => d.truncated
          /\ d.files = c.files \/ d.files = Append(c.files, e)
          /\ e.kind # "binary" => d.truncated \/ e \in ElementsOf(d.files)
      <4>1. v.files \in Seq(S)
        BY <2>1, <1>2
      <4>2. /\ DOMAIN d = DOMAIN NothingCaptured
            /\ d.stopped = v.stopped /\ d.failed = v.failed
            /\ v.truncated => d.truncated
            /\ d.files = v.files \/ d.files = Append(v.files, e)
            /\ e.kind # "binary" => d.truncated \/ e \in ElementsOf(d.files)
        BY <3>1, <4>1, <2>1, CapturedOrCut
      <4> QED BY <4>2, <2>1
    <3>3. d.files \in Seq(S)
      <4>1. Append(c.files, e) \in Seq(S)
        BY <1>1, <1>2
      <4> QED BY <3>2, <4>1, <1>2
    <3>4. ElementsOf(c.files) \subseteq ElementsOf(d.files)
      <4>1. ElementsOf(Append(c.files, e)) = ElementsOf(c.files) \cup {e}
        BY <1>2, ElementsOfAppend
      <4> QED BY <3>2, <4>1
    <3>5. Readable(e) => d.truncated \/ e \in ElementsOf(d.files)
      BY <3>2 DEF Readable
    <3>6. d.truncated \/ d.failed \/ Has(d, k)
      <4>1. CASE c.truncated \/ c.failed
        BY <4>1, <3>2
      <4>2. CASE Has(c, k - 1)
        BY <4>2, <3>0, <3>4, <3>5, <1>1
      <4> QED BY <4>1, <4>2, <1>2
    <3> QED BY <3>2, <3>3, <3>6, <1>2
  <2>6. CASE e.kind \notin Supported /\ e.kind # "deep" /\ e.kind # "closed"
    <3>1. d = v
      BY <2>2, <2>6
    <3>2. ~Readable(e)
      BY <2>6 DEF Readable
    <3>3. d.truncated \/ d.failed \/ Has(d, k)
      BY <3>1, <3>2, <2>1, <1>1, <1>2
    <3> QED BY <3>1, <3>3, <2>1, <1>2
  <2> QED BY <2>3, <2>4, <2>5, <2>6
<1> QED BY <1>3, <1>4, <1>5

LEMMA ArtifactsStep ==
  ASSUME NEW walked, NEW k, NEW j, NEW c, NEW a, ArtifactsHold(walked, j, c)
  PROVE  ArtifactsHold(walked, k, CaptureArtifact(c, a))
<1> DEFINE d == CaptureArtifact(c, a)
<1> SUFFICES ArtifactsHold(walked, k, d)
  OBVIOUS
<1>1. DOMAIN c = DOMAIN NothingCaptured /\ Extends(walked, c)
  BY DEF ArtifactsHold
<1>2. PICK S : c.files \in Seq(S)
  BY DEF ArtifactsHold
<1>3. CASE d = c
  BY <1>3 DEF ArtifactsHold
<1>4. CASE d = Truncated(c)
  <2>1. /\ DOMAIN d = DOMAIN NothingCaptured
        /\ d.files = c.files /\ d.failed = c.failed /\ d.truncated
    BY <1>4, <1>1 DEF Truncated, NothingCaptured
  <2> QED BY <2>1, <1>1, <1>2 DEF ArtifactsHold, Extends
<1>5. CASE d = Captured(c, a)
  <2>1. /\ DOMAIN d = DOMAIN NothingCaptured /\ d.files = Append(c.files, a)
        /\ d.failed = c.failed /\ d.truncated = c.truncated
    BY <1>5, <1>1 DEF Captured, NothingCaptured
  <2>2. ElementsOf(d.files) = ElementsOf(c.files) \cup {a}
    BY <2>1, <1>2, ElementsOfAppend
  <2>3. d.files \in Seq(S \cup {a})
    <3>1. c.files \in Seq(S \cup {a}) /\ a \in S \cup {a}
      BY <1>2
    <3> QED BY <3>1, <2>1
  <2> HIDE DEF d
  <2> QED BY <2>1, <2>2, <2>3, <1>1 DEF ArtifactsHold, Extends
<1>6. d = c \/ d = Truncated(c) \/ d = Captured(c, a)
  BY DEF CaptureArtifact
<1> HIDE DEF d
<1> QED BY <1>3, <1>4, <1>5, <1>6

(* A snapshot that is neither refused nor marked as truncated holds every  *)
(* file of the tree that can be read (captureSnapshot).                    *)
THEOREM SnapshotsAreWhole ==
  ASSUME NEW v, v.tree.entries \in Seq(ElementsOf(v.tree.entries)),
         v.tree.artifacts \in Seq(ElementsOf(v.tree.artifacts)),
         ~Capture(v.tree).truncated, ~Capture(v.tree).failed
  PROVE  LeftOut(v) = {}
<1> DEFINE tree == v.tree
           n == Len(tree.entries)
           m == Len(tree.artifacts)
           w == FoldLeft(CaptureEntry, NothingCaptured, tree.entries)
           c == FoldLeft(CaptureArtifact, w, tree.artifacts)
<1>1. /\ n \in Nat /\ DOMAIN tree.entries = 1..n
      /\ m \in Nat /\ DOMAIN tree.artifacts = 1..m
  OBVIOUS
<1>2. WalkHolds(tree, n, w)
  <2>1. WalkHolds(tree, 0, NothingCaptured)
    BY DEF WalkHolds, NothingCaptured
  <2>2. \A k \in 1..n : \A x : WalkHolds(tree, k - 1, x)
                            => WalkHolds(tree, k, CaptureEntry(x, tree.entries[k]))
    BY WalkStep
  <2>3. WalkHolds(tree, n, Walk!FoldLeft(CaptureEntry, NothingCaptured, tree.entries))
    BY <1>1, <2>1, <2>2, Walk!FoldHolds
  <2>4. Walk!FoldLeft(CaptureEntry, NothingCaptured, tree.entries) = w
    BY DEF Walk!FoldLeft, FoldLeft, Walk!MapThenFoldSet, MapThenFoldSet, Walk!Max, Max
  <2> QED BY <2>3, <2>4
<1> HIDE DEF w
<1>3. ArtifactsHold(w, m, c)
  <2>1. ArtifactsHold(w, 0, w)
    BY <1>2 DEF ArtifactsHold, Extends, WalkHolds
  <2>2. \A k \in 1..m : \A x : ArtifactsHold(w, k - 1, x)
                            => ArtifactsHold(w, k, CaptureArtifact(x, tree.artifacts[k]))
    BY ArtifactsStep
  <2>3. ArtifactsHold(w, m, Artifacts!FoldLeft(CaptureArtifact, w, tree.artifacts))
    BY <1>1, <2>1, <2>2, Artifacts!FoldHolds
  <2>4. Artifacts!FoldLeft(CaptureArtifact, w, tree.artifacts) = c
    BY DEF Artifacts!FoldLeft, FoldLeft, Artifacts!MapThenFoldSet, MapThenFoldSet,
           Artifacts!Max, Max
  <2> QED BY <2>3, <2>4
<1> HIDE DEF c
<1>4. Capture(tree) = c
  BY DEF Capture, c, w
<1>5. ~w.truncated /\ ~w.failed /\ ElementsOf(w.files) \subseteq ElementsOf(c.files)
  BY <1>3, <1>4 DEF ArtifactsHold, Extends
<1>6. ASSUME NEW e \in ElementsOf(tree.entries), Readable(e) PROVE e \in ElementsOf(c.files)
  <2>1. PICK j \in 1..n : e = tree.entries[j]
    BY <1>1 DEF ElementsOf
  <2>2. e \in ElementsOf(w.files)
    BY <2>1, <1>2, <1>5, <1>6 DEF WalkHolds
  <2> QED BY <2>2, <1>5
<1> QED BY <1>4, <1>6 DEF LeftOut

-----------------------------------------------------------------------------
(* What the analysers find in a version.                                   *)
Fields == {"fingerprint", "rule", "evidence", "disposition", "suppression"}

Undecided(f) == f.disposition = "needs_review" /\ f.suppression = {}

(* Of the first k candidates those that are found are listed, undecided.   *)
FoundHolds(candidates, k, list) ==
    /\ list \in Seq(ElementsOf(list))
    /\ \A f \in ElementsOf(list) : Fields \subseteq DOMAIN f /\ Undecided(f)
    /\ {f.fingerprint : f \in ElementsOf(list)}
        = {candidates[j].finding.fingerprint : j \in {i \in 1..k : candidates[i].found}}

Finding == INSTANCE FoldTheorems WITH Op <- AddFound, Holds <- FoundHolds

LEMMA FoundStep ==
  ASSUME NEW candidates, NEW k \in Nat \ {0}, NEW list, FoundHolds(candidates, k - 1, list),
         Fields \subseteq DOMAIN candidates[k].finding
  PROVE  FoundHolds(candidates, k, AddFound(list, candidates[k]))
<1> DEFINE c == candidates[k]
           Prints(n) == {candidates[j].finding.fingerprint : j \in {i \in 1..n : candidates[i].found}}
           PrintsOf(l) == {f.fingerprint : f \in ElementsOf(l)}
<1>1. 1..k = (1..(k - 1)) \cup {k}
  OBVIOUS
<1>2. CASE ~c.found
  <2>1. AddFound(list, c) = list
    BY <1>2 DEF AddFound
  <2>2. Prints(k) = Prints(k - 1)
    BY <1>1, <1>2
  <2> QED BY <2>1, <2>2 DEF FoundHolds
<1>3. CASE c.found
  <2> DEFINE e == Fresh(c.finding)
             longer == Append(list, e)
  <2>1. AddFound(list, c) = longer
    BY <1>3 DEF AddFound
  <2>2. /\ Fields \subseteq DOMAIN e /\ Undecided(e)
        /\ e.fingerprint = c.finding.fingerprint
    BY DEF Fresh, Fields, Undecided
  <2>3. /\ list \in Seq(ElementsOf(list))
        /\ \A f \in ElementsOf(list) : Fields \subseteq DOMAIN f /\ Undecided(f)
        /\ PrintsOf(list) = Prints(k - 1)
    BY DEF FoundHolds
  <2> HIDE DEF e
  <2>4. ElementsOf(longer) = ElementsOf(list) \cup {e}
    BY <2>3, ElementsOfAppend
  <2>5. longer \in Seq(ElementsOf(longer))
    <3>1. list \in Seq(ElementsOf(list) \cup {e}) /\ e \in ElementsOf(list) \cup {e}
      BY <2>3
    <3>2. longer \in Seq(ElementsOf(list) \cup {e})
      BY <3>1
    <3> HIDE DEF longer
    <3> QED BY <3>2, <2>4
  <2> HIDE DEF longer
  <2>6. PrintsOf(longer) = PrintsOf(list) \cup {c.finding.fingerprint}
    BY <2>2, <2>4
  <2>7. Prints(k) = Prints(k - 1) \cup {c.finding.fingerprint}
    BY <1>1, <1>3
  <2>8. PrintsOf(longer) = Prints(k)
    BY <2>3, <2>6, <2>7
  <2> QED BY <2>1, <2>2, <2>3, <2>4, <2>5, <2>8 DEF FoundHolds
<1> QED BY <1>2, <1>3

LEMMA FoundOf ==
  ASSUME NEW v, v.candidates \in Seq(ElementsOf(v.candidates)),
         \A f \in ElementsOf(v.candidates) : Fields \subseteq DOMAIN f,
         NEW I \in SUBSET (DOMAIN v.candidates)
  PROVE  /\ \A f \in ElementsOf(Found(v, I)) : Fields \subseteq DOMAIN f /\ Undecided(f)
         /\ {f.fingerprint : f \in ElementsOf(Found(v, I))}
              = {v.candidates[i].fingerprint : i \in I}
<1> DEFINE n == Len(v.candidates)
           s == [i \in DOMAIN v.candidates |-> [found |-> i \in I, finding |-> v.candidates[i]]]
<1>1. n \in Nat /\ DOMAIN v.candidates = 1..n
  OBVIOUS
<1>2. FoundHolds(s, 0, <<>>)
  <2>1. ElementsOf(<<>>) = {}
    BY DEF ElementsOf
  <2> QED BY <2>1 DEF FoundHolds
<1>3. \A k \in 1..n : /\ s[k].finding = v.candidates[k] /\ (s[k].found <=> k \in I)
                      /\ Fields \subseteq DOMAIN s[k].finding
  BY <1>1 DEF ElementsOf
<1>4. \A k \in 1..n : \A x : FoundHolds(s, k - 1, x) => FoundHolds(s, k, AddFound(x, s[k]))
  <2> HIDE DEF s
  <2> QED BY <1>1, <1>3, FoundStep
<1>5. DOMAIN s = 1..n
  BY <1>1
<1> HIDE DEF s
<1>6. FoundHolds(s, n, FoldLeft(AddFound, <<>>, s))
  <2>1. FoundHolds(s, n, Finding!FoldLeft(AddFound, <<>>, s))
    BY <1>1, <1>2, <1>4, <1>5, Finding!FoldHolds
  <2>2. Finding!FoldLeft(AddFound, <<>>, s) = FoldLeft(AddFound, <<>>, s)
    BY DEF Finding!FoldLeft, FoldLeft, Finding!MapThenFoldSet, MapThenFoldSet,
           Finding!Max, Max
  <2> QED BY <2>1, <2>2
<1>7. Found(v, I) = FoldLeft(AddFound, <<>>, s)
  BY DEF Found, s
<1>8. {s[j].finding.fingerprint : j \in {i \in 1..n : s[i].found}}
        = {v.candidates[i].fingerprint : i \in I}
  BY <1>1, <1>3
<1> QED BY <1>6, <1>7, <1>8 DEF FoundHolds

-----------------------------------------------------------------------------
Reports == saved \cup UNION {report[p] : p \in Procs}

ReportFields == {"audit", "created", "project", "version", "approved", "truncated",
                 "coverage", "findings"}

(* What a decision or an exception of a report rests on.                   *)
Owed(r, f) ==
    /\ Fields \subseteq DOMAIN f
    /\ Resolved(f) => Decided(r, f)
    /\ f.suppression # {} => Excepted(r, f)

Fingerprinted(F) == {f.fingerprint : f \in ElementsOf(F)}

(* What is true of a report from its audit on.                             *)
Sound(r) ==
    /\ DOMAIN r = ReportFields
    /\ r.version \in versions
    /\ ~Capture(r.version.tree).failed
    /\ r.truncated = Capture(r.version.tree).truncated
    /\ r.coverage = {"COMPLETE"} => \/ r.truncated
                                    \/ Fingerprinted(r.version.candidates)
                                            = Fingerprinted(r.findings)
    /\ \A f \in ElementsOf(r.findings) : Owed(r, f)

(* The entries of a ledger, by the command that made them.                 *)
Made(L, field) == \A l \in L : \A e \in l.entries : field \in DOMAIN e

CommandInv ==
    /\ versions \in Histories
    /\ pc \in [Procs -> Stages]
    /\ DOMAIN report = Procs /\ DOMAIN draft = Procs
    /\ \A r \in Reports : Sound(r)
    /\ Noted(reviews) \cup Noted(suppressions) \subseteq recorded
    /\ Made(reviews, "decision") /\ Made(suppressions, "until")
    /\ \A p \in Procs : /\ pc[p] = "saveReview" => Made(draft[p], "decision")
                        /\ pc[p] \in {"saveSuppression", "flushing"} => Made(draft[p], "until")

LEMMA CommandInit == Init => CommandInv
BY DEF Init, CommandInv, Reports, Stages, Noted, Made

-----------------------------------------------------------------------------
(* What a step that makes no report and no ledger of its own keeps.        *)
LEMMA SoundStays ==
  ASSUME versions' = versions, recorded \subseteq recorded', NEW r, Sound(r)
  PROVE  Sound(r)'
<1>1. ASSUME NEW f, Owed(r, f) PROVE Owed(r, f)'
  BY <1>1 DEF Owed, Decided, Excepted
<1> QED BY <1>1 DEF Sound

(* An audit knows of no decision yet, and if no analyser was cut short, it *)
(* has found whatever there was to find in the whole of its project.       *)
LEMMA NewReportIsSound ==
  ASSUME CommandInv, NEW v \in versions, ~Capture(v.tree).failed,
         NEW approved, NEW status, NEW I \in MayFind(v, status)
  PROVE  Sound(NewReport(v, approved, status, I))
<1> DEFINE r == NewReport(v, approved, status, I)
<1>1. /\ v.tree.entries \in Seq(ElementsOf(v.tree.entries))
      /\ v.tree.artifacts \in Seq(ElementsOf(v.tree.artifacts))
      /\ v.candidates \in Seq(ElementsOf(v.candidates))
      /\ \A f \in ElementsOf(v.candidates) :
            /\ Fields \subseteq DOMAIN f
            /\ Paths(f) \subseteq {e.name : e \in {d \in ElementsOf(v.tree.entries) : Readable(d)}}
  BY HistoriesAssumption DEF CommandInv, Fields
<1>2. I \in SUBSET Findable(v) /\ Findable(v) \subseteq DOMAIN v.candidates
  BY DEF MayFind, Findable
<1>3. /\ DOMAIN r = ReportFields
      /\ r.version = v /\ r.truncated = Capture(v.tree).truncated
      /\ r.coverage = {status} /\ r.findings = Found(v, I)
  BY DEF NewReport, ReportFields
<1> HIDE DEF r
<1>4. /\ \A f \in ElementsOf(r.findings) : Fields \subseteq DOMAIN f /\ Undecided(f)
      /\ Fingerprinted(r.findings) = {v.candidates[i].fingerprint : i \in I}
  <2>1. \A f \in ElementsOf(v.candidates) : Fields \subseteq DOMAIN f
    BY <1>1
  <2>2. I \in SUBSET DOMAIN v.candidates
    BY <1>2
  <2>3. v.candidates \in Seq(ElementsOf(v.candidates))
    BY <1>1
  <2>4. /\ \A f \in ElementsOf(Found(v, I)) : Fields \subseteq DOMAIN f /\ Undecided(f)
        /\ Fingerprinted(Found(v, I)) = {v.candidates[i].fingerprint : i \in I}
    BY ONLY <2>1, <2>2, <2>3, FoundOf DEF Fingerprinted
  <2> QED BY <2>4, <1>3
<1>5. \A f \in ElementsOf(r.findings) : Owed(r, f)
  BY <1>4 DEF Owed, Undecided, Resolved
<1>6. ASSUME r.coverage = {"COMPLETE"}, ~r.truncated
      PROVE  Fingerprinted(v.candidates) = Fingerprinted(r.findings)
  <2>1. LeftOut(v) = {}
    BY <1>1, <1>3, <1>6, SnapshotsAreWhole
  <2>2. \A e \in ElementsOf(v.tree.entries) : Readable(e) => e.name \in Names(Capture(v.tree))
    BY <2>1 DEF LeftOut, Names, ElementsOf
  <2>3. \A i \in DOMAIN v.candidates : Paths(v.candidates[i]) \subseteq Names(Capture(v.tree))
    BY <1>1, <2>2 DEF ElementsOf
  <2>4. I = DOMAIN v.candidates
    <3>1. status = "COMPLETE"
      BY <1>3, <1>6
    <3>2. I = Findable(v)
      BY <3>1 DEF MayFind
    <3> QED BY <2>3, <3>2 DEF Findable
  <2> QED BY <1>4, <2>4 DEF Fingerprinted, ElementsOf
<1>7. Sound(r)
  BY <1>3, <1>5, <1>6 DEF Sound
<1> QED BY <1>7 DEF r

(* A report with other findings, of which each is owed as much and has the *)
(* fingerprint of the one at its place.                                    *)
LEMMA OtherFindings ==
  ASSUME NEW r, Sound(r), NEW findings, DOMAIN findings = DOMAIN r.findings,
         NEW x, x = [r EXCEPT !.findings = findings],
         \A i \in DOMAIN findings : /\ Owed(x, findings[i])
                                    /\ findings[i].fingerprint = r.findings[i].fingerprint
  PROVE  Sound(x)
<1>1. /\ DOMAIN x = ReportFields /\ x.findings = findings
      /\ x.version = r.version /\ x.truncated = r.truncated /\ x.coverage = r.coverage
  BY DEF Sound, ReportFields
<1>2. Fingerprinted(x.findings) = Fingerprinted(r.findings)
  BY <1>1 DEF Fingerprinted, ElementsOf
<1>3. \A f \in ElementsOf(x.findings) : Owed(x, f)
  BY <1>1 DEF ElementsOf
<1> QED BY <1>1, <1>2, <1>3 DEF Sound

(* An entry of a review ledger decides about the evidence it was made of.  *)
LEMMA ReviewedIsSound ==
  ASSUME CommandInv, NEW r, Sound(r), NEW x \in Reviewed(r)
  PROVE  Sound(x) /\ x.project = r.project /\ x.created = r.created
<1>1. CASE x = r
  BY <1>1
<1>2. ASSUME NEW l \in reviews, l.project = r.project, x = ApplyReviewLedger(r, l)
      PROVE  Sound(x) /\ x.project = r.project /\ x.created = r.created
  <2> DEFINE Applicable(f) == {e \in l.entries : ReviewApplies(e, f)}
             Now(f) == IF Applicable(f) = {} THEN f
                       ELSE [f EXCEPT !.disposition = (CHOOSE e \in Applicable(f) : TRUE).decision]
             findings == [i \in DOMAIN r.findings |-> Now(r.findings[i])]
  <2>1. x = [r EXCEPT !.findings = findings]
    BY <1>2 DEF ApplyReviewLedger
  <2>2. x.project = r.project /\ x.created = r.created
    BY <2>1 DEF Sound, ReportFields
  <2>3. ASSUME NEW f, Owed(r, f)
        PROVE  Owed(x, Now(f)) /\ Now(f).fingerprint = f.fingerprint
    <3>1. CASE Applicable(f) = {}
      BY <3>1, <2>2, <2>3 DEF Owed, Decided, Excepted
    <3>2. CASE Applicable(f) # {}
      <4> DEFINE e == CHOOSE e \in Applicable(f) : TRUE
                 n == [project |-> l.project, entry |-> e]
                 g == Now(f)
      <4>1. e \in l.entries /\ ReviewApplies(e, f)
        BY <3>2
      <4>2. /\ DOMAIN g = DOMAIN f /\ g.disposition = e.decision
            /\ g.fingerprint = f.fingerprint /\ g.rule = f.rule
            /\ g.evidence = f.evidence /\ g.suppression = f.suppression
        BY <3>2, <2>3 DEF Owed, Fields
      <4> HIDE DEF e
      <4>3. n \in recorded /\ "decision" \in DOMAIN e
        BY <4>1 DEF CommandInv, Noted, Made
      <4> HIDE DEF Now
      <4>4. ReviewApplies(e, g)
        BY <4>1, <4>2 DEF ReviewApplies, Digests
      <4>5. Resolved(g) => Decided(x, g)
        BY <4>2, <4>3, <4>4, <2>2, <1>2 DEF Decided
      <4>6. g.suppression # {} => Excepted(x, g)
        <5>1. \A k : SuppressionApplies(k, f, r.created) => SuppressionApplies(k, g, x.created)
          BY <4>2, <2>2 DEF SuppressionApplies, Digests, Paths
        <5> QED BY <5>1, <4>2, <2>2, <2>3 DEF Owed, Excepted
      <4> QED BY <4>2, <4>5, <4>6, <2>3 DEF Owed
    <3> QED BY <3>1, <3>2
  <2>4. \A i \in DOMAIN findings : /\ Owed(x, findings[i])
                                   /\ findings[i].fingerprint = r.findings[i].fingerprint
    <3> HIDE DEF Now
    <3> QED BY <2>3 DEF Sound, ElementsOf
  <2>5. DOMAIN findings = DOMAIN r.findings
    OBVIOUS
  <2> HIDE DEF findings
  <2> QED BY <2>1, <2>2, <2>4, <2>5, OtherFindings
<1> QED BY <1>1, <1>2 DEF Reviewed, Belongs

(* An entry of a suppression ledger excepts the target it was made of, as  *)
(* long as it does not expire.                                             *)
LEMMA SuppressedIsSound ==
  ASSUME CommandInv, NEW r, Sound(r), NEW x \in Suppressed(r)
  PROVE  Sound(x) /\ x.project = r.project
<1>1. CASE x = r
  BY <1>1
<1>2. ASSUME NEW l \in suppressions, l.project = r.project, x = ApplySuppressionLedger(r, l)
      PROVE  Sound(x) /\ x.project = r.project
  <2> DEFINE Applicable(f) == {e \in l.entries : SuppressionApplies(e, f, r.created)}
             Now(f) == IF Applicable(f) = {} THEN f
                       ELSE [f EXCEPT !.suppression = {[until |-> e.until] : e \in Applicable(f)}]
             findings == [i \in DOMAIN r.findings |-> Now(r.findings[i])]
  <2>1. x = [r EXCEPT !.findings = findings]
    BY <1>2 DEF ApplySuppressionLedger
  <2>2. x.project = r.project /\ x.created = r.created
    BY <2>1 DEF Sound, ReportFields
  <2>3. ASSUME NEW f, Owed(r, f)
        PROVE  Owed(x, Now(f)) /\ Now(f).fingerprint = f.fingerprint
    <3>1. CASE Applicable(f) = {}
      BY <3>1, <2>2, <2>3 DEF Owed, Decided, Excepted
    <3>2. CASE Applicable(f) # {}
      <4> DEFINE g == Now(f)
      <4>1. PICK e \in l.entries : SuppressionApplies(e, f, r.created)
        BY <3>2
      <4> DEFINE n == [project |-> l.project, entry |-> e]
      <4>2. /\ DOMAIN g = DOMAIN f /\ g.disposition = f.disposition
            /\ g.fingerprint = f.fingerprint /\ g.rule = f.rule
            /\ g.evidence = f.evidence
        BY <3>2, <2>3 DEF Owed, Fields
      <4>3. n \in recorded /\ "until" \in DOMAIN e
        BY <4>1 DEF CommandInv, Noted, Made
      <4> HIDE DEF Now
      <4>4. SuppressionApplies(e, g, x.created)
        BY <4>1, <4>2, <2>2 DEF SuppressionApplies, Digests, Paths
      <4>5. Excepted(x, g)
        BY <4>3, <4>4, <2>2, <1>2 DEF Excepted
      <4>6. Resolved(g) => Decided(x, g)
        <5>1. \A k : ReviewApplies(k, f) => ReviewApplies(k, g)
          BY <4>2 DEF ReviewApplies, Digests
        <5> QED BY <5>1, <4>2, <2>2, <2>3 DEF Owed, Decided, Resolved
      <4> QED BY <4>2, <4>5, <4>6, <2>3 DEF Owed
    <3> QED BY <3>1, <3>2
  <2>4. \A i \in DOMAIN findings : /\ Owed(x, findings[i])
                                   /\ findings[i].fingerprint = r.findings[i].fingerprint
    <3> HIDE DEF Now
    <3> QED BY <2>3 DEF Sound, ElementsOf
  <2>5. DOMAIN findings = DOMAIN r.findings
    OBVIOUS
  <2> HIDE DEF findings
  <2> QED BY <2>1, <2>2, <2>4, <2>5, OtherFindings
<1> QED BY <1>1, <1>2 DEF Suppressed, Belongs

-----------------------------------------------------------------------------
(* Reports that were there stay sound, and so do new ones that are.        *)
LEMMA ReportsStaySound ==
  ASSUME CommandInv, versions' = versions, recorded \subseteq recorded',
         \A r \in Reports' : r \in Reports \/ Sound(r)
  PROVE  (\A r \in Reports : Sound(r))'
<1>1. ASSUME NEW r \in Reports' PROVE Sound(r)'
  <2>1. Sound(r)
    BY DEF CommandInv
  <2> QED BY <2>1, SoundStays
<1> QED BY <1>1

(* A process that ends has no report and no draft any more.                *)
LEMMA EndsKeeps ==
  ASSUME CommandInv, NEW p \in Procs, Ends(p)
  PROVE  /\ pc' \in [Procs -> Stages] /\ DOMAIN report' = Procs /\ DOMAIN draft' = Procs
         /\ \A q \in Procs : report'[q] \subseteq report[q]
         /\ \A q \in Procs : pc'[q] = "idle" \/ (pc'[q] = pc[q] /\ draft'[q] = draft[q])
BY DEF CommandInv, Ends, Set, Stages

(* The drafts and the ledgers of a step that ends a process, or of one     *)
(* that leaves both alone.                                                 *)
LEMMA EndedInv ==
  ASSUME CommandInv, versions' = versions, NEW p \in Procs, Ends(p),
         saved' \subseteq Reports, recorded \subseteq recorded',
         (Noted(reviews) \cup Noted(suppressions) \subseteq recorded)',
         Made(reviews, "decision")', Made(suppressions, "until")'
  PROVE  CommandInv'
<1>1. /\ pc' \in [Procs -> Stages] /\ DOMAIN report' = Procs /\ DOMAIN draft' = Procs
      /\ \A q \in Procs : report'[q] \subseteq report[q]
      /\ \A q \in Procs : pc'[q] = "idle" \/ (pc'[q] = pc[q] /\ draft'[q] = draft[q])
  BY EndsKeeps
<1>2. Reports' \subseteq Reports
  BY <1>1 DEF Reports
<1>3. (\A r \in Reports : Sound(r))'
  BY <1>2, ReportsStaySound
<1>4. \A q \in Procs : /\ pc'[q] = "saveReview" => Made(draft'[q], "decision")
                       /\ pc'[q] \in {"saveSuppression", "flushing"} => Made(draft'[q], "until")
  BY <1>1 DEF CommandInv
<1>5. (\A q \in Procs : /\ pc[q] = "saveReview" => Made(draft[q], "decision")
                        /\ pc[q] \in {"saveSuppression", "flushing"} => Made(draft[q], "until"))'
  BY <1>4 DEF Made
<1> QED BY <1>1, <1>3, <1>5 DEF CommandInv

LEMMA ScanKeeps ==
  ASSUME CommandInv, versions' = versions, NEW p \in Procs, Scan(p) PROVE CommandInv'
<1>1. PICK v \in versions, status \in Statuses, approved \in {PredictedTruncated(x.tree) : x \in versions} :
        /\ ~Capture(v.tree).failed
        /\ \E I \in MayFind(v, status) :
                report' = Set(report, p, {NewReport(v, approved, status, I)})
  BY DEF Scan
<1>2. PICK r : Sound(r) /\ report' = Set(report, p, {r})
  BY <1>1, NewReportIsSound
<1>3. /\ pc' = Set(pc, p, "inputs")
      /\ UNCHANGED <<draft, saved, reviews, suppressions, recorded>>
  BY DEF Scan, Goto, ledgerVars
<1>4. Reports' \subseteq Reports \cup {r}
  BY <1>2, <1>3 DEF Reports, CommandInv, Set
<1>5. (\A x \in Reports : Sound(x))'
  BY <1>2, <1>3, <1>4, ReportsStaySound
<1>6. /\ pc' \in [Procs -> Stages] /\ DOMAIN report' = Procs /\ pc'[p] = "inputs"
      /\ \A q \in Procs \ {p} : pc'[q] = pc[q]
  BY <1>2, <1>3 DEF CommandInv, Set, Stages
<1> QED BY <1>3, <1>5, <1>6 DEF CommandInv, Noted, Made

LEMMA ReadInputsKeeps ==
  ASSUME CommandInv, versions' = versions, NEW p \in Procs, ReadInputs(p) PROVE CommandInv'
<1>1. PICK r \in report[p] : \E y \in Reviewed(r) : \E x \in Suppressed(y) :
        report' = Set(report, p, {x})
  BY DEF ReadInputs
<1>2. PICK y \in Reviewed(r) : \E x \in Suppressed(y) : report' = Set(report, p, {x})
  BY <1>1
<1>3. PICK x \in Suppressed(y) : report' = Set(report, p, {x})
  BY <1>2
<1>4. Sound(x)
  <2>1. Sound(r)
    BY DEF CommandInv, Reports
  <2>2. Sound(y)
    BY <2>1, ReviewedIsSound
  <2> QED BY <2>2, SuppressedIsSound
<1>5. /\ pc' = Set(pc, p, "publish")
      /\ UNCHANGED <<draft, saved, reviews, suppressions, recorded>>
  BY DEF ReadInputs, Goto, ledgerVars, reportVars
<1>6. Reports' \subseteq Reports \cup {x}
  BY <1>3, <1>5 DEF Reports, CommandInv, Set
<1>7. (\A k \in Reports : Sound(k))'
  BY <1>4, <1>5, <1>6, ReportsStaySound
<1>8. /\ pc' \in [Procs -> Stages] /\ DOMAIN report' = Procs /\ pc'[p] = "publish"
      /\ \A q \in Procs \ {p} : pc'[q] = pc[q]
  BY <1>3, <1>5 DEF CommandInv, Set, Stages
<1> QED BY <1>5, <1>7, <1>8 DEF CommandInv, Noted, Made

(* The ledger a person's entry is added to holds entries of its own kind.  *)
LEMMA UpsertMade ==
  ASSUME NEW L, NEW project, NEW entry, NEW field, field \in DOMAIN entry,
         Made(L, field)
  PROVE  Made({Upsert(L, project, entry)}, field)
BY DEF Made, Upsert

LEMMA ReviewKeeps ==
  ASSUME CommandInv, versions' = versions, NEW p \in Procs, NEW f, NEW d, Review(p, f, d)
  PROVE  CommandInv'
<1>1. PICK r, finding : draft' = Set(draft, p, {Upsert(reviews, r.project, ReviewEntry(r, finding, d))})
  BY DEF Review
<1>2. Made(draft'[p], "decision")
  <2>1. "decision" \in DOMAIN ReviewEntry(r, finding, d)
    BY DEF ReviewEntry
  <2>2. Made({Upsert(reviews, r.project, ReviewEntry(r, finding, d))}, "decision")
    BY <2>1, UpsertMade DEF CommandInv
  <2> QED BY <1>1, <2>2 DEF CommandInv, Set
<1>3. /\ pc' = Set(pc, p, "saveReview")
      /\ UNCHANGED <<report, saved, reviews, suppressions, recorded>>
  BY DEF Review, Goto, ledgerVars, reportVars
<1>4. (\A k \in Reports : Sound(k))'
  BY <1>3, ReportsStaySound DEF Reports
<1>5. /\ pc' \in [Procs -> Stages] /\ DOMAIN draft' = Procs /\ pc'[p] = "saveReview"
      /\ \A q \in Procs \ {p} : pc'[q] = pc[q] /\ draft'[q] = draft[q]
  BY <1>1, <1>3 DEF CommandInv, Set, Stages
<1> QED BY <1>2, <1>3, <1>4, <1>5 DEF CommandInv, Noted, Made

LEMMA SuppressKeeps ==
  ASSUME CommandInv, versions' = versions, NEW p \in Procs, NEW f, NEW until,
         Suppress(p, f, until)
  PROVE  CommandInv'
<1>1. PICK r, finding :
        draft' = Set(draft, p, {Upsert(suppressions, r.project, SuppressionEntry(r, finding, until))})
  BY DEF Suppress
<1>2. Made(draft'[p], "until")
  <2>1. "until" \in DOMAIN SuppressionEntry(r, finding, until)
    BY DEF SuppressionEntry
  <2>2. Made({Upsert(suppressions, r.project, SuppressionEntry(r, finding, until))}, "until")
    BY <2>1, UpsertMade DEF CommandInv
  <2> QED BY <1>1, <2>2 DEF CommandInv, Set
<1>3. /\ pc' = Set(pc, p, "saveSuppression")
      /\ UNCHANGED <<report, saved, reviews, suppressions, recorded>>
  BY DEF Suppress, Goto, ledgerVars, reportVars
<1>4. (\A k \in Reports : Sound(k))'
  BY <1>3, ReportsStaySound DEF Reports
<1>5. /\ pc' \in [Procs -> Stages] /\ DOMAIN draft' = Procs /\ pc'[p] = "saveSuppression"
      /\ \A q \in Procs \ {p} : pc'[q] = pc[q] /\ draft'[q] = draft[q]
  BY <1>1, <1>3 DEF CommandInv, Set, Stages
<1> QED BY <1>2, <1>3, <1>4, <1>5 DEF CommandInv, Noted, Made

LEMMA SaveReviewKeeps ==
  ASSUME CommandInv, versions' = versions, NEW p \in Procs, SaveReview(p) PROVE CommandInv'
<1>1. /\ pc[p] = "saveReview" /\ reviews' = draft[p]
      /\ recorded' = recorded \cup Noted(draft[p])
      /\ Ends(p) /\ UNCHANGED <<saved, suppressions>>
  BY DEF SaveReview, reportVars
<1>2. (Noted(reviews) \cup Noted(suppressions) \subseteq recorded)'
  BY <1>1 DEF CommandInv, Noted
<1>3. Made(reviews, "decision")' /\ Made(suppressions, "until")'
  BY <1>1 DEF CommandInv, Made
<1> QED BY <1>1, <1>2, <1>3, EndedInv DEF Reports

LEMMA OpenSuppressionsKeeps ==
  ASSUME CommandInv, versions' = versions, NEW p \in Procs, OpenSuppressions(p)
  PROVE  CommandInv'
<1>1. /\ pc[p] = "saveSuppression" /\ pc' = Set(pc, p, "flushing")
      /\ UNCHANGED <<report, draft, saved, reviews, suppressions, recorded>>
  BY DEF OpenSuppressions, Goto, reportVars
<1>2. (\A r \in Reports : Sound(r))'
  BY <1>1, ReportsStaySound DEF Reports
<1>3. /\ pc' \in [Procs -> Stages] /\ pc'[p] = "flushing"
      /\ \A q \in Procs \ {p} : pc'[q] = pc[q]
  BY <1>1 DEF CommandInv, Set, Stages
<1> QED BY <1>1, <1>2, <1>3 DEF CommandInv, Noted, Made

LEMMA SaveSuppressionsKeeps ==
  ASSUME CommandInv, versions' = versions, NEW p \in Procs, SaveSuppressions(p)
  PROVE  CommandInv'
<1>1. /\ pc[p] = "flushing" /\ suppressions' = draft[p]
      /\ recorded' = recorded \cup Noted(draft[p])
      /\ Ends(p) /\ UNCHANGED <<saved, reviews>>
  BY DEF SaveSuppressions, reportVars
<1>2. (Noted(reviews) \cup Noted(suppressions) \subseteq recorded)'
  BY <1>1 DEF CommandInv, Noted
<1>3. Made(reviews, "decision")' /\ Made(suppressions, "until")'
  BY <1>1 DEF CommandInv, Made
<1> QED BY <1>1, <1>2, <1>3, EndedInv DEF Reports

(* A process that ends without saving anything, or with a report.          *)
LEMMA OnlyEnds ==
  ASSUME CommandInv, versions' = versions, NEW p \in Procs, Ends(p),
         UNCHANGED ledgerVars, saved' \subseteq saved \cup report[p]
  PROVE  CommandInv'
<1>1. UNCHANGED <<reviews, suppressions, recorded>>
  BY DEF ledgerVars
<1>2. (Noted(reviews) \cup Noted(suppressions) \subseteq recorded)'
  BY <1>1 DEF CommandInv, Noted
<1>3. Made(reviews, "decision")' /\ Made(suppressions, "until")'
  BY <1>1 DEF CommandInv, Made
<1> QED BY <1>1, <1>2, <1>3, EndedInv DEF Reports

LEMMA FinalizeKeeps ==
  ASSUME CommandInv, versions' = versions, NEW p, NEW r, NEW b, Finalize(p, r, b)
  PROVE  CommandInv'
<1>1. UNCHANGED <<pc, report, draft, saved, reviews, suppressions, recorded>>
  BY DEF Finalize, localVars, ledgerVars
<1>2. (\A x \in Reports : Sound(x))'
  BY <1>1, ReportsStaySound DEF Reports
<1> QED BY <1>1, <1>2 DEF CommandInv, Noted, Made

LEMMA CommandStep ==
  ASSUME CommandInv, [Next]_vars PROVE CommandInv'
<1>1. ASSUME NEW p \in Procs, versions' = versions, Step(p) PROVE CommandInv'
  <2>1. CASE Scan(p)
    BY <1>1, <2>1, ScanKeeps
  <2>2. CASE ReadInputs(p)
    BY <1>1, <2>2, ReadInputsKeeps
  <2>3. CASE InputRefused(p) \/ PublishFails(p) \/ Crash(p)
    BY <1>1, <2>3, OnlyEnds DEF InputRefused, PublishFails, Crash, Fail, reportVars
  <2>4. CASE Finish(p)
    BY <1>1, <2>4, OnlyEnds DEF Finish
  <2>5. CASE \E r, b \in saved : Finalize(p, r, b)
    BY <1>1, <2>5, FinalizeKeeps
  <2>6. CASE \E f \in Fingerprints, d \in Decisions : Review(p, f, d)
    BY <1>1, <2>6, ReviewKeeps
  <2>7. CASE \E f \in Fingerprints, until \in Expiries : Suppress(p, f, until)
    BY <1>1, <2>7, SuppressKeeps
  <2>8. CASE SaveReview(p)
    BY <1>1, <2>8, SaveReviewKeeps
  <2>9. CASE OpenSuppressions(p)
    BY <1>1, <2>9, OpenSuppressionsKeeps
  <2>10. CASE SaveSuppressions(p)
    BY <1>1, <2>10, SaveSuppressionsKeeps
  <2> QED BY <1>1, <2>1, <2>2, <2>3, <2>4, <2>5, <2>6, <2>7, <2>8, <2>9, <2>10 DEF Step
<1>2. CASE UNCHANGED vars
  <2>1. UNCHANGED <<versions, pc, report, draft, saved, reviews, suppressions, recorded>>
    BY <1>2 DEF vars, localVars, ledgerVars, reportVars
  <2>2. (\A x \in Reports : Sound(x))'
    BY <2>1, ReportsStaySound DEF Reports
  <2> QED BY <2>1, <2>2 DEF CommandInv, Noted, Made
<1> QED BY <1>1, <1>2 DEF Next

-----------------------------------------------------------------------------
(* What a gate with exit code 0 has looked at.                             *)
LEMMA PassedPolicy ==
  ASSUME NEW r, NEW gate \in {"balanced", "strict"}, NEW base, PolicyExit(r, gate, base) = 0
  PROVE  /\ ~r.truncated /\ "FAILED" \notin r.coverage
         /\ gate = "strict" => "PARTIAL" \notin r.coverage
         /\ \A f \in ElementsOf(r.findings) : MeetsFindingCriteria(f, gate) =>
                \/ Resolved(f) \/ f.suppression # {}
                \/ gate # "strict" /\ \E b \in base : f.key \in LifecycleKeys(b)
<1>1. ~CoverageBlocks(r, gate) /\ GatedFindings(r, gate, base) = {}
  BY DEF PolicyExit
<1>2. /\ ~r.truncated /\ "FAILED" \notin r.coverage
      /\ gate = "strict" => "PARTIAL" \notin r.coverage
  BY <1>1 DEF CoverageBlocks, BlocksCoverage
<1>3. ASSUME NEW f \in ElementsOf(r.findings), MeetsFindingCriteria(f, gate),
             ~Resolved(f), f.suppression = {}
      PROVE  gate # "strict" /\ \E b \in base : f.key \in LifecycleKeys(b)
  <2>1. ~ActiveSuppression(f, r.created)
    BY <1>3 DEF ActiveSuppression
  <2>2. f \notin Scoped(r, gate, base)
    BY <1>1, <1>3, <2>1 DEF GatedFindings
  <2>3. base # {} /\ gate = "balanced" /\ \A b \in base : f \notin NewFindings(b, r)
    BY <1>3, <2>2 DEF Scoped
  <2> QED BY <1>3, <2>3 DEF NewFindings
<1> QED BY <1>2, <1>3

LEMMA PassedSeverity ==
  ASSUME NEW r, NEW gate, NEW base, SeverityExit(r, gate, base) = 0
  PROVE  \A f \in ElementsOf(r.findings) : AtLeast(f.severity, gate) =>
                \/ Resolved(f) \/ f.suppression # {}
                \/ \E b \in base : f.key \in LifecycleKeys(b)
<1> SUFFICES ASSUME NEW f \in ElementsOf(r.findings), AtLeast(f.severity, gate),
                    ~Resolved(f), f.suppression = {}
             PROVE  \E b \in base : f.key \in LifecycleKeys(b)
  OBVIOUS
<1>1. CASE base = {}
  BY <1>1 DEF SeverityExit
<1>2. CASE base # {}
  <2>1. \A b \in base : f \notin NewFindings(b, r)
    BY <1>2 DEF SeverityExit
  <2> QED BY <1>2, <2>1 DEF NewFindings
<1> QED BY <1>1, <1>2

(* A clean exit is earned by every report that is sound.                   *)
LEMMA SoundIsEarned ==
  ASSUME CommandInv, NEW r, Sound(r), NEW base,
         NEW gate \in {"balanced", "strict"} \cup Severities, ExitCode(r, gate, base) = 0
  PROVE  Earned(r, gate, base)
<1>1. \A f \in ElementsOf(r.findings) :
        /\ Resolved(f) => Decided(r, f)
        /\ f.suppression # {} => Excepted(r, f)
  BY DEF Sound, Owed
<1>2. CASE gate \in {"balanced", "strict"}
  <2>1. gate \in Profiles /\ PolicyExit(r, gate, base) = 0
    BY <1>2 DEF ExitCode, Profiles
  <2>2. /\ ~r.truncated /\ "FAILED" \notin r.coverage
        /\ gate = "strict" => "PARTIAL" \notin r.coverage
        /\ \A f \in ElementsOf(r.findings) : MeetsFindingCriteria(f, gate) =>
                \/ Resolved(f) \/ f.suppression # {}
                \/ gate # "strict" /\ \E b \in base : f.key \in LifecycleKeys(b)
    BY <1>2, <2>1, PassedPolicy
  <2>3. Whole(r)
    <3>1. LeftOut(r.version) = {}
      <4>1. /\ r.version.tree.entries \in Seq(ElementsOf(r.version.tree.entries))
            /\ r.version.tree.artifacts \in Seq(ElementsOf(r.version.tree.artifacts))
        BY HistoriesAssumption DEF CommandInv, Sound
      <4> QED BY <2>2, <4>1, SnapshotsAreWhole DEF Sound
    <3> QED BY <2>2, <3>1 DEF Whole, Sound, Fingerprinted
  <2> QED BY <1>1, <2>1, <2>2, <2>3 DEF Earned, Gated, Accounted
<1>3. CASE gate \in Severities
  <2>1. gate \notin Profiles /\ gate # "strict"
    BY <1>3 DEF Severities, Profiles
  <2>2. SeverityExit(r, gate, base) = 0
    BY <2>1 DEF ExitCode
  <2>3. \A f \in ElementsOf(r.findings) : AtLeast(f.severity, gate) =>
                \/ Resolved(f) \/ f.suppression # {}
                \/ \E b \in base : f.key \in LifecycleKeys(b)
    BY <2>2, PassedSeverity
  <2> QED BY <1>1, <2>1, <2>3 DEF Earned, Gated, Accounted
<1> QED BY <1>2, <1>3

(* A command that exits with 0 from a gate has earned it, however many     *)
(* commands and people change reports, ledgers and the project at the same *)
(* time (policyExitCode, severityExitCode and the commands of main.ts).    *)
THEOREM CleanExitHolds == Spec => []CleanExitIsEarned
<1>1. CommandInv => CleanExitIsEarned
  <2> SUFFICES ASSUME CommandInv, NEW x \in Exiting,
                      NEW gate \in {"balanced", "strict"} \cup Severities,
                      ExitCode(x[1], gate, x[2]) = 0
               PROVE  Earned(x[1], gate, x[2])
    BY DEF CleanExitIsEarned
  <2>1. x[1] \in Reports
    <3> DEFINE Auditing == UNION {report[p] \X {bases[p]} : p \in {q \in Procs : pc[q] = "publish"}}
               Finalizing == {<<c[1], {c[2]}>> : c \in {d \in saved \X saved : Finalizable(d[1], d[2])}}
    <3>1. CASE x \in Auditing
      <4>1. PICK p \in Procs : x \in report[p] \X {bases[p]}
        BY <3>1
      <4> QED BY <4>1 DEF Reports
    <3>2. CASE x \in Finalizing
      <4>1. PICK c \in saved \X saved : x = <<c[1], {c[2]}>>
        BY <3>2
      <4>2. x[1] = c[1] /\ c[1] \in saved
        BY <4>1
      <4> QED BY <4>2 DEF Reports
    <3>3. Exiting = Auditing \cup Finalizing
      BY DEF Exiting
    <3> HIDE DEF Auditing, Finalizing
    <3> QED BY <3>1, <3>2, <3>3
  <2>2. Sound(x[1])
    BY <2>1 DEF CommandInv
  <2> QED BY <2>2, SoundIsEarned
<1> QED BY CommandInit, CommandStep, <1>1, PTL DEF Spec
-----------------------------------------------------------------------------
(* Remediation: the tasks of a plan.                                       *)
Exposures == {"potentially_public", "authenticated", "unknown", "local"}

(* A finite, not empty set has an element of the greatest weight.          *)
LEMMA Heaviest ==
  ASSUME NEW S, S # {}, NEW B \in Nat, NEW w \in [S -> 0..B]
  PROVE  \E x \in S : \A y \in S : w[y] <= w[x]
<1> DEFINE T == {B - w[x] : x \in S}
<1>1. T \in SUBSET Nat /\ T # {}
  <2>1. \A x \in S : B - w[x] \in Nat
    OBVIOUS
  <2> QED BY <2>1
<1>2. PICK i \in T : \A j \in T : i <= j
  <2> HIDE DEF T
  <2> QED BY <1>1, Walk!LeastOf
<1>3. PICK x \in S : i = B - w[x]
  BY <1>2
<1>4. ASSUME NEW y \in S PROVE w[y] <= w[x]
  <2>1. B - w[y] \in T
    OBVIOUS
  <2>2. B - w[x] <= B - w[y]
    BY <1>2, <1>3, <2>1
  <2>3. w[x] \in 0..B /\ w[y] \in 0..B
    OBVIOUS
  <2> QED BY <2>2, <2>3
<1> QED BY <1>4

(* The first n elements of a finite set, in the order of a weight.         *)
AreFirst(K, n, S, w) ==
    /\ Cardinality(K) = n
    /\ \A t \in K, u \in S \ K : w[u] <= w[t]

FirstExist(n, S, w) == \E K \in SUBSET S : AreFirst(K, n, S, w)

LEMMA FirstOnes ==
  ASSUME NEW S, IsFiniteSet(S), NEW B \in Nat, NEW w \in [S -> 0..B]
  PROVE  \A n \in 0..Cardinality(S) : FirstExist(n, S, w)
<1> DEFINE P == {n \in Nat : n <= Cardinality(S) => FirstExist(n, S, w)}
<1>1. Cardinality(S) \in Nat
  BY FS_CardinalityType
<1>2. 0 \in P
  <2>1. Cardinality({}) = 0 /\ {} \in SUBSET S
    BY FS_EmptySet
  <2> QED BY <2>1 DEF FirstExist, AreFirst
<1>3. ASSUME NEW n \in P PROVE n + 1 \in P
  <2> SUFFICES ASSUME n + 1 <= Cardinality(S) PROVE FirstExist(n + 1, S, w)
    OBVIOUS
  <2>1. PICK K \in SUBSET S : /\ Cardinality(K) = n
                              /\ \A t \in K, u \in S \ K : w[u] <= w[t]
    BY <1>1 DEF FirstExist, AreFirst
  <2>2. S \ K # {}
    BY <1>1, <2>1
  <2>3. PICK x \in S \ K : \A y \in S \ K : w[y] <= w[x]
    <3> DEFINE v == [y \in S \ K |-> w[y]]
    <3>1. v \in [S \ K -> 0..B]
      OBVIOUS
    <3>2. \A y \in S \ K : v[y] = w[y]
      OBVIOUS
    <3> HIDE DEF v
    <3>3. \E x \in S \ K : \A y \in S \ K : v[y] <= v[x]
      BY <2>2, <3>1, Heaviest
    <3> QED BY <3>2, <3>3
  <2>4. K \cup {x} \in SUBSET S /\ IsFiniteSet(K) /\ x \notin K
    BY FS_Subset
  <2>5. Cardinality(K \cup {x}) = n + 1
    BY <2>1, <2>4, FS_AddElement
  <2>6. \A t \in K \cup {x}, u \in S \ (K \cup {x}) : w[u] <= w[t]
    BY <2>1, <2>3
  <2> QED BY <2>4, <2>5, <2>6 DEF FirstExist, AreFirst
<1>4. P = Nat
  <2>1. P \in SUBSET Nat
    OBVIOUS
  <2> HIDE DEF P
  <2> QED BY <1>2, <1>3, <2>1, Walk!Induction
<1>5. \A n \in 0..Cardinality(S) : n \in P /\ n <= Cardinality(S)
  BY <1>1, <1>4
<1> QED BY <1>5

LEMMA ImageIsFinite ==
  ASSUME NEW S, IsFiniteSet(S), NEW g, DOMAIN g = S
  PROVE  IsFiniteSet({g[x] : x \in S})
<1> DEFINE T == {g[x] : x \in S}
           h == [x \in S |-> g[x]]
<1>1. h \in Surjection(S, T)
  BY DEF Surjection
<1> HIDE DEF T, h
<1>2. IsFiniteSet(T)
  BY <1>1, FS_Surjection
<1> QED BY <1>2 DEF T

(* Findings as the reports list them.                                      *)
Typed(F) == \A f \in F :
    /\ f.severity \in Severities /\ f.confidence \in Confidences /\ f.exposure \in Exposures
    /\ f.package # "none" <=> f.rule = "osv"

LEMMA ScoresAreTyped ==
  ASSUME NEW F, F # {}, Typed(F)
  PROVE  /\ Gravest(F) \in Severities
         /\ HighestExposure(F) \in Exposures
         /\ LowestConfidence(F) \in Confidences
<1>1. Gravest(F) \in Severities
  <2> DEFINE w == [f \in F |-> 4 - Rank[f.severity]]
  <2>1. \A f \in F : f.severity \in Severities /\ Rank[f.severity] \in 0..4
    BY DEF Typed, Rank, Severities
  <2>2. w \in [F -> 0..4]
    BY <2>1
  <2>3. \A f \in F : w[f] = 4 - Rank[f.severity]
    OBVIOUS
  <2> HIDE DEF w
  <2>4. PICK g \in F : \A f \in F : w[f] <= w[g]
    BY <2>2, Heaviest
  <2>5. \A f \in F : Rank[g.severity] <= Rank[f.severity]
    BY <2>1, <2>3, <2>4
  <2>6. /\ g.severity \in {f.severity : f \in F}
        /\ \A f \in F : AtLeast(g.severity, f.severity)
    BY <2>5 DEF AtLeast
  <2>7. Gravest(F) \in {f.severity : f \in F}
    BY <2>6 DEF Gravest
  <2> QED BY <2>1, <2>7
<1>2. HighestExposure(F) \in Exposures
  <2> DEFINE w == [f \in F |-> ExposureScore[f.exposure]]
  <2>1. \A f \in F : f.exposure \in Exposures /\ ExposureScore[f.exposure] \in 0..15
    BY DEF Typed, ExposureScore, Exposures
  <2>2. w \in [F -> 0..15]
    BY <2>1
  <2>3. \A f \in F : w[f] = ExposureScore[f.exposure]
    OBVIOUS
  <2> HIDE DEF w
  <2>4. PICK g \in F : \A f \in F : w[f] <= w[g]
    BY <2>2, Heaviest
  <2>5. \A f \in F : ExposureScore[f.exposure] <= ExposureScore[g.exposure]
    BY <2>3, <2>4
  <2>6. g.exposure \in {f.exposure : f \in F}
    OBVIOUS
  <2>7. HighestExposure(F) \in {f.exposure : f \in F}
    BY <2>5, <2>6 DEF HighestExposure
  <2> QED BY <2>1, <2>7
<1>3. LowestConfidence(F) \in Confidences
  <2> DEFINE w == [f \in F |-> 8 - ConfidenceScore[f.confidence]]
  <2>1. \A f \in F : f.confidence \in Confidences /\ ConfidenceScore[f.confidence] \in 0..8
    BY DEF Typed, ConfidenceScore, Confidences
  <2>2. w \in [F -> 0..8]
    BY <2>1
  <2>3. \A f \in F : w[f] = 8 - ConfidenceScore[f.confidence]
    OBVIOUS
  <2> HIDE DEF w
  <2>4. PICK g \in F : \A f \in F : w[f] <= w[g]
    BY <2>2, Heaviest
  <2>5. \A f \in F : ConfidenceScore[g.confidence] <= ConfidenceScore[f.confidence]
    BY <2>1, <2>3, <2>4
  <2>6. g.confidence \in {f.confidence : f \in F}
    OBVIOUS
  <2>7. LowestConfidence(F) \in {f.confidence : f \in F}
    BY <2>5, <2>6 DEF LowestConfidence
  <2> QED BY <2>1, <2>7
<1> QED BY <1>1, <1>2, <1>3

LEMMA PriorityIsBounded ==
  ASSUME NEW s \in Severities, NEW e \in Exposures, NEW c \in Confidences, NEW more \in Nat
  PROVE  Priority(s, e, c, more) \in 0..100
<1> DEFINE sum == SeverityScore[s] + ExposureScore[e] + ConfidenceScore[c] + more
<1>1. SeverityScore[s] \in Nat /\ ExposureScore[e] \in Nat /\ ConfidenceScore[c] \in Nat
  BY DEF SeverityScore, ExposureScore, ConfidenceScore, Severities, Exposures, Confidences
<1>2. sum \in Nat
  BY <1>1
<1> HIDE DEF sum
<1>3. \E x \in {100, sum} : \A y \in {100, sum} : x =< y
  BY <1>2
<1>4. Min({100, sum}) \in {100, sum} /\ Min({100, sum}) <= 100
  BY <1>3 DEF Min
<1>5. Min({100, sum}) \in 0..100
  BY <1>2, <1>4
<1> QED BY <1>5 DEF Priority, sum

(* What a plan orders its tasks by.                                        *)
Ordered(t) == t.priority \in 0..100 /\ t.severity \in Severities

LEMMA DependencyTaskIsOrdered ==
  ASSUME NEW before, NEW F, F # {}, Typed(F), NEW package
  PROVE  Ordered(DependencyTask(before, F, package))
<1>1. \A more \in Nat :
        Priority(Gravest(F), HighestExposure(F), LowestConfidence(F), more) \in 0..100
  BY ScoresAreTyped, PriorityIsBounded
<1>2. Gravest(F) \in Severities
  BY ScoresAreTyped
<1> QED BY <1>1, <1>2 DEF Ordered, DependencyTask

LEMMA FindingTaskIsOrdered ==
  ASSUME NEW F, F # {}, Typed(F) PROVE Ordered(FindingTask(F))
<1>1. Priority(Gravest(F), HighestExposure(F), LowestConfidence(F), 0) \in 0..100
  BY ScoresAreTyped, PriorityIsBounded
<1>2. Gravest(F) \in Severities
  BY ScoresAreTyped
<1> QED BY <1>1, <1>2 DEF Ordered, FindingTask

LEMMA ControlTaskIsOrdered ==
  ASSUME NEW c, c.status \in DOMAIN ControlPriority, NEW tasks
  PROVE  Ordered(ControlTask(c, tasks))
<1> DEFINE severity == IF c.status = "FAILED" THEN "high" ELSE "medium"
           confidence == IF c.status = "UNVERIFIED" THEN "low" ELSE "medium"
           mine == ControlPriority[c.status]
           other == Priority(severity, "unknown", confidence, 0)
<1>1. severity \in Severities /\ confidence \in Confidences /\ "unknown" \in Exposures
  BY DEF Severities, Confidences, Exposures
<1>2. other \in 0..100
  <2> HIDE DEF severity, confidence
  <2> QED BY <1>1, PriorityIsBounded
<1>3. mine \in 0..100
  BY DEF ControlPriority
<1>4. ControlTask(c, tasks).priority = Max({mine, other})
  BY DEF ControlTask
<1>5. ControlTask(c, tasks).severity \in Severities
  BY <1>1 DEF ControlTask
<1> HIDE DEF mine, other
<1>6. \E x \in {mine, other} : \A y \in {mine, other} : x >= y
  BY <1>2, <1>3
<1>7. Max({mine, other}) \in {mine, other}
  BY <1>6 DEF Max
<1> QED BY <1>2, <1>3, <1>4, <1>5, <1>7 DEF Ordered

(* The reports that audits give.                                           *)
AuditReports ==
    {[audit |-> n, project |-> A.project, tree |-> A.tree, findings |-> A.findings,
      controls |-> A.controls, commands |-> A.commands] : n \in Nat, A \in Audited}

LEMMA ReportsAreTyped ==
  ASSUME NEW before \in AuditReports
  PROVE  /\ IsFiniteSet(ElementsOf(before.findings)) /\ IsFiniteSet(before.controls)
         /\ Typed(ElementsOf(before.findings))
         /\ \A c \in before.commands : c.kind \in {"test", "build"}
<1>1. PICK A \in Audited : /\ before.findings = A.findings /\ before.controls = A.controls
                           /\ before.commands = A.commands
  BY DEF AuditReports
<1>2. IsFiniteSet(ElementsOf(A.findings))
  <2> DEFINE s == A.findings
  <2>1. s \in Seq(ElementsOf(s))
    BY AuditsAssumption
  <2>2. DOMAIN s = 1..Len(s) /\ Len(s) \in Nat
    BY <2>1
  <2>3. IsFiniteSet(DOMAIN s)
    <3>1. 1 \in Int /\ Len(s) \in Int
      BY <2>2
    <3>2. IsFiniteSet(1..Len(s))
      BY <3>1, FS_Interval
    <3> QED BY <2>2, <3>2
  <2> HIDE DEF s
  <2>4. IsFiniteSet({s[i] : i \in DOMAIN s})
    BY <2>3, ImageIsFinite
  <2> QED BY <2>4 DEF ElementsOf, s
<1>3. Typed(ElementsOf(A.findings))
  BY AuditsAssumption DEF Typed, Exposures
<1>4. IsFiniteSet(A.controls) /\ \A c \in A.commands : c.kind \in {"test", "build"}
  BY AuditsAssumption
<1> QED BY <1>1, <1>2, <1>3, <1>4

LEMMA DependencyTasksHold ==
  ASSUME NEW before \in AuditReports
  PROVE  IsFiniteSet(DependencyTasks(before)) /\ \A t \in DependencyTasks(before) : Ordered(t)
<1> DEFINE A == AdvisoriesOf(before)
           Of(p) == {f \in A : f.package = p}
           packages == {f.package : f \in A}
<1>1. IsFiniteSet(A) /\ Typed(A)
  <2>1. A \in SUBSET ElementsOf(before.findings)
    BY DEF AdvisoriesOf, Unresolved
  <2>2. IsFiniteSet(A)
    BY <2>1, ReportsAreTyped, FS_Subset
  <2> QED BY <2>1, <2>2, ReportsAreTyped DEF Typed
<1>2. DependencyTasks(before) = {DependencyTask(before, Of(p), p) : p \in packages}
  BY DEF DependencyTasks
<1>3. \A p \in packages : Of(p) # {} /\ Typed(Of(p))
  BY <1>1 DEF Typed
<1>4. \A p \in packages : Ordered(DependencyTask(before, Of(p), p))
  <2> HIDE DEF Of, packages
  <2> QED BY <1>3, DependencyTaskIsOrdered
<1>5. IsFiniteSet(packages)
  <2> DEFINE g == [f \in A |-> f.package]
  <2>1. IsFiniteSet({g[f] : f \in A})
    <3>1. DOMAIN g = A
      OBVIOUS
    <3> HIDE DEF g, A
    <3> QED BY <1>1, <3>1, ImageIsFinite
  <2> QED BY <2>1
<1>6. IsFiniteSet({DependencyTask(before, Of(p), p) : p \in packages})
  <2> HIDE DEF Of, packages
  <2> DEFINE g == [p \in packages |-> DependencyTask(before, Of(p), p)]
  <2>1. {g[p] : p \in packages} = {DependencyTask(before, Of(p), p) : p \in packages}
    OBVIOUS
  <2>2. DOMAIN g = packages
    OBVIOUS
  <2> HIDE DEF g
  <2>3. IsFiniteSet({g[p] : p \in packages})
    BY <1>5, <2>2, ImageIsFinite
  <2> QED BY <2>1, <2>3
<1> HIDE DEF Of, packages
<1> QED BY <1>2, <1>4, <1>6

LEMMA FindingTasksHold ==
  ASSUME NEW before \in AuditReports
  PROVE  IsFiniteSet(FindingTasks(before)) /\ \A t \in FindingTasks(before) : Ordered(t)
<1> DEFINE others == Unresolved(before) \ AdvisoriesOf(before)
           With(key) == {f \in others : FindingGroupKey(f) = key}
           keys == {FindingGroupKey(f) : f \in others}
<1>1. IsFiniteSet(others) /\ Typed(others)
  <2>1. others \in SUBSET ElementsOf(before.findings)
    BY DEF Unresolved
  <2>2. IsFiniteSet(others)
    BY <2>1, ReportsAreTyped, FS_Subset
  <2> QED BY <2>1, <2>2, ReportsAreTyped DEF Typed
<1>2. FindingTasks(before) = {FindingTask(With(key)) : key \in keys}
  BY DEF FindingTasks
<1>3. \A key \in keys : With(key) # {} /\ Typed(With(key))
  BY <1>1 DEF Typed
<1>4. \A key \in keys : Ordered(FindingTask(With(key)))
  <2> HIDE DEF With, keys
  <2> QED BY <1>3, FindingTaskIsOrdered
<1>5. IsFiniteSet(keys)
  <2> DEFINE g == [f \in others |-> FindingGroupKey(f)]
  <2>1. IsFiniteSet({g[f] : f \in others})
    <3>1. DOMAIN g = others
      OBVIOUS
    <3> HIDE DEF g, others
    <3> QED BY <1>1, <3>1, ImageIsFinite
  <2> QED BY <2>1
<1>6. IsFiniteSet({FindingTask(With(key)) : key \in keys})
  <2> HIDE DEF With, keys
  <2> DEFINE g == [key \in keys |-> FindingTask(With(key))]
  <2>1. {g[key] : key \in keys} = {FindingTask(With(key)) : key \in keys}
    OBVIOUS
  <2>2. DOMAIN g = keys
    OBVIOUS
  <2> HIDE DEF g
  <2>3. IsFiniteSet({g[key] : key \in keys})
    BY <1>5, <2>2, ImageIsFinite
  <2> QED BY <2>1, <2>3
<1> HIDE DEF With, keys
<1> QED BY <1>2, <1>4, <1>6

(* The controls that are open, and the tasks of findings, as in AllTasks.  *)
FoundTasks(before) == DependencyTasks(before) \cup FindingTasks(before)

ControlTasks(before) ==
    {ControlTask(c, FoundTasks(before)) :
        c \in {d \in before.controls : /\ d.status \in DOMAIN ControlPriority
                                       /\ d.decision \notin HumanDecisions}}

LEMMA AllTasksHold ==
  ASSUME NEW before \in AuditReports
  PROVE  /\ AllTasks(before) = FoundTasks(before) \cup ControlTasks(before)
         /\ IsFiniteSet(AllTasks(before))
         /\ \A t \in AllTasks(before) : Ordered(t)
<1> DEFINE open == {c \in before.controls : /\ c.status \in DOMAIN ControlPriority
                                            /\ c.decision \notin HumanDecisions}
           tasks == FoundTasks(before)
<1>1. AllTasks(before) = FoundTasks(before) \cup ControlTasks(before)
  BY DEF AllTasks, FoundTasks, ControlTasks
<1>2. ControlTasks(before) = {ControlTask(c, tasks) : c \in open}
  BY DEF ControlTasks
<1>3. IsFiniteSet(open)
  <2>1. open \in SUBSET before.controls
    OBVIOUS
  <2> HIDE DEF open
  <2> QED BY <2>1, ReportsAreTyped, FS_Subset
<1>4. \A c \in open : Ordered(ControlTask(c, tasks))
  <2> HIDE DEF tasks
  <2> QED BY ControlTaskIsOrdered
<1> HIDE DEF open, tasks
<1>5. IsFiniteSet({ControlTask(c, tasks) : c \in open})
  <2> DEFINE g == [c \in open |-> ControlTask(c, tasks)]
  <2>1. {g[c] : c \in open} = {ControlTask(c, tasks) : c \in open}
    OBVIOUS
  <2>2. DOMAIN g = open
    OBVIOUS
  <2> HIDE DEF g
  <2>3. IsFiniteSet({g[c] : c \in open})
    BY <1>3, <2>2, ImageIsFinite
  <2> QED BY <2>1, <2>3
<1>6. IsFiniteSet(FoundTasks(before)) /\ \A t \in FoundTasks(before) : Ordered(t)
  <2>1. IsFiniteSet(FoundTasks(before))
    BY DependencyTasksHold, FindingTasksHold, FS_Union DEF FoundTasks
  <2>2. \A t \in FoundTasks(before) : Ordered(t)
    BY DependencyTasksHold, FindingTasksHold DEF FoundTasks
  <2> QED BY <2>1, <2>2
<1>7. IsFiniteSet(AllTasks(before))
  BY <1>1, <1>2, <1>5, <1>6, FS_Union
<1>8. \A t \in AllTasks(before) : Ordered(t)
  BY <1>1, <1>2, <1>4, <1>6
<1> QED BY <1>1, <1>7, <1>8

(* A plan has only tasks that there are, and all of them unless it says so.*)
LEMMA PlansTell ==
  ASSUME NEW before \in AuditReports
  PROVE  /\ Plan(before).tasks \subseteq AllTasks(before)
         /\ Plan(before).truncated \/ Plan(before).tasks = AllTasks(before)
         /\ Plan(before).commands = before.commands
<1> DEFINE all == AllTasks(before)
           size == Min({MaxTasks, Cardinality(all)})
           w == [t \in all |-> 5 * t.priority + (4 - Rank[t.severity])]
           Top(kept) == /\ Cardinality(kept) = size
                        /\ \A t \in kept, u \in all \ kept : ~Outranks(u, t)
           plan == Plan(before)
<1>1. /\ plan.tasks = CHOOSE kept \in SUBSET all : Top(kept)
      /\ plan.truncated <=> Cardinality(all) > size
      /\ plan.commands = before.commands
  BY DEF Plan
<1>2. \A t \in all : /\ t.priority \in 0..100 /\ t.severity \in Severities
                     /\ Rank[t.severity] \in 0..4
  BY AllTasksHold DEF Ordered, Rank, Severities
<1>3. w \in [all -> 0..504]
  BY <1>2
<1>4. \A t, u \in all : Outranks(u, t) => w[u] > w[t]
  <2> SUFFICES ASSUME NEW t \in all, NEW u \in all, Outranks(u, t) PROVE w[u] > w[t]
    OBVIOUS
  <2>1. /\ w[t] = 5 * t.priority + (4 - Rank[t.severity])
        /\ w[u] = 5 * u.priority + (4 - Rank[u.severity])
    OBVIOUS
  <2>2. CASE u.priority > t.priority
    <3> HIDE DEF w, all
    <3>1. /\ Rank[u.severity] \in 0..4 /\ Rank[t.severity] \in 0..4
          /\ t.priority \in 0..100 /\ u.priority \in 0..100
      BY <1>2
    <3>2. \A p, q \in 0..100, r, s \in 0..4 : p > q => 5 * p + (4 - r) > 5 * q + (4 - s)
      OBVIOUS
    <3>3. 5 * u.priority + (4 - Rank[u.severity]) > 5 * t.priority + (4 - Rank[t.severity])
      BY <2>2, <3>1, <3>2
    <3> QED BY <2>1, <3>3
  <2>3. CASE u.priority = t.priority /\ u.severity # t.severity /\ AtLeast(u.severity, t.severity)
    <3>1. Rank[u.severity] # Rank[t.severity]
      BY <1>2, <2>3 DEF Rank, Severities
    <3> HIDE DEF w, all
    <3>2. Rank[u.severity] \in 0..4 /\ Rank[t.severity] \in 0..4 /\ t.priority \in 0..100
      BY <1>2
    <3>3. Rank[u.severity] < Rank[t.severity]
      BY <2>3, <3>1, <3>2 DEF AtLeast
    <3> QED BY <2>1, <2>3, <3>2, <3>3
  <2> QED BY <2>2, <2>3 DEF Outranks
<1>5. IsFiniteSet(all) /\ Cardinality(all) \in Nat
  BY AllTasksHold, FS_CardinalityType
<1>6. size \in 0..Cardinality(all)
  <2> HIDE DEF all
  <2>1. \E x \in {MaxTasks, Cardinality(all)} : \A y \in {MaxTasks, Cardinality(all)} : x =< y
    BY <1>5, RemediationBounds
  <2>2. size \in {MaxTasks, Cardinality(all)} /\ size <= Cardinality(all)
    BY <2>1 DEF Min
  <2> HIDE DEF size
  <2> QED BY <1>5, <2>2, RemediationBounds
<1> HIDE DEF all, size, w
<1>7. FirstExist(size, all, w)
  <2>1. 504 \in Nat
    OBVIOUS
  <2> QED BY <1>3, <1>5, <1>6, <2>1, FirstOnes
<1>8. PICK kept \in SUBSET all : Top(kept)
  <2>9. PICK kept \in SUBSET all : AreFirst(kept, size, all, w)
    BY <1>7 DEF FirstExist
  <2>1. \A t \in kept, u \in all \ kept : w[u] \in Nat /\ w[t] \in Nat
    BY <1>3
  <2> QED BY <1>4, <2>9, <2>1 DEF AreFirst
<1>9. plan.tasks \in SUBSET all /\ Cardinality(plan.tasks) = size
  <2> HIDE DEF plan
  <2> QED BY <1>1, <1>8
<1>10. CASE plan.truncated
  <2> HIDE DEF plan
  <2> QED BY <1>1, <1>9, <1>10 DEF all, plan
<1>11. CASE ~plan.truncated
  <2> HIDE DEF plan
  <2>1. Cardinality(all) = size
    BY <1>1, <1>5, <1>6, <1>11
  <2>2. plan.tasks = all
    BY <1>5, <1>9, <2>1, FS_Subset
  <2> QED BY <1>1, <2>2 DEF all, plan
<1> QED BY <1>10, <1>11

(* What a task is about can be told from its identity.                     *)
RuleOf(id) == IF id[1] = "upgrade_dependency" THEN "osv" ELSE id[2]

(* The identities of tasks of findings, and of controls.                   *)
LEMMA FoundTasksShareRules ==
  ASSUME NEW before \in AuditReports, NEW t \in FoundTasks(before)
  PROVE  /\ t.controls = {} /\ t.id[1] # "verify_control"
         /\ \E F \in SUBSET Unresolved(before) :
                /\ t.findings = FingerprintsOf(F)
                /\ \A f \in F : f.rule = RuleOf(t.id)
<1>1. Typed(ElementsOf(before.findings))
  BY ReportsAreTyped
<1>2. CASE t \in DependencyTasks(before)
  <2>1. PICK p \in {f.package : f \in AdvisoriesOf(before)} :
            t = DependencyTask(before, {f \in AdvisoriesOf(before) : f.package = p}, p)
    BY <1>2 DEF DependencyTasks
  <2> DEFINE F == {f \in AdvisoriesOf(before) : f.package = p}
  <2>2. F \in SUBSET Unresolved(before)
    BY DEF AdvisoriesOf
  <2>3. \A f \in F : f.rule = "osv"
    BY <1>1 DEF AdvisoriesOf, Unresolved, Typed
  <2> HIDE DEF F
  <2>4. t = DependencyTask(before, F, p)
    BY <2>1 DEF F
  <2>5. t.findings = FingerprintsOf(F) /\ t.controls = {}
    BY <2>4 DEF DependencyTask
  <2>6. t.id = <<"upgrade_dependency", p, {f.version : f \in F}>>
    BY <2>4 DEF DependencyTask
  <2>7. t.id[1] = "upgrade_dependency"
    BY <2>6
  <2>8. RuleOf(t.id) = "osv" /\ t.id[1] # "verify_control"
    BY <2>7 DEF RuleOf
  <2> QED BY <2>2, <2>3, <2>5, <2>8
<1>3. CASE t \in FindingTasks(before)
  <2> DEFINE others == Unresolved(before) \ AdvisoriesOf(before)
  <2>1. PICK g \in others :
            t = FindingTask({f \in others : FindingGroupKey(f) = FindingGroupKey(g)})
    BY <1>3 DEF FindingTasks
  <2> DEFINE F == {f \in others : FindingGroupKey(f) = FindingGroupKey(g)}
             h == CHOOSE f \in F : TRUE
  <2>2. F \in SUBSET Unresolved(before) /\ g \in F
    OBVIOUS
  <2>3. \A f \in F : FindingGroupKey(f) = FindingGroupKey(h)
    <3>1. h \in F
      BY <2>2
    <3> HIDE DEF h
    <3> QED BY <3>1
  <2>4. t = FindingTask(F)
    BY <2>1
  <2> HIDE DEF F, h
  <2>5. t.findings = FingerprintsOf(F) /\ t.controls = {} /\ t.id = FindingGroupKey(h)
    BY <2>4 DEF FindingTask, h
  <2>6. \A f \in F : f.rule = t.id[2]
    BY <2>3, <2>5 DEF FindingGroupKey
  <2>7. t.id[1] = FindingTaskKind(h)
    BY <2>5 DEF FindingGroupKey
  <2>8. t.id[1] # "upgrade_dependency" /\ t.id[1] # "verify_control"
    BY <2>7 DEF FindingTaskKind
  <2>9. RuleOf(t.id) = t.id[2]
    BY <2>8 DEF RuleOf
  <2> QED BY <2>2, <2>5, <2>6, <2>8, <2>9
<1> QED BY <1>2, <1>3 DEF FoundTasks

(* Every finding that is not resolved is in a task.                        *)
LEMMA UnresolvedHaveTasks ==
  ASSUME NEW before, NEW f \in Unresolved(before)
  PROVE  \E t \in FoundTasks(before) : f.fingerprint \in t.findings
<1>1. CASE f \in AdvisoriesOf(before)
  <2> DEFINE F == {g \in AdvisoriesOf(before) : g.package = f.package}
             t == DependencyTask(before, F, f.package)
  <2>1. t \in DependencyTasks(before)
    BY <1>1 DEF DependencyTasks
  <2>2. t.findings = FingerprintsOf(F)
    <3> HIDE DEF F
    <3> QED BY DEF DependencyTask
  <2>3. f.fingerprint \in FingerprintsOf(F)
    BY <1>1 DEF FingerprintsOf
  <2> HIDE DEF t
  <2> QED BY <2>1, <2>2, <2>3 DEF FoundTasks
<1>2. CASE f \notin AdvisoriesOf(before)
  <2> DEFINE others == Unresolved(before) \ AdvisoriesOf(before)
             F == {g \in others : FindingGroupKey(g) = FindingGroupKey(f)}
             t == FindingTask(F)
  <2>1. t \in FindingTasks(before)
    BY <1>2 DEF FindingTasks
  <2>2. t.findings = FingerprintsOf(F)
    <3> HIDE DEF F
    <3> QED BY DEF FindingTask
  <2>3. f.fingerprint \in FingerprintsOf(F)
    BY <1>2 DEF FingerprintsOf
  <2> HIDE DEF t
  <2> QED BY <2>1, <2>2, <2>3 DEF FoundTasks
<1> QED BY <1>1, <1>2

(* A control waits for tasks of the findings that are its gaps.            *)
LEMMA ControlsWaitForGaps ==
  ASSUME NEW before \in AuditReports, NEW t \in AllTasks(before), NEW id \in t.dependsOn
  PROVE  \E c \in before.controls, w \in FoundTasks(before) :
            /\ t.controls = {c.id}
            /\ w.id = id /\ w.findings \cap c.gaps # {}
<1>1. t \in FoundTasks(before) \/ t \in ControlTasks(before)
  BY AllTasksHold
<1>2. CASE t \in ControlTasks(before)
  <2>1. PICK c \in before.controls : t = ControlTask(c, FoundTasks(before))
    BY <1>2 DEF ControlTasks
  <2>2. /\ t.controls = {c.id}
        /\ t.dependsOn = {w.id : w \in {u \in FoundTasks(before) : u.findings \cap c.gaps # {}}}
    BY <2>1 DEF ControlTask
  <2> QED BY <2>2
<1>3. CASE t \in DependencyTasks(before)
  <2>1. PICK F, p : t = DependencyTask(before, F, p)
    BY <1>3 DEF DependencyTasks
  <2>2. t.dependsOn = {}
    BY <2>1 DEF DependencyTask
  <2> QED BY <2>2
<1>4. CASE t \in FindingTasks(before)
  <2>1. PICK F : t = FindingTask(F)
    BY <1>4 DEF FindingTasks
  <2>2. t.dependsOn = {}
    BY <2>1 DEF FindingTask
  <2> QED BY <2>2
<1> QED BY <1>1, <1>2, <1>3, <1>4 DEF FoundTasks

-----------------------------------------------------------------------------
(* Remediation: what a finalization concludes.                             *)
Verified(before, evidence) ==
    \A kind \in {"test", "build"} :
        ProjectCheck(Plan(before), evidence, kind) \in {"none declared", "passed"}

LEMMA ReportsAreAlike ==
  ASSUME NEW before \in AuditReports, NEW after \in AuditReports
  PROVE  /\ \A f \in ElementsOf(before.findings), g \in ElementsOf(after.findings) :
                f.fingerprint = g.fingerprint \/ f.key = g.key => f.rule = g.rule
         /\ \A c \in before.controls, d \in after.controls :
                c.id = d.id /\ d.status = "EVIDENCED" =>
                    \A f \in ElementsOf(before.findings), g \in ElementsOf(after.findings) :
                        f.fingerprint \in c.gaps => g.rule # f.rule
<1>1. PICK A \in Audited : before.findings = A.findings /\ before.controls = A.controls
  BY DEF AuditReports
<1>2. PICK B \in Audited : after.findings = B.findings /\ after.controls = B.controls
  BY DEF AuditReports
<1>3. \A f \in ElementsOf(A.findings), g \in ElementsOf(B.findings) :
        f.fingerprint = g.fingerprint \/ f.key = g.key => f.rule = g.rule
  BY IdentitiesAssumption
<1>4. \A c \in A.controls, d \in B.controls : c.id = d.id /\ d.status = "EVIDENCED" =>
        \A f \in ElementsOf(A.findings), g \in ElementsOf(B.findings) :
            f.fingerprint \in c.gaps => g.rule # f.rule
  BY ControlsAssumption
<1> QED BY <1>1, <1>2, <1>3, <1>4

LEMMA ResultsHaveTasks ==
  ASSUME NEW before, NEW after, NEW evidence, NEW r, r = Result(before, after, evidence)
  PROVE  /\ r.before = before /\ r.after = after
         /\ r.truncated = Plan(before).truncated /\ r.new = NewFindings(before, after)
         /\ \A t \in r.tasks :
                /\ t.task \in Plan(before).tasks
                /\ t.remaining = {f \in t.task.findings : Remains(f, before, after)}
                /\ t.outcome = "resolved" <=> /\ t.remaining = {}
                                              /\ ControlsResolved(t.task, after)
                                              /\ Verified(before, evidence)
         /\ \A task \in Plan(before).tasks : \E t \in r.tasks : t.task = task
<1> DEFINE plan == Plan(before)
           T(task) == TaskResult(task, plan, before, after, evidence)
<1>1. /\ r.before = before /\ r.after = after
      /\ r.truncated = plan.truncated /\ r.new = NewFindings(before, after)
      /\ r.tasks = {T(task) : task \in plan.tasks}
  BY DEF Result
<1>2. ASSUME NEW task
      PROVE  /\ T(task).task = task
             /\ T(task).remaining = {f \in task.findings : Remains(f, before, after)}
             /\ T(task).outcome = "resolved" <=>
                    /\ T(task).remaining = {}
                    /\ ControlsResolved(task, after) /\ Verified(before, evidence)
  <2> DEFINE remaining == {f \in task.findings : Remains(f, before, after)}
             gone == remaining = {} /\ ControlsResolved(task, after)
             verified == Verified(before, evidence)
  <2>1. T(task) = [task |-> task, remaining |-> remaining,
                   control |-> ControlsResolved(task, after),
                   outcome |-> IF gone /\ verified THEN "resolved"
                               ELSE IF gone \/ remaining # task.findings THEN "partial"
                               ELSE "remaining"]
    BY DEF TaskResult, Verified
  <2> HIDE DEF T, remaining
  <2>2. T(task).task = task /\ T(task).remaining = remaining
    BY <2>1
  <2>3. T(task).outcome = IF gone /\ verified THEN "resolved"
                          ELSE IF gone \/ remaining # task.findings THEN "partial"
                          ELSE "remaining"
    BY <2>1
  <2>4. T(task).outcome = "resolved" <=> gone /\ verified
    BY <2>3
  <2> QED BY <2>2, <2>4 DEF remaining
<1> HIDE DEF T
<1>3. \A t \in r.tasks : \E task \in plan.tasks : t = T(task)
  BY <1>1
<1>4. \A task \in plan.tasks : T(task) \in r.tasks
  BY <1>1
<1>5. \A t \in r.tasks :
        /\ t.task \in plan.tasks
        /\ t.remaining = {f \in t.task.findings : Remains(f, before, after)}
        /\ t.outcome = "resolved" <=> /\ t.remaining = {}
                                      /\ ControlsResolved(t.task, after)
                                      /\ Verified(before, evidence)
  <2> TAKE t \in r.tasks
  <2>1. PICK task \in plan.tasks : t = T(task)
    BY <1>3
  <2>2. t.task = task
    BY <1>2, <2>1
  <2> QED BY <1>2, <2>1, <2>2
<1>6. \A task \in plan.tasks : \E t \in r.tasks : t.task = task
  BY <1>2, <1>4
<1> QED BY <1>1, <1>5, <1>6

(* What is verified was run, on the tree of the later audit.               *)
LEMMA VerifiedRanWell ==
  ASSUME NEW before \in AuditReports, NEW after \in AuditReports,
         NEW evidence \in {{}} \cup {{l} : l \in ledgers},
         \A l \in evidence : Accepts(l, before, after),
         NEW r, r = Result(before, after, evidence), Verified(before, evidence)
  PROVE  RanWell(r)
<1> DEFINE plan == Plan(before)
           Ran(c) == \E l \in evidence : c \in Applied(l, plan)
           Failed(c) == \E l \in evidence : c \in Applied(l, plan) /\ ~l.passed[c]
           Declared(kind) == {c \in plan.commands : c.kind = kind}
<1>1. r.before = before /\ r.after = after
  BY ResultsHaveTasks
<1>2. \A c \in plan.commands : c.kind \in {"test", "build"}
  BY ReportsAreTyped, PlansTell
<1>3. ASSUME NEW c \in plan.commands PROVE Ran(c) /\ ~Failed(c)
  <2> DEFINE declared == Declared(c.kind)
             check == ProjectCheck(plan, evidence, c.kind)
  <2>1. check \in {"none declared", "passed"}
    BY <1>2 DEF Verified
  <2>2. check = IF declared = {} THEN "none declared"
                ELSE IF \E d \in declared : Failed(d) THEN "failed"
                ELSE IF \A d \in declared : Ran(d) THEN "passed" ELSE "not_run"
    BY DEF ProjectCheck
  <2>3. c \in declared
    OBVIOUS
  <2> HIDE DEF check, Ran, Failed, declared
  <2>4. ~(\E d \in declared : Failed(d)) /\ \A d \in declared : Ran(d)
    BY <2>1, <2>2, <2>3
  <2> QED BY <2>3, <2>4
<1>4. CASE plan.commands = {}
  BY <1>1, <1>4 DEF RanWell
<1>5. CASE plan.commands # {}
  <2>1. PICK c \in plan.commands : TRUE
    BY <1>5
  <2>2. PICK l \in evidence : TRUE
    BY <1>3
  <2>3. evidence = {l} /\ l \in ledgers
    BY <2>2
  <2>4. \A d \in plan.commands : d \in DOMAIN l.passed /\ l.passed[d]
    BY <1>3, <2>3 DEF Applied
  <2>5. l.before = Reference(before) /\ l.after = Reference(after) /\ l.plan = plan
    BY <2>2 DEF Accepts
  <2> QED BY <1>1, <2>3, <2>4, <2>5 DEF RanWell
<1> QED BY <1>4, <1>5

(* What is resolved is gone, and with an evidenced control all it waits for.*)
LEMMA ResolvedIsGone ==
  ASSUME NEW before, NEW after, NEW t, t.remaining = {},
         t.remaining = {f \in t.task.findings : Remains(f, before, after)},
         NEW f \in ElementsOf(before.findings), f.fingerprint \in t.task.findings
  PROVE  f.key \notin LifecycleKeys(after)
<1>1. ~Remains(f.fingerprint, before, after)
  OBVIOUS
<1> QED BY <1>1 DEF Remains

LEMMA EvidencedResolves ==
  ASSUME NEW before \in AuditReports, NEW after \in AuditReports, NEW evidence,
         NEW r, r = Result(before, after, evidence),
         NEW t \in r.tasks, t.outcome = "resolved",
         NEW u \in r.tasks, u.task.id \in t.task.dependsOn, Evidenced(t.task, after)
  PROVE  u.outcome = "resolved"
<1>1. t.task \in AllTasks(before) /\ u.task \in AllTasks(before)
  BY PlansTell, ResultsHaveTasks
<1>2. Verified(before, evidence)
  BY ResultsHaveTasks
<1>3. PICK c \in before.controls, w \in FoundTasks(before) :
        /\ t.task.controls = {c.id}
        /\ w.id = u.task.id /\ w.findings \cap c.gaps # {}
  BY <1>1, ControlsWaitForGaps
<1>4. PICK d \in after.controls : d.id = c.id /\ d.status = "EVIDENCED"
  BY <1>3 DEF Evidenced
<1>5. \A g \in ElementsOf(after.findings) : g.rule # RuleOf(w.id)
  <2>1. PICK F \in SUBSET Unresolved(before) : /\ w.findings = FingerprintsOf(F)
                                               /\ \A f \in F : f.rule = RuleOf(w.id)
    BY FoundTasksShareRules
  <2>2. PICK f \in F : f.fingerprint \in c.gaps
    BY <1>3, <2>1 DEF FingerprintsOf
  <2>3. f \in ElementsOf(before.findings)
    BY <2>1, <2>2 DEF Unresolved
  <2> QED BY <1>3, <1>4, <2>1, <2>2, <2>3, ReportsAreAlike
<1>6. u.task \in FoundTasks(before)
  <2>1. w.id[1] # "verify_control"
    BY FoundTasksShareRules
  <2>2. ASSUME u.task \in ControlTasks(before) PROVE FALSE
    <3>1. PICK e : u.task = ControlTask(e, FoundTasks(before))
      BY <2>2 DEF ControlTasks
    <3>2. u.task.id = <<"verify_control", e.id>>
      BY <3>1 DEF ControlTask
    <3>3. u.task.id[1] = "verify_control"
      BY <3>2
    <3> QED BY <1>3, <2>1, <3>3
  <2> QED BY <1>1, <2>2, AllTasksHold
<1>7. u.task.controls = {}
  BY <1>6, FoundTasksShareRules
<1>8. PICK F \in SUBSET Unresolved(before) : /\ u.task.findings = FingerprintsOf(F)
                                             /\ \A f \in F : f.rule = RuleOf(w.id)
  BY <1>3, <1>6, FoundTasksShareRules
<1>9. ASSUME NEW p \in u.task.findings PROVE ~Remains(p, before, after)
  <2> SUFFICES ASSUME NEW f \in ElementsOf(before.findings), f.fingerprint = p,
                      f.key \in LifecycleKeys(after)
               PROVE  FALSE
    BY DEF Remains
  <2>1. PICK h \in F : h.fingerprint = p
    BY <1>8 DEF FingerprintsOf
  <2>2. h \in ElementsOf(before.findings) /\ h.rule = RuleOf(w.id)
    BY <1>8, <2>1 DEF Unresolved
  <2>3. f.rule = h.rule
    BY <2>1, <2>2, ReportsAreAlike
  <2>4. PICK g \in ElementsOf(after.findings) : g.key = f.key
    BY DEF LifecycleKeys
  <2>5. g.rule = f.rule
    BY <2>4, ReportsAreAlike
  <2> QED BY <1>5, <2>2, <2>3, <2>5
<1>10. u.remaining = {}
  <2>1. u.remaining = {f \in u.task.findings : Remains(f, before, after)}
    BY ResultsHaveTasks
  <2> QED BY <1>9, <2>1
<1>11. ControlsResolved(u.task, after)
  BY <1>7 DEF ControlsResolved
<1> QED BY <1>2, <1>10, <1>11, ResultsHaveTasks

(* No finding gets lost.                                                   *)
LEMMA NothingIsLost ==
  ASSUME NEW before \in AuditReports, NEW after \in AuditReports, NEW evidence,
         NEW r, r = Result(before, after, evidence), ~r.truncated,
         NEW f \in ElementsOf(after.findings), f \notin r.new,
         NEW g \in ElementsOf(before.findings), g.key = f.key, ~Resolved(g)
  PROVE  \E t \in r.tasks : g.fingerprint \in t.remaining /\ t.outcome # "resolved"
<1>1. PICK task \in FoundTasks(before) : g.fingerprint \in task.findings
  <2>1. g \in Unresolved(before)
    BY DEF Unresolved
  <2> QED BY <2>1, UnresolvedHaveTasks
<1>2. task \in Plan(before).tasks
  <2>1. Plan(before).tasks = AllTasks(before)
    BY PlansTell, ResultsHaveTasks
  <2> QED BY <1>1, <2>1, AllTasksHold
<1>3. PICK t \in r.tasks : t.task = task
  BY <1>2, ResultsHaveTasks
<1>4. Remains(g.fingerprint, before, after)
  BY DEF Remains, LifecycleKeys
<1>5. t.remaining = {p \in task.findings : Remains(p, before, after)}
  BY <1>3, ResultsHaveTasks
<1>6. g.fingerprint \in t.remaining
  BY <1>1, <1>4, <1>5
<1>7. t.outcome # "resolved"
  BY <1>6, ResultsHaveTasks
<1> QED BY <1>6, <1>7

(* Every control waits for tasks of the plan.                              *)
LEMMA AwaitedAreThere ==
  ASSUME NEW before \in AuditReports, NEW after, NEW evidence,
         NEW r, r = Result(before, after, evidence), ~r.truncated,
         NEW t \in r.tasks, NEW id \in t.task.dependsOn
  PROVE  \E u \in r.tasks : u.task.id = id
<1>1. Plan(before).tasks = AllTasks(before)
  BY PlansTell, ResultsHaveTasks
<1>2. t.task \in AllTasks(before)
  BY <1>1, ResultsHaveTasks
<1>3. PICK w \in FoundTasks(before) : w.id = id
  BY <1>2, ControlsWaitForGaps
<1>4. w \in Plan(before).tasks
  BY <1>1, AllTasksHold
<1> QED BY <1>3, <1>4, ResultsHaveTasks

(* What is finalized is the result of two reports, with at most one ledger *)
(* that was written for them.                                              *)
Grounded(r) ==
    \E before, after \in AuditReports, evidence \in {{}} \cup {{l} : l \in ledgers} :
        /\ \A l \in evidence : Accepts(l, before, after)
        /\ r = Result(before, after, evidence)

RemediationInv ==
    /\ stored \in Seq(AuditReports)
    /\ \A r \in finalized : Grounded(r)

LEMMA GroundedIsEarned == ASSUME RemediationInv PROVE RemediesAreEarned
<1> SUFFICES ASSUME NEW r \in finalized
             PROVE  /\ \A t \in r.tasks : t.outcome = "resolved" =>
                        /\ RanWell(r)
                        /\ \A f \in ElementsOf(r.before.findings) :
                                f.fingerprint \in t.task.findings =>
                                    f.key \notin LifecycleKeys(r.after)
                        /\ \A u \in r.tasks : u.task.id \in t.task.dependsOn
                                                /\ Evidenced(t.task, r.after) =>
                                                    u.outcome = "resolved"
                    /\ \A f \in ElementsOf(r.after.findings) \ r.new :
                        \/ r.truncated
                        \/ \E t \in r.tasks : \E g \in ElementsOf(r.before.findings) :
                                /\ g.key = f.key /\ g.fingerprint \in t.remaining
                                /\ t.outcome # "resolved"
                        \/ \A g \in ElementsOf(r.before.findings) : g.key = f.key => Resolved(g)
                    /\ \A t \in r.tasks : r.truncated \/
                            t.task.dependsOn \subseteq {u.task.id : u \in r.tasks}
  BY DEF RemediesAreEarned
<1>1. PICK before \in AuditReports, after \in AuditReports,
           evidence \in {{}} \cup {{l} : l \in ledgers} :
        /\ \A l \in evidence : Accepts(l, before, after)
        /\ r = Result(before, after, evidence)
  BY DEF RemediationInv, Grounded
<1>2. r.before = before /\ r.after = after
  BY <1>1, ResultsHaveTasks
<1>3. ASSUME NEW t \in r.tasks, t.outcome = "resolved"
      PROVE  /\ RanWell(r)
             /\ \A f \in ElementsOf(before.findings) :
                    f.fingerprint \in t.task.findings => f.key \notin LifecycleKeys(after)
             /\ \A u \in r.tasks : u.task.id \in t.task.dependsOn /\ Evidenced(t.task, after) =>
                    u.outcome = "resolved"
  <2>1. /\ t.remaining = {} /\ Verified(before, evidence)
        /\ t.remaining = {f \in t.task.findings : Remains(f, before, after)}
    BY <1>1, <1>3, ResultsHaveTasks
  <2>2. RanWell(r)
    BY <1>1, <2>1, VerifiedRanWell
  <2>3. \A f \in ElementsOf(before.findings) :
            f.fingerprint \in t.task.findings => f.key \notin LifecycleKeys(after)
    BY <2>1, ResolvedIsGone
  <2>4. \A u \in r.tasks : u.task.id \in t.task.dependsOn /\ Evidenced(t.task, after) =>
            u.outcome = "resolved"
    BY <1>1, <1>3, EvidencedResolves
  <2> QED BY <2>2, <2>3, <2>4
<1>4. ASSUME NEW f \in ElementsOf(after.findings) \ r.new, ~r.truncated
      PROVE  \/ \E t \in r.tasks : \E g \in ElementsOf(before.findings) :
                    g.key = f.key /\ g.fingerprint \in t.remaining /\ t.outcome # "resolved"
             \/ \A g \in ElementsOf(before.findings) : g.key = f.key => Resolved(g)
  <2> SUFFICES ASSUME NEW g \in ElementsOf(before.findings), g.key = f.key, ~Resolved(g)
               PROVE  \E t \in r.tasks : g.fingerprint \in t.remaining /\ t.outcome # "resolved"
    OBVIOUS
  <2> QED BY <1>1, <1>4, NothingIsLost
<1>5. ASSUME NEW t \in r.tasks, ~r.truncated
      PROVE  t.task.dependsOn \subseteq {u.task.id : u \in r.tasks}
  BY <1>1, <1>5, AwaitedAreThere
<1> QED BY <1>2, <1>3, <1>4, <1>5

LEMMA RemediationInitially == ASSUME RemediationInit PROVE RemediationInv
  BY DEF RemediationInit, RemediationInv

LEMMA RemediationStep ==
  ASSUME RemediationInv, [RemediationNext]_remediationVars PROVE RemediationInv'
<1>1. Stored \subseteq AuditReports
  BY DEF RemediationInv, Stored, ElementsOf
<1>2. CASE \E content \in Audited : StoreAudit(content)
  <2>1. PICK content \in Audited : StoreAudit(content)
    BY <1>2
  <2> DEFINE added == [audit |-> Len(stored) + 1, project |-> content.project,
                        tree |-> content.tree, findings |-> content.findings,
                        controls |-> content.controls, commands |-> content.commands]
  <2>2. added \in AuditReports
    <3>1. Len(stored) + 1 \in Nat
      BY DEF RemediationInv
    <3> QED BY <3>1 DEF AuditReports
  <2>3. stored' = Append(stored, added) /\ UNCHANGED <<ledgers, finalized>>
    BY <2>1 DEF StoreAudit
  <2> HIDE DEF added
  <2>4. stored' \in Seq(AuditReports)
    BY <2>2, <2>3 DEF RemediationInv
  <2>5. \A r \in finalized' : Grounded(r)'
    BY <2>3 DEF RemediationInv, Grounded
  <2> QED BY <2>4, <2>5 DEF RemediationInv
<1>3. CASE \E before, after \in Stored, C \in SUBSET Scripts : \E passed \in [C -> BOOLEAN] :
                RunCommands(before, after, passed)
  <2>1. ledgers \subseteq ledgers' /\ UNCHANGED <<stored, finalized>>
    BY <1>3 DEF RunCommands
  <2>2. ASSUME NEW r \in finalized' PROVE Grounded(r)'
    <3>1. PICK before \in AuditReports, after \in AuditReports,
               evidence \in {{}} \cup {{l} : l \in ledgers} :
            /\ \A l \in evidence : Accepts(l, before, after)
            /\ r = Result(before, after, evidence)
      BY <2>1 DEF RemediationInv, Grounded
    <3>2. evidence \in {{}} \cup {{l} : l \in ledgers'}
      BY <2>1
    <3> QED BY <3>1, <3>2 DEF Grounded
  <2> QED BY <2>1, <2>2 DEF RemediationInv
<1>4. CASE \E before, after \in Stored, evidence \in {{}} \cup {{l} : l \in ledgers} :
                FinalizeRemediation(before, after, evidence)
  <2>1. PICK before \in Stored, after \in Stored, evidence \in {{}} \cup {{l} : l \in ledgers} :
                FinalizeRemediation(before, after, evidence)
    BY <1>4
  <2>2. /\ \A l \in evidence : Accepts(l, before, after)
        /\ finalized' = {Result(before, after, evidence)}
        /\ UNCHANGED <<stored, ledgers>>
    BY <2>1 DEF FinalizeRemediation
  <2>3. before \in AuditReports /\ after \in AuditReports
    BY <1>1
  <2>4. \A r \in finalized' : Grounded(r)'
    BY <2>2, <2>3 DEF Grounded
  <2> QED BY <2>2, <2>4 DEF RemediationInv
<1>5. CASE UNCHANGED remediationVars
  BY <1>5 DEF remediationVars, RemediationInv, Grounded
<1> QED BY <1>2, <1>3, <1>4, <1>5 DEF RemediationNext

(* No correction is called done that nobody verified: a task of a result   *)
(* is resolved only if what it is about is gone, and every test and build  *)
(* passed on the tree of the later audit; and no finding gets lost between *)
(* two audits (buildRemediationPlan and buildRemediationResult of          *)
(* domain/remediation.ts, evaluateVerificationLedger).                     *)
THEOREM RemediesHold == RemediationSpec => []RemediesAreEarned
<1>1. RemediationInit => RemediationInv
  BY RemediationInitially
<1>2. RemediationInv /\ [RemediationNext]_remediationVars => RemediationInv'
  BY RemediationStep
<1>3. RemediationInv => RemediesAreEarned
  BY GroundedIsEarned
<1> QED BY <1>1, <1>2, <1>3, PTL DEF RemediationSpec
=============================================================================
