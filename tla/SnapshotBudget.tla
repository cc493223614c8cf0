--------------------------- MODULE SnapshotBudget ---------------------------
(***************************************************************************)
(* What a snapshot of a project holds (src/security/paths.ts): the         *)
(* estimate that is made before an audit and the capture the audit works   *)
(* on walk the same tree under the same limits, and compare with them in   *)
(* different ways.                                                         *)
(*                                                                         *)
(* A tree is the sequence of its directory entries in the order in which   *)
(* both walk it (captureOrder, then names; a directory before what is in   *)
(* it), and the two coverage artifacts, which are taken from an excluded   *)
(* directory by name.  An entry has a kind and a size in bytes.            *)
(***************************************************************************)
EXTENDS Naturals, Sequences, SequencesExt

CONSTANT Limits     \* snapshotLimits and the bound of visited entries:
                    \* [files, perFile, perLockfile, total, entries]

ASSUME LimitsAssumption ==
    Limits \in [{"files", "perFile", "perLockfile", "total", "entries"} -> Nat \ {0}]

(* The kinds of entries, by what the walks make of them.                   *)
Text == {"source", "lockfile"}      \* supported, and captured if they fit
Awkward == {"binary",               \* supported by its name, holds a NUL
            "locked",               \* can be listed, cannot be opened
            "growing"}              \* its size changes while it is read
Supported == Text \cup Awkward
Kinds == Supported \cup {"other",   \* a link, or excluded by name or by rule
                         "dir",     \* a directory that is walked
                         "deep",    \* a directory below the depth limit
                         "closed"}  \* a directory that cannot be listed

Entries(sizes) == [kind : Kinds, size : sizes]

FileLimit(e) == IF e.kind = "lockfile" THEN Limits.perLockfile ELSE Limits.perFile

-----------------------------------------------------------------------------
(* estimateProjectScope.                                                   *)

NothingSeen ==
    [files |-> 0, bytes |-> 0, oversized |-> 0, visited |-> 0, reasons |-> {}]

(* One entry of the walk; an exceeded bound of entries ends all of it.     *)
EstimateEntry(seen, e) ==
    IF "entry-limit" \in seen.reasons THEN seen
    ELSE IF seen.visited = Limits.entries
    THEN [seen EXCEPT !.reasons = @ \cup {"entry-limit"}]
    ELSE [files     |-> seen.files + (IF e.kind \in Supported THEN 1 ELSE 0),
          bytes     |-> seen.bytes + (IF e.kind \in Supported THEN e.size ELSE 0),
          oversized |-> seen.oversized +
                (IF e.kind \in Supported /\ e.size > FileLimit(e) THEN 1 ELSE 0),
          visited   |-> seen.visited + 1,
          reasons   |-> seen.reasons \cup
                (CASE e.kind = "deep"   -> {"depth-limit"}
                   [] e.kind = "closed" -> {"unreadable-entry"}
                   [] OTHER             -> {})]

(* A coverage artifact counts whatever room is left.                       *)
EstimateArtifact(seen, a) ==
    [seen EXCEPT !.files = @ + 1,
                 !.bytes = @ + a.size,
                 !.oversized = @ + (IF a.size > Limits.perFile THEN 1 ELSE 0)]

Estimate(tree) ==
    LET walked == FoldLeft(EstimateEntry, NothingSeen, tree.entries)
        seen == FoldLeft(EstimateArtifact, walked, tree.artifacts)
    IN  [seen EXCEPT !.reasons = @
            \cup (IF seen.files > Limits.files THEN {"file-count-limit"} ELSE {})
            \cup (IF seen.bytes > Limits.total THEN {"total-byte-limit"} ELSE {})
            \cup (IF seen.oversized > 0 THEN {"per-file-byte-limit"} ELSE {})]

PredictedTruncated(tree) == Estimate(tree).reasons # {}

-----------------------------------------------------------------------------
(* captureSnapshot.                                                        *)

NothingCaptured ==
    [files |-> <<>>, bytes |-> 0, visited |-> 0, truncated |-> FALSE,
     stopped |-> FALSE, failed |-> FALSE]

(* Is a budget used up?  The walk asks before each entry, of any kind.     *)
Exhausted(c) == Len(c.files) >= Limits.files \/ c.bytes >= Limits.total

Truncated(c) == [c EXCEPT !.truncated = TRUE]

Captured(c, e) == [c EXCEPT !.files = Append(@, e), !.bytes = @ + e.size]

(* A supported file is opened, measured, read and looked at, in this order. *)
CaptureFile(c, e) ==
    IF \/ e.kind = "locked"
       \/ e.size > FileLimit(e)
       \/ c.bytes + e.size > Limits.total
       \/ e.kind = "growing"
    THEN Truncated(c)
    ELSE IF e.kind = "binary" THEN c ELSE Captured(c, e)

CaptureEntry(c, e) ==
    IF c.stopped \/ c.failed THEN c
    ELSE IF c.visited = Limits.entries \/ Exhausted(c)
    THEN [Truncated(c) EXCEPT !.stopped = TRUE]
    ELSE LET visited == [c EXCEPT !.visited = @ + 1] IN
         CASE e.kind = "deep"          -> Truncated(visited)
           [] e.kind = "closed"        -> [visited EXCEPT !.failed = TRUE]
           [] e.kind \in Supported     -> CaptureFile(visited, e)
           [] OTHER                    -> visited

(* A coverage artifact that finds a budget used up is passed over.         *)
CaptureArtifact(c, a) ==
    IF c.failed \/ Exhausted(c) \/ a.kind = "locked" THEN c
    ELSE IF a.size > Limits.perFile \/ c.bytes + a.size > Limits.total \/ a.kind = "growing"
    THEN Truncated(c)
    ELSE IF a.kind = "binary" THEN c ELSE Captured(c, a)

Capture(tree) ==
    FoldLeft(CaptureArtifact, FoldLeft(CaptureEntry, NothingCaptured, tree.entries),
             tree.artifacts)

(* The limits hold whatever the tree is, and the snapshot is a selection   *)
(* of it.                                                                  *)
WithinLimits(c) ==
    /\ Len(c.files) <= Limits.files
    /\ c.bytes <= Limits.total
    /\ \A i \in DOMAIN c.files : c.files[i].size <= FileLimit(c.files[i])
=============================================================================
