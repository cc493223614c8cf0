---------------------------- MODULE ScannerCache ----------------------------
(***************************************************************************)
(* The directory of cached scan results (src/engine/scanner-cache.ts).     *)
(* The worker and every command line audit of one user share it, so that   *)
(* files may appear, change and vanish between any two steps of a scan.    *)
(*                                                                         *)
(* A key stands for the hash of the snapshot's digest, the scanner, its    *)
(* version (with the variant) and the workflow version; an entry repeats   *)
(* those fields.  readEntry is one step: a file that fails its stat is a   *)
(* miss, and what is read later is a whole file, since rename is atomic.   *)
(***************************************************************************)
EXTENDS Naturals, FiniteSets

CONSTANTS
    Digests,        \* digests of snapshots
    Scanners,       \* scanner identifiers
    Versions,       \* versions of a scanner
    MaxEntries      \* maximumCacheEntries

ASSUME MaxEntriesAssumption == MaxEntries \in Nat \ {0}

VARIABLE
    entries         \* the files <key>.json: [key -> what it holds, if any]

Keys == [digest : Digests, scanner : Scanners, version : Versions]

(* What is known of a scan: its status, and how its process ended.  A file *)
(* that does not parse is "damaged".                                       *)
Statuses == {"completed", "partial", "skipped", "failed"}
Values == [key : Keys, status : Statuses, ended : {"well", "badly"}]
Contents == [key : Keys, status : Statuses \cup {"damaged"}, ended : {"well", "badly"}]

AtMostOne(S) == {{}} \cup {{x} : x \in S}

CacheTypeOK == entries \in [Keys -> AtMostOne(Contents)]

CacheInit == entries = [k \in Keys |-> {}]

Present == {k \in Keys : entries[k] # {}}

(* Mutant: the version is neither hashed nor compared. *)
IdentityUnversioned(k) ==
    [k EXCEPT !.version = CHOOSE v \in Versions : TRUE]

(* The fields that are hashed into a file's name and compared when it is   *)
(* read: all of them.                                                      *)
Identity(k) == k

(* The values that readEntry may return: the file parses and is of this    *)
(* scan.                                                                   *)
ReadEntry(k) ==
    {v \in entries[Identity(k)] :
        v.status # "damaged" /\ Identity(v.key) = Identity(k)}

(* What was written under a temporary name becomes the entry at once.      *)
Rename(k, value) == entries' = [entries EXCEPT ![Identity(k)] = {value}]

(* pruneScannerCache keeps the newest entries, or gives up when another    *)
(* process removes a file while it looks at the directory.                 *)
PruneScannerCache ==
    \E keep \in SUBSET Present :
        /\ Cardinality(keep) = MaxEntries \/ keep = Present
        /\ entries' = [k \in Keys |-> IF k \in keep THEN entries[k] ELSE {}]

(* Another process prunes, or a person or a power loss damages a file.     *)
OtherUnlink(k) ==
    /\ k \in Present
    /\ entries' = [entries EXCEPT ![k] = {}]

Damage(k) ==
    /\ k \in Present
    /\ entries' = [entries EXCEPT
                     ![k] = {[key |-> k, status |-> "damaged", ended |-> "badly"]}]
=============================================================================
