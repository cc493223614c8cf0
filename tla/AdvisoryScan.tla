---------------------------- MODULE AdvisoryScan -----------------------------
(***************************************************************************)
(* The lookup of the advisories of resolved packages (src/scanners/osv.ts) *)
(* in the local advisory database or at the OSV service.  Audits and       *)
(* "advisories update" may look things up at the same time; each reads the *)
(* whole database when it begins and replaces the whole of it at its end.  *)
(*                                                                         *)
(* The service answers a batch of packages with a first page for each, and *)
(* tokens for further pages, which are asked for in batches as well.  Then *)
(* the details of each new advisory are fetched, and the advisories of a   *)
(* package that share an identifier are merged into groups.  An advisory   *)
(* is a value, a group is the set of the advisories that went into it, and *)
(* a list of groups is in the order in which they were made.               *)
(***************************************************************************)
EXTENDS Naturals, Sequences, FiniteSets, SequencesExt

CONSTANTS
    Lookups,            \* the processes that look advisories up
    Dependencies,
    Lockfiles,          \* the lists of packages that the lockfiles of a project resolve
    Advisories,
    Affecting,          \* [Dependencies -> the advisories there may be for it]
    Identifiers,        \* [Advisories -> set of its id and aliases]
    Withdrawn,          \* advisories that were withdrawn
    Misnamed,           \* those whose id is not fit for a request
    Absent,
    MaxPackages,        \* packages that a lookup takes up
    BatchSize,          \* packages of a request
    PageSize,           \* the advisories of a page, at the service
    MaxPages,           \* pages of a package
    MaxPageRequests,    \* requests for further pages
    MaxAdvisories,      \* details that are fetched, and findings
    MaxAliases,         \* aliases of a group in a database that is accepted
    CacheHours,         \* hours for which an entry is fresh
    Horizon             \* bound of the clock

ASSUME LimitsOfLookups ==
    {MaxPackages, BatchSize, PageSize, MaxPages, MaxPageRequests, MaxAdvisories}
        \subseteq Nat \ {0}
ASSUME HoursAssumption == CacheHours \in Nat
ASSUME PackagesAssumption ==
    /\ Lockfiles \subseteq Seq(Dependencies)
    /\ IsFiniteSet(Advisories)

(* What the local database has for a package, and what was known of it.    *)
DatabaseEntries == [at : Nat, groups : Seq(SUBSET Advisories), knew : SUBSET Advisories]

ASSUME AbsentAssumption == Absent \notin DatabaseEntries

VARIABLES
    clock,              \* in hours
    known,              \* what the service knows: [package -> advisories]
    database,           \* the local advisory database: [package -> entry or Absent]
    lookup              \* what each process is at

advisoryVars == <<clock, known, database, lookup>>

Modes == {"local", "api", "refresh"}
LookupStages == {"idle", "ask", "page", "save", "report"}

NoEntries == [p \in Dependencies |-> Absent]

NoLookup == [stage |-> "idle", mode |-> "local", since |-> 0, locked |-> <<>>, packages |-> {},
         cache |-> NoEntries, records |-> NoEntries, missing |-> {}, asked |-> {}, pages |-> <<>>, knew |-> <<>>,
         pending |-> {}, requests |-> 0, details |-> {}, incomplete |-> FALSE]

AdvisoryInit ==
    /\ clock = CacheHours
    /\ known = [p \in Dependencies |-> {}]
    /\ database = NoEntries
    /\ lookup = [s \in Lookups |-> NoLookup]

Smaller(m, n) == IF m <= n THEN m ELSE n

(* The subsets of S with n elements, or S if it is no larger.              *)
UpTo(S, n) == {T \in SUBSET S : Cardinality(T) = Smaller(n, Cardinality(S))}

-----------------------------------------------------------------------------
(* consolidate: each record joins the first group it shares a name with.   *)
NamesOf(group) == UNION {Identifiers[a] : a \in group}

AddToGroups(groups, record) ==
    LET same == {i \in DOMAIN groups : NamesOf(groups[i]) \cap NamesOf(record) # {}}
    IN  IF record \subseteq Withdrawn THEN groups
        ELSE IF same = {} THEN Append(groups, record)
        ELSE [groups EXCEPT ![CHOOSE i \in same : \A j \in same : i <= j] = @ \cup record]

Consolidate(records) == FoldLeft(AddToGroups, <<>>, records)

(* The advisories that a list of groups tells of.                          *)
ToldBy(groups) == UNION {groups[i] : i \in DOMAIN groups}

(* Records come in the order of their pages, which is any order.           *)
Orders(advisories) == {[i \in DOMAIN o |-> {o[i]}] : o \in SetToSeqs(advisories)}

-----------------------------------------------------------------------------
(* readCache: a file that is missing, damaged, or beyond the limits of its *)
(* schema is a database without entries.                                   *)
Accepted(entries) ==
    \A p \in Dependencies : entries[p] # Absent =>
        \A i \in DOMAIN entries[p].groups :
            Cardinality(NamesOf(entries[p].groups[i])) <= MaxAliases + 1

CacheRead == {NoEntries} \cup (IF Accepted(database) THEN {database} ELSE {})

(* The entries that a lookup takes from the database.                      *)
Kept(entry, mode, since) ==
    /\ entry # Absent
    /\ mode = "local" \/ (mode = "api" /\ entry.at >= since)

Regrouped(entry) == [entry EXCEPT !.groups = Consolidate(@)]

(* The first packages are taken up, and nothing notes that there are more. *)
TakenUp(locked) == {locked[i] : i \in {j \in DOMAIN locked : j <= MaxPackages}}

(* Without a package, the lookup ends at once.                             *)
BeginLookup(s, mode) ==
    /\ lookup[s].stage = "idle"
    /\ \E locked \in Lockfiles, cache \in CacheRead, malformed \in BOOLEAN :
        LET since == clock - CacheHours
            packages == TakenUp(locked)
            kept == {p \in packages : Kept(cache[p], mode, since)}
            missing == IF mode = "local" THEN {} ELSE packages \ kept
        IN  lookup' = [lookup EXCEPT ![s] =
                [NoLookup EXCEPT !.stage = IF missing = {} THEN "report" ELSE "ask",
                             !.mode = mode, !.since = since,
                             !.locked = locked, !.packages = packages,
                             !.cache = cache,
                             !.records = [p \in Dependencies |->
                                IF p \in kept THEN Regrouped(cache[p]) ELSE Absent],
                             !.missing = missing,
                             !.incomplete = malformed]]
    /\ UNCHANGED <<clock, known, database>>

-----------------------------------------------------------------------------
(* The loop over the batches of the packages that are missing.             *)

(* Pages that the service may give for package p after those of seen.      *)
PagesAfter(p, seen) == UpTo(known[p] \ seen, PageSize)

AskBatch(s) ==
    /\ lookup[s].stage = "ask"
    /\ \E batch \in UpTo(lookup[s].missing, BatchSize) :
        \E first \in [batch -> SUBSET Advisories] :
            /\ \A p \in batch : first[p] \in PagesAfter(p, {})
            /\ lookup' = [lookup EXCEPT
                ![s].stage = "page",
                ![s].missing = @ \ batch,
                ![s].asked = @ \cup batch,
                ![s].knew = [p \in batch |-> known[p]],
                ![s].pages = first,
                ![s].pending = {[package |-> p, pages |-> 1] :
                                    p \in {q \in batch : first[q] # known[q]}}]
    /\ UNCHANGED <<clock, known, database>>

ListedIds(l) == UNION {l.pages[p] : p \in DOMAIN l.pages}

MorePages(l) ==
    /\ l.pending # {}
    /\ l.requests < MaxPageRequests
    /\ Cardinality(ListedIds(l)) < MaxAdvisories

(* Mutant: the cap of pages ends a lookup without a word.                  *)
PagedSilently(l, turn, next) ==
    LET more == {t \in turn : next[t.package] # known[t.package] \ l.pages[t.package]}
        allowed == {t \in more : t.pages + 1 < MaxPages}
    IN  [l EXCEPT !.requests = @ + 1,
                  !.pages = [p \in DOMAIN @ |-> @[p] \cup
                                IF p \in DOMAIN next THEN next[p] ELSE {}],
                  !.pending = (@ \ turn) \cup {[t EXCEPT !.pages = @ + 1] : t \in allowed}]

(* What a lookup becomes by the next pages of the packages whose turn it is. *)
Paged(l, turn, next) ==
    LET more == {t \in turn : next[t.package] # known[t.package] \ l.pages[t.package]}
        allowed == {t \in more : t.pages + 1 < MaxPages}
    IN  [l EXCEPT !.requests = @ + 1,
                  !.pages = [p \in DOMAIN @ |-> @[p] \cup
                                IF p \in DOMAIN next THEN next[p] ELSE {}],
                  !.pending = (@ \ turn) \cup {[t EXCEPT !.pages = @ + 1] : t \in allowed},
                  !.incomplete = @ \/ more # allowed]

AskPage(s) ==
    /\ lookup[s].stage = "page" /\ MorePages(lookup[s])
    /\ \E turn \in UpTo(lookup[s].pending, BatchSize) :
        \E next \in [{t.package : t \in turn} -> SUBSET Advisories] :
            /\ \A p \in DOMAIN next : next[p] \in PagesAfter(p, lookup[s].pages[p])
            /\ lookup' = [lookup EXCEPT ![s] = Paged(@, turn, next)]
    /\ UNCHANGED <<clock, known, database>>

(* The details of as many new advisories as are left are fetched, and the  *)
(* packages of the batch get their entries.                                *)
Store(s) ==
    /\ lookup[s].stage = "page" /\ ~MorePages(lookup[s])
    /\ LET l == lookup[s]
           candidates == ListedIds(l) \ l.details
       IN  \E ids \in UpTo(candidates, MaxAdvisories - Cardinality(l.details)) :
            LET details == l.details \cup (ids \ Misnamed) IN
            \E order \in [DOMAIN l.pages -> UNION {Orders(l.pages[p] \cap details) :
                                                        p \in DOMAIN l.pages}] :
                /\ \A p \in DOMAIN order : order[p] \in Orders(l.pages[p] \cap details)
                /\ LET entry(p) == [at |-> clock, groups |-> Consolidate(order[p]),
                                    knew |-> l.knew[p]]
                       With(entries) == [p \in Dependencies |->
                            IF p \in DOMAIN order THEN entry(p) ELSE entries[p]]
                   IN  lookup' = [lookup EXCEPT ![s] =
                        [l EXCEPT !.stage = IF l.missing = {} THEN "save" ELSE "ask",
                                  !.records = With(@), !.cache = With(@),
                                  !.details = details,
                                  !.pages = <<>>, !.knew = <<>>, !.pending = {},
                                  !.incomplete = @ \/ l.pending # {} \/ ids # candidates
                                                   \/ ids \cap Misnamed # {}]]
    /\ UNCHANGED <<clock, known, database>>

(* saveCache: the file is replaced by a rename.                            *)
SaveDatabase(s) ==
    /\ lookup[s].stage = "save"
    /\ database' = lookup[s].cache
    /\ lookup' = [lookup EXCEPT ![s].stage = "report", ![s].cache = NoEntries]
    /\ UNCHANGED <<clock, known>>

(* A request failed twice, timed out or was aborted, an answer was too     *)
(* large, malformed or of another length, or the database could not be     *)
(* written: the run is failed and has no findings.  Or the process dies.   *)
LookupFails(s) ==
    /\ lookup[s].stage \in {"ask", "page", "save"}
    /\ lookup' = [lookup EXCEPT ![s] = NoLookup]
    /\ UNCHANGED <<clock, known, database>>

-----------------------------------------------------------------------------
(* The run that a lookup ends with.                                        *)
Covered(l) == {p \in l.packages : l.records[p] # Absent}

Groups(l) == FoldSet(LAMBDA p, n : n + Len(l.records[p].groups), 0, Covered(l))

LookupStatus(l) ==
    IF l.packages = {}
    THEN IF l.incomplete THEN "failed" ELSE "skipped"
    ELSE IF l.mode = "local"
    THEN IF Covered(l) = {} THEN "skipped"
         ELSE IF Covered(l) # l.packages \/ l.incomplete \/ Groups(l) >= MaxAdvisories
         THEN "partial" ELSE "completed"
    ELSE IF l.incomplete \/ Groups(l) > MaxAdvisories THEN "partial" ELSE "completed"

EndLookup(s) ==
    /\ lookup[s].stage = "report"
    /\ lookup' = [lookup EXCEPT ![s] = NoLookup]
    /\ UNCHANGED <<clock, known, database>>

(* A process that is no member of Lookups saves a copy of the database     *)
(* that it read before some of the entries were in it.                     *)
Overwrite(lost) ==
    /\ database' = [p \in Dependencies |-> IF p \in lost THEN Absent ELSE database[p]]
    /\ UNCHANGED <<clock, known, lookup>>

(* The service learns of an advisory; an hour passes.                      *)
PublishAdvisory(p, a) ==
    /\ a \in Affecting[p] \ known[p]
    /\ known' = [known EXCEPT ![p] = @ \cup {a}]
    /\ UNCHANGED <<clock, database, lookup>>

Tick ==
    /\ clock < Horizon
    /\ clock' = clock + 1
    /\ UNCHANGED <<known, database, lookup>>

LookupStep(s) ==
    \/ \E mode \in Modes : BeginLookup(s, mode)
    \/ AskBatch(s) \/ AskPage(s) \/ Store(s) \/ SaveDatabase(s)
    \/ LookupFails(s) \/ EndLookup(s)

AdvisoryNext ==
    \/ \E s \in Lookups : LookupStep(s)
    \/ \E p \in Dependencies, a \in Advisories : PublishAdvisory(p, a)
    \/ \E lost \in SUBSET Dependencies : Overwrite(lost)
    \/ Tick

AdvisorySpec == AdvisoryInit /\ [][AdvisoryNext]_advisoryVars

-----------------------------------------------------------------------------
Ended(status) ==
    {lookup[s] : s \in {t \in Lookups :
        lookup[t].stage = "report" /\ LookupStatus(lookup[t]) = status}}

WholeEntry(entry) == entry.knew \ Withdrawn \subseteq ToldBy(entry.groups)

(* A run that is completed tells of every package that is locked: of one   *)
(* that it asked the service about, each advisory known then, however the  *)
(* pages fell; of the others what the database says, and with the network  *)
(* no older than the hours that were given, whoever wrote it.  The         *)
(* packages that a lookup leaves out in silence are excepted.              *)
AdvisoriesAreTold ==
    \A l \in Ended("completed") : \A i \in DOMAIN l.locked :
        LET p == l.locked[i]
        IN  i <= MaxPackages =>
                /\ l.records[p] # Absent
                /\ p \in l.asked => WholeEntry(l.records[p])
                /\ l.mode # "local" => l.records[p].at >= l.since
                /\ l.mode = "refresh" => p \in l.asked

(* What EDGE_CASES.md says of paginated queries: a lookup that exceeds a   *)
(* cap remains partial.                                                    *)
CutRemainsPartial ==
    \A l \in Ended("completed") : \A p \in l.packages :
        l.records[p] # Absent => WholeEntry(l.records[p])
=============================================================================
