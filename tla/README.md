# A TLA+ model of CodebaseScan

CodebaseScan audits a source tree on the machine of its user. A web UI queues
audits in a local SQLite database; a worker process claims them one at a time
and runs a pipeline of analysers and external scanners over a snapshot of the
project; a person then reviews the findings, grants exceptions and compares
audits. A command line runs the same pipeline without a database, gates on the
result, and finalizes corrections against an earlier audit.

This directory holds TLA+ modules of the parts that keep state, depend on
ordering or keep to limits, the TLC configurations that check them on small
instances, and theorems about them checked by TLAPS. `PROJECT.json` maps every
definition to the lines it models.

    tlc -workers 2 -config MCSafety.cfg MCAuditService     (each .cfg likewise; PROJECT.json
                                                            names the module of each run)
    tlapm AuditServiceProofs.tla                           (each *Proofs.tla likewise)

## 1. Inventory

### Components

| Component | Source | State | Operations | What makes it correct | Modules |
| --- | --- | --- | --- | --- | --- |
| Audit store | `server/store.ts` | tables `projects`, `audits`, `worker_lock`, `project_suppressions`, `report_revisions`, `events` | enqueue, claim, saveProgress, transition, publish, cancel, acquireWorker, releaseWorker, reviewFinding, reviewControl, suppressFinding, removeSuppression, setProjectBaseline | one active audit per project; rows never get stuck; settled rows stay settled; the revision list is the whole history of a report | AuditStore, AuditLifecycle, ReportReviews |
| Worker process | `worker/main.ts`, `engine/run.ts` | `activeId`, `active`, `stopping`, the heartbeat timer | start, claim loop, signals, catch, exit | one worker; every claimed audit settles; a cancelled audit is left alone; a stop ends it | AuditService |
| Web routes | `app/api/**` | none | GET, POST dispatch to the store, estimate, queue | each request is one store operation; what is queued was approved | AuditService, ReportReviews, AuditWorkspace, NewAudit |
| User interface | `components/audit-workspace.tsx`, `new-audit.tsx` | the audit that is shown, requests under way | poll, act and refresh, estimate, approve, queue | the page keeps up; an approval is informed | AuditWorkspace, NewAudit |
| Deterministic pipeline | `engine/deterministic-pipeline.ts` | the merged state, the completed nodes, the round | addNode, addEdge, compile, invoke | dependencies first; merge order independent of timing; never hangs | DeterministicPipeline |
| Audit pipeline | `engine/audit-pipeline.ts` | `AuditState`: snapshot, profile, findings, runs | 28 nodes, `mergeRuns`, `prepare_report` | no node reads what is not written; report last; coverage says what was cut | AuditPipeline, AuditAnalysis |
| Scanner cache | `engine/scanner-cache.ts` | files of a cache directory | read, write, prune, runCachedScan | a hit is what this scan would produce; a broken cache costs time only | ScannerCache, ScannerRun |
| Subprocess runner | `security/process.ts` | a promise, a timer, a child | spawn, abort, time out, close | settled once; the child never outlives it | ScannerProcess, ScannerRun |
| External scanners | `scanners/external.ts`, `mechanical.ts`, `quality.ts` | a staging directory | stage, run, normalise, clean up | no failure looks like a clean result; staging is removed; what is cut is told | ScannerRun, Mechanical |
| Source snapshot | `security/paths.ts` | budgets of files, bytes, entries, depth | estimate, capture | what is left out is told; a partial capture was announced | SnapshotBudget |
| Static report, server | `reporting/static-report.ts`, `report-server.ts` | a directory of artifacts and its manifest | write, verify, serve | the manifest describes what is there; nothing stale remains | ReportPackage |
| Command line | `cli/main.ts`, `engine/ephemeral-audit-store.ts` | report directory, ledgers | audit, finalize, review, suppress, gates | no unearned exit code 0 | AuditCommand |
| Advisories, HTTP probe | `scanners/osv.ts`, `http-probe.ts`, `security/url-policy.ts` | a database of advisories; requests | look up with pages and caps; probe with redirects | stale data is never fresh; no connection leaves what was approved (with the exception in section 5) | AdvisoryScan, HttpProbe |
| Findings | `domain/findings.ts`, `comparison.ts`, `coverage.ts`, ... | none | identity, merge, compare | merging is stable; comparisons partition | Gates, AuditAnalysis |
| Gates and ledgers | `domain/policy.ts`, `ci.ts`, `*-ledger.ts` | ledgers beside a report | decide, apply, validate | a gate never passes what its profile blocks | Gates, Ledgers |
| Checklist, remediation, risk | `domain/checklist.ts`, `remediation.ts`, `risk-paths.ts`, `project-graph.ts` | none | aggregate, plan, finalize | nothing is evidenced or resolved without evidence | Checklist, CallGraph, Remediation |
| Source analysers | `scanners/*-security.ts`, `project-profile.ts`, `inventory.ts`, ... | lists up to limits | inspect source text and lockfiles | nothing is cut without a word; ways and chains are real | Analysers, SourceTaint, CallGraph, ProjectProfile, Inventory |
| Contract and posture analysers | `scanners/*-contract.ts`, `feature-flags.ts`, `test-evidence.ts`, ... | lists up to limits | compare declarations with uses | a limit makes no gap and hides none | Contracts, Analysers |
| Rendering, schemas | `domain/reports.ts`, `report-schema.ts`, ... | none | format, parse | a report that is made is a report that is accepted | Contracts (the bounds of some summaries) |

### How they interact

The routes, the command line and the worker are separate operating system
processes. The routes and the worker share the database and nothing else: every
method of `AuditStore` is one synchronous statement or transaction, and between
two of them any other process may run. Inside a worker everything is
single-threaded; signal handlers and the heartbeat timer run only where the code
awaits. The worker calls the pipeline, the pipeline calls analysers (plain
functions), external scanners (subprocesses), the cache (files) and, in its last
node, the store. The heartbeat timer tells the pipeline about a cancellation
through an `AbortController`. Command line audits share the cache, the database
of advisories, report directories and ledgers with whoever else runs. The page
talks to the routes in requests that may overtake each other.

### What is hard

- Two workers may start at once; the lock row of a dead one names a pid that
  may belong to another process now.
- A worker may be killed between any two statements; the next one recovers.
- A cancellation, a stop signal, a failure and a completion race for one row.
- `prepare_report` reads exceptions and saves the report in two transactions,
  while the reviewer's process changes exceptions and reports.
- Nodes of a round return in any order; one may throw while others still run.
- A scanner may hang, flood its pipes, or leave helpers behind, while its audit is
  aborted or its worker killed; no end of it may look like a clean result.
- The cache directory is shared with command line audits, which replace and
  prune files between any two steps of a scan.
- Report directories are written file by file, by several commands, any of which
  may be killed; ledgers are read, extended and written back.
- The project changes between estimate, approval, capture and gate.
- Every analyser cuts what it finds at limits of its own, each with its own
  comparison, and later ones take the status of earlier ones for theirs.
- A redirect or another answer of the resolver leads a probe somewhere else.
- Answers reach a page late, out of order, or never.

`PROJECT.json` lists these as hazards, each at its line, with the properties
that would catch them.

## 2. The modules

### The service

**AuditLifecycle** is what the service promises to the person who queues an audit,
without workers, locks or recovery: one active audit per project, one audit at a
time, first in first out, completed only with a stored report, settled for good.
It models no code. AuditService is shown to implement it, and ReportReviews is
built on it.

**AuditStore** has the rows that steer an audit: `status`, `project_id`,
`workflow_version`, `attempts`, `report_json` (one variable per column, a
function from audits) and `worker_lock` (a set of rows). Each operator is the
body of one method. Audits are numbered in the order of their INSERT, which is
the order `claim` serves (`ORDER BY created_at`). A report is the number of the
attempt that wrote it, 0 for NULL: enough to tell a report from none and a stale
report from the last. The partial unique index `one_active_audit` is
`OneActiveAllows`; every write that it can refuse has it as a guard or throws.

**AuditService** puts the worker processes and the routes on top of that store.

| Code | Action |
| --- | --- |
| `npm run worker`, `new AuditStore` | `Start` |
| `acquireWorker` succeeds / throws | `Acquire`, with recovery inside / `Refuse` |
| cleanup of staging, import of the engine | `Boot` |
| `claim()` / its read-back throws | `Claim` / `ClaimThrows` |
| `executeAudit` checks the workflow version | `Execute` |
| all analysers, each with its abort check | `Analyse` |
| `prepare_report` → `saveProgress` | `PrepareReport` |
| `transition(id, 'completed')` | `Finish` |
| log line, inner `finally` | `Log` |
| any throw in the `try` | `Throw`, in the stages of `MayThrow` |
| `catch`: `transition` returns / throws | `Catch` / `CatchThrows` |
| loop ends, outer `finally`, process ends | `Leave`, `Exit` |
| SIGINT, SIGTERM / heartbeat sees `cancelled` | `Stop` / `Heartbeat` |
| SIGKILL, power loss, uncaught throw | `Crash` |
| POST routes | `Enqueue`, `Publish`, `Cancel` |
| other programs of the machine | `ForeignStart`, `ForeignExit` |

The program counter has one value per stretch between two store statements or
two awaits; that is the granularity at which other processes can interfere.
`Faults` says which statements of SQLite may throw (`"write"`: busy or disk
full; `"read"`: busy or a malformed row). `PidReuse` holds the values that `reuse` may
begin with, which says of a behaviour whether a pid named by a stale lock row can be
given out again. `Init` is an empty database, or one with
an audit of an older workflow version that waits for its publication review:
no code of this version creates `awaiting_review`, but `publish`, `claim` and
`executeAudit` all handle it.

**ReportReviews** has the contents of reports and the people who change them:
dispositions, decisions about controls, grants of exceptions and their expiry,
the revision list, the baseline. The worker's `applySuppressions` and
`saveProgress` are two actions because they are two transactions;
`setProjectBaseline` is `CheckBaseline` and `SetBaseline` for the same reason. A
grant's number stands for its reason and dates, so that two grants for one
finding are told apart. The life of the audits is that of AuditLifecycle, whose
actions are conjuncts here; that the service keeps to that life is what the
`safety` run and the refinement theorem show.

**AuditWorkspace** is the page of one audit in a browser: the timer that polls, the
actions of a person, each followed by a refresh, and requests whose answers are
read from the store at one time and shown at another, in any order, or lost. The
audit in the store moves as AuditLifecycle promises. **NewAudit** is the dialog
that queues an audit, with the two routes it calls: estimates are numbered, the
project changes at any time, and the queueing estimates again.

### The pipeline and its scanners

**DeterministicPipeline** is `invoke` over any graph: `Round` is the head of the loop
up to `Promise.all`, `Return` and `Throw` are nodes, `Settle` is the merge. A node
is its rank of registration; 0 is a name that was never registered, which
`addEdge` accepts. The state is the sequence of merged updates. **AuditPipeline**
gives the real graph, its 28 nodes and its edges, and what the body of each node
reads. **AuditAnalysis** is that graph with what its nodes do to the audit's state:
the findings of each analyser, the merge and normalisation of findings, coverage
and checklist; a round is one step, since the merge does not depend on the order in
which nodes return (which is what DeterministicPipeline shows). **Analysers** has the
loops of thirteen analysers over what there is to find, with the limit of each and
the status it gives to its run; an Axe artifact one document of which is not what
Axe writes fails its run. **Checklist** has every control: the chain of IFs of a
control is the order in which the code returns.

**ScannerProcess** is one call of `runScannerProcess`: the promise, the timer, and
the process group of the subprocess; each operator is one callback of the event
loop or one thing the group does. **ScannerCache** is the cache directory: a key
stands for what is hashed into a file name, and an entry repeats it. Neither has a
`Next`; **ScannerRun** composes them into a scan as a node of the pipeline makes it.

| Code | Action |
| --- | --- |
| `cleanupStaleScannerStaging` at the start of a worker | `Start` |
| `checkedSnapshot` throws / returns, the key is made | `EndAudit` / `Begin` |
| `readEntry` finds / misses; an in-process scanner, no source, a program | `Hit` / `Analyse`, `Skip`, `Miss` |
| `mkdtemp` throws | `MakeThrows` |
| staging is filled, `--version` is spawned / a step of it throws | `Stage` / `StageThrows` |
| the version call settled, the scan is spawned | `Probed` |
| the scan call settled: report understood / anything else | `Scanned` / `ScanThrows` |
| `finally { rm(stage) }` | `Clean` |
| `writeEntry`: temporary file, `rename`, prune / a step of it throws | `Write`, `Publish`, `Prune` / `WriteFails` |
| the abort signal / a callback of the subprocess call | `Abort` / `ProcessStep` |
| SIGKILL of the worker | `Crash` |
| command line audits, the file system | `OthersStore`, `OthersRemove` |

`scanExternal`, `scanArchitecture`, `scanDuplication` and `scanDeadCode` have the
same control and are one set of actions; where they differ (external scanners
are not cached, fill the staging directory after the version probe, and
Gitleaks exits with 1 when it found something) a constant says which scanner is
meant. A value carries how its process ended (`ended`), which no code reads:
`CompletedIsEarned` compares the status with it. The scans of one round overlap;
they share the abort signal and the cache only, so one of them is followed and
the actions of the others stand for the rest.

### What is found in a project

These are functions of a project, with a step or two around them. Names, paths and
source text are members of small sets; what is modelled is what is kept, in which
order, up to which limit, and what is concluded.

- **SnapshotBudget**: `estimateProjectScope` and `captureSnapshot` over the same tree,
  a sequence of entries with kinds and sizes.
- **ProjectProfile**: the pass over the files, node by node, with its limits, of which
  `SilentLimits` cut without a word (`VisitFile`), then components, resolved calls and their edges (`AssembleProfile`).
- **CallGraph**: the facts that an entry point reaches, the breadth-first search for
  the chain of calls to one of them (`Widen`, `FindNothing`), the risks along it,
  the rules about entry points, and the controls of the checklist that read the same
  facts.
- **SourceTaint**: how request data is followed by passes over the statements of a
  function, and by a search over pairs of a function and its parameters
  (`Inspect`, `AbandonSearch` and the steps of `SearchNext`), which lists what it finds,
  sometimes again, and answers with the first of it (`FlowsTold`).
- **Inventory**: manifests, lockfiles of four kinds (npm, npm's first version, pnpm,
  yarn), the bounded search for the chains of a package (`ReadLockfile`), and the
  packages they are joined into (`ResolvedInventory`).
- **BoundedLists**: what the last two and the next two have in common: lists that are
  filtered, joined, cut and freed of repetitions, each a fold of an operator with a name.
- **Mechanical**: what is kept of the answers of dependency-cruiser (cycles in
  canonical form, orphans, coupling), jscpd and Knip, the unused dependencies that
  are searched beside it, and the measures of functions.
- **Contracts**: six comparisons of what is declared with what source does
  (environment variables, API operations, database entities, webhooks, feature flags,
  tests), each with all of its limits as an argument, `L`, so that
  `Analysis(a, project, Unlimited)` is what the same code says with more room, by
  `Spare` of everything; and `parseAuditReport` with the bounds of the schema (`SaveContracts`).

### What is decided

- **Gates**: the new findings of a comparison with a baseline, policy profiles, severity gates and exit codes.
- **Ledgers**: how an entry of a review or suppression ledger is made, and when it applies.
- **AuditCommand**: audit, finalize, review and suppress as processes that run beside
  each other over one report directory and its ledgers, while the project changes.
- **ReportPackage**: `writeStaticReport` file by file, by several commands that fail or
  are killed; and what the report server accepts as a package (`Loads`).
- **AdvisoryScan**: the lookup of advisories for the first packages of a lockfile
  (`TakenUp`), with pages, caps, details and the database that several lookups replace
  as a whole.
- **HttpProbe**: the probe of each approved URL: HEAD, GET, redirects, each validated
  anew with the addresses its host has by then, until it is aborted. An address has a
  class and a form; what the rules take it for (`AddressClass`) depends on the form.
- **Remediation**: from an audit's report to a plan of tasks, the ledgers of executed
  commands, and what a later audit says of each task.

### Proof and MC modules

The modules named `...Proofs` hold theorems: one for AuditService, one for AuditCommand
(with Remediation); `PipelineProofs` for DeterministicPipeline and ScannerRun, the two
machines an audit runs on; `AnalysisProofs` for CallGraph, SourceTaint and AuditAnalysis,
with the analysers and the checklist it calls; `ReportProofs` for what a report is made of and what people write in it, ProjectProfile,
Contracts (with Mechanical) and ReportReviews, and `InventoryProofs`, which goes on from
there, for Inventory; and `BoundaryProofs` for what crosses the boundary of an audit:
NewAudit, HttpProbe, ReportPackage and AdvisoryScan. `FoldTheorems` holds the induction over the elements
of a sequence that the others instantiate. The `MC` modules give symmetry sets,
graphs, trees, projects and programs to check. `MCScanners`, `MCAuditCommand` and
`MCReports` put several independent machines into one run: a variable `machine`
says which of them moves, from all of its initial states, while the others rest in
one of theirs. The machines share no state, so that this is the same as a run for
each of them.

## 3. What the runs check

| Run | Instance | Result |
| --- | --- | --- |
| `safety` | 2 workers, 3 pids, 2 projects, 2 audits, 1 stop signal, behaviours with reused pids and without, throwing writes; 998 000 states | mutual exclusion of workers (`OneWorker`), no running row without an owner (`RunningIsOwned`), `OneActivePerProject`, a completed audit has the report of its own last attempt (`CompletedHasOwnReport`), attempts are bounded by recovery plus stops (`AttemptsBounded`), `CompletedIsFinal`, AuditLifecycle is implemented (`ImplementsLifecycle`), and while no pid is reused a worker is refused only because another one runs (`StaleLocksAreTaken`) |
| `liveness` | 1 worker, 2 pids, 2 audits, throwing reads and writes, no reused pids; 278 000 states | every queued or running audit is settled (`AuditsSettle`), a stop ends the worker (`StopEnds`) |
| `scanners` | *scanner*: one in-process scanner, one cached and one uncached program, 2 versions, 1 digest with and without truncation. *pipeline*: every graph of up to 3 nodes (cycles, missing nodes), every acyclic graph of 4. *page*: 2 polls and 1 form under way, 2 revisions. Together 469 000 states | a settled call leaves no process and no timer (`SettledIsQuiet`), no interrupted scan looks like a result (`CompletedIsEarned`), staging is empty between scans (`StagingIsRemoved`), hits belong to the scan (`HitsAreOwn`), every scan ends (`ScansEnd`); dependencies first, canonical merge order, completeness, finality of a rejection, termination; a page does not go on calling an audit active that has ended (`PageKeepsUp`) |
| `reports` | *reviews*: 2 projects, 2 audits, 1 finding, 2 grants, 3 revisions. *analysis*: projects in which each analyser, or two, find up to more than they keep. *graph*: every set of 8 calls of 5 symbols; two entry points with every mix of guards behind a middleware. *taint*: functions that call each other in loops, with renamed data and with more arguments than parameters, with at most 5 pairs or 2 flows, repeated ones included. *contracts*: some 9 000 projects below, at and above each limit of one of ten analyses. *inventory*: two manifests over graphs of three packages, in lockfiles of four kinds; one with a route more than are followed. *profile*: projects of up to four files around each limit, files of one role or of several. Together 780 000 states | the revision list is complete (`TrailIsComplete`), marks were granted, the baseline is usable, no worker touches the report of a settled audit (`SettledReportsAreHuman`); no node reads what is not there; coverage that is COMPLETE has told of everything (`CutsAreTold`); no control is evidenced against the findings (`EvidenceIsEarned`); chains of calls are real, shortest, and found (`PathsAreReal`); rules and checklist agree on guards (`GuardsAgree`); every unguarded flow is told (`TaintIsTold`); a complete comparison says what it would say without limits (`VerdictsAreWhole`); packages and their chains are true (`InventoryIsTrue`); a complete profile lacks nothing (`ProfileIsWhole`) |
| `command` | *command*: 2 processes, 3 histories of versions of 1 or 2 projects around the limits of a snapshot, 2 audits, 1 note per person. *package*: 2 commands, 1 audit in every kind of package. *advisories*: 1 lookup, lockfiles of 0, 2 and 3 packages of which 2 are taken up, 3 advisories, pages and batches of 1, 2 pages, 2 advisories kept. *probe*: 2 URLs, 2 redirects, named hosts, localhost and literal addresses of every class and form. *remediation*: 16 contents of an audit, 2 reports, 1 ledger. *dialog*: 2 projects, 3 estimates. Together 1 485 000 states | a clean exit is earned (`CleanExitIsEarned`), a package that was written undisturbed loads and nothing else is there (`PackageLoads`), a completed lookup tells of every advisory of the packages it takes up (`AdvisoriesAreTold`), no connection leaves what was approved but to a literal address in hexadecimal (`ProbesStayApproved`), a resolved task was executed and its findings are gone (`RemediesAreEarned`), what is queued was approved below the estimate that said so (`ApprovalIsInformed`) |
| `pid_reuse` | 2 workers, 3 pids, reused | *violated*: a worker is refused although no worker runs |
| `log_line` | as `safety`, with throwing reads | *violated*: a completed audit becomes failed or queued |
| `exception_race` | the reviews with 2 findings | *violated*: a report is saved with an exception that was removed before |
| `cached_failure` | one scanner, nobody else stores | *violated*: the failure of one audit's scan is replayed in the next audit |
| `stale_truncation` | the same | *violated*: a complete run is replayed for a truncated snapshot |
| `cut_cached` | one package whose advisories exceed the cap, two lookups in turn | *violated*: a lookup is completed without the advisories an earlier one cut |
| `contracts_refused` | up to 3 migration files where 2 are kept | *violated*: the report is refused by its own schema |

### The seven violations

`pid_reuse`: `acquireWorker` asks whether the pid in the lock row is alive, not
whether it is a worker. After a kill and a reboot another program, or the new
worker itself, may have that pid; the worker then refuses to start with "A local
worker is already running", until the other program ends or the row is
deleted by hand. The row's heartbeat, which would tell, is not read.

`log_line`: `executeAudit` completes the audit, then the worker reads its status
for the log, inside the `try` block whose `catch` sets the audit to failed (or
queued, while stopping). `transition` protects `cancelled` only. One failing read
turns a completed audit into a failed one.

`exception_race`: `prepare_report` applies the active exceptions and saves the
report in separate transactions. A `removeSuppression` of another process in
between revises the older report only; the new one is stored with an exception
that no longer exists.

`cached_failure`: `writeEntry` stores whatever run is well formed, and `failed` is a
valid status. When dependency-cruiser, jscpd or knip runs into its timeout, or is
killed because its audit was cancelled in the last round, or the disk was full
while its staging directory was filled, later audits of the same snapshot replay
that failure and never run the scanner again.

`stale_truncation`: the digest of a snapshot covers the files that were captured. A
file over the size limit that appears in the project sets `truncated` and leaves the
digest as it is; the scanners, which would report partial coverage, are
replayed with the completed runs of the complete snapshot. (The report itself still
says that the snapshot was truncated.)

`cut_cached`: a lookup that reaches its cap of advisories, or of pages, says that it
is incomplete, but stores for each package of the batch an entry with what it got;
nothing in the entry says that it was cut. The next lookup takes the entry for the
whole answer and is completed.

`contracts_refused`: `scanDatabaseContract` keeps 500 migration files and counts all of
them in its summary; the schema of a report bounds that count by 500. The audit of a
project with 501 migration files fails when its report is saved, although the
analysis had said `partial`.

### Bounds, and why they are enough

- Two workers and two live pids are the least that compete; the third pid leaves
  room for a stale row and a foreign process at once. Properties speak of at
  most two workers or two audits.
- Two audits on two projects cover both the same project (index, recovery
  against enqueue) and different ones (queue order). Rows are never deleted, so
  `MaxAudits` ends the model's queueing, not its behaviour.
- `RecoveryLimit` is the code's 3, not scaled down. One stop signal is enough to
  see a requeue that recovery did not count; `attempts` needs no bound of its own.
- Two grants and three revisions allow grant, removal and a second grant of one
  finding, each racing a save. Where these bounds stop the model
  `CHECK_DEADLOCK FALSE` says so; in the other review steps nothing waits.
- Three nodes give every shape of dependency, cycle and missing source; the
  acyclic graphs of four add diamonds, where two nodes of a round are merged before
  a third. An invocation that is over stutters explicitly.
- Two versions are the least that a key can confuse; digests and scanners enter
  the key in the same way. Others add files to an empty directory only
  (`MaxFiles`), but replace, remove and damage them at any step; with
  `MaxEntries = 1` the second entry is pruned.
- The limits of analysers are scaled down to 1 to 4 and projects lie below, at and one
  above each of them, alone and, where two limits meet (a list that is cut before
  another is counted), together. The comparison each analyser makes (`>`, `>=`,
  before or after it appends) is the code's. `Spare` is 100, more than any project of
  the runs has of anything; the theorems hold for every `Spare`.
- Five symbols and eight calls contain cycles, diamonds, equal ways and ways longer
  than `MaxCallDepth`. Three packages contain every cycle and every second way; a
  fourth and fifth are added where a label is installed twice. Where `MaxRoutes`, which
  is 8 for the code's 20,000, cuts a search, nine packages are required and only the last
  of them requires a tenth.
- Two commands over three versions of a tree let a ledger be lost, a report be
  overwritten and a tree change between any two steps. One report directory is one
  audit in four kinds of package, which differ in what they list.
- Of an approved URL two redirects are followed where the code follows more; a request
  counts in the same way whatever the number.
- Three estimates let an old answer arrive before, between and after others. Two polls
  and one form are enough for an answer to be overtaken by one of either kind.
- Symmetry (workers, pids, projects, findings, commands) is used for safety only,
  never in the runs with fairness.

### Fairness, and why the code justifies it

`AuditService!Fairness` assumes that a running process keeps running its code
(weak fairness of the steps inside a process; analysers and subprocesses have
timeouts), that the user starts a worker again when none runs, and that crashes
do not hit every start before its first claim: `Acquire`, `Boot` and `Claim` are
strongly fair because a crash disables them. `Crash`, `Stop`, `Cancel`, `Enqueue`
and `Throw` alone are never fair: nothing depends on their happening. (The end of
a refused process is a `Crash` step, and is fair only there.) In
ScannerRun the worker goes on (`Progress`), and the event loop delivers what is due:
the close of a pipe, an error of spawn, an armed timer. That a subprocess ever
exits or closes its pipes is not assumed; `ScansEnd` rests on the timer. For the
pipeline, the event loop goes on and each node returns or throws, since its
subprocesses and requests are bounded by timeouts. For the page, the timer fires,
requests to this machine are answered or fail, and not every answer is lost for ever
(strong fairness of `\E c : Show(c)`). `PageKeepsUp` is eventual stability only:
an old answer may well bring back a status for a while.

## 4. What is proved

All for every value of the constants, under the named assumptions of the modules
(`MaxAudits`, `MaxStops`, `MaxEstimates` natural, `NoPid \notin Pids`,
`NoProject \notin Projects`, well-formed graphs and trees, scanners of exactly one
kind, `MaxEntries` positive, limits that are numbers, projects whose parts come in lists
and the like), which TLC evaluates in the runs.

`AuditServiceProofs`, for every number of workers, pids, projects and audits, for
every `Faults` and `PidReuse`:

- `TypeCorrect`, `WorkersExclude`, `ProjectsHaveOneActiveAudit`,
  `CancellationHolds`;
- `InductiveInvariant`, and from it `RunningAuditsAreOwned`,
  `CompletedAuditsAreReported`, `RecoveryIsBounded`;
- of the behaviours in which pids are not reused, as `StaleLocksAreTaken` says (the
  `pid_reuse` run shows that this is needed): `RefusalsAreEarned`. `RefusalInv` says
  that no two processes have one pid, and that a process which has the pid of a lock
  row is past `acquireWorker`;
- assuming that reads do not throw (`"read" \notin Faults`, the assumption that
  the `log_line` run shows to be needed): `CompletionHolds` and
  `ServiceImplementsLifecycle`.

`OneWorker` is not inductive: a second worker is kept out only by a lock row that
carries the holder's *own* pid, which is alive as long as the holder is. `LockInv`
says that (every process past `acquireWorker` has its row in the table, there is at
most one row), and mutual exclusion follows since tokens differ. With one holder,
`RunningIsOwned` and `OneRunning` need to know what a holder executes: `Consistent`
ties the program counter to the row, its status and its attempt (the row it claimed
is still running or was cancelled, nobody else moves it). `CompletedHasOwnReport` is
then the case `reported` of `Consistent`. `AttemptInv` says that a row that waits has
an attempt left and that a stop signal pays for the attempt it gives back. Each
action has a lemma per part; the refinement maps every step of the service to
one step of AuditLifecycle or to a stutter, `Acquire` included: recovery changes
at most the one running row. `OneActivePerProject` is inductive by itself, since
every write that makes a row active goes through the index.

`PipelineProofs`, on **DeterministicPipeline**, for every set of finite graphs:
`InvocationTypeCorrect`, `DependenciesHold`, `NothingIsLeftOver`, `RejectionHolds`, `OrderHolds`,
`WholeHolds`. That the order of the merged updates depends on the graph alone is
proved from `MergeInv`: after some number `r` of rounds what is completed is all that
ends no chain of length `r`, the round that runs is the whole of the next layer, and
the state lists the completed nodes by layer and, in a layer, by rank. That `r` stays
below the number of nodes follows from the layers getting smaller. The values of the
two recursive functions, `ChainEnds` and the one in `Registered`, come by an induction
over the set of the numbers that have a property (`SetInduction`), which rests on the
order of the naturals being well founded; `Recursion` shows that such functions exist.

`FoldTheorems` says nothing of the code. It has the induction that the proofs about folds
rest on: what holds before a fold over a sequence, and is kept by each element,
holds after it (`FoldHolds`). The prover takes no operator for a parameter of a theorem,
but it takes a constant operator that an INSTANCE replaces: the module declares `Op`
and `Holds`, and each proof about a fold is an instance with the operator and the
invariant of that fold.

`AnalysisProofs`, on **CallGraph**, for every map of calls, every limit of hops and all
finite sets of findings: `PathsHold` and `GuardsHold`. `SearchInv` says that the search
has met, after `depth` hops, what `reachableSymbols` meets in as many (`Met`), that its
frontier is what the last hop met first, and that the caller by which a symbol was met
was itself met one hop before, so that the walk back over the parents ends at a root and
is as long as there were hops. No chain is shorter (`ChainsAreMet`), and a frontier that
runs empty has met all there is (`MetStops`); both are inductions over the hops.
`GuardsAgree` needs no step: it is proved of every graph, control by control, from what
a context of the checklist has of its entry point (`ContextFacts`).

On **AuditAnalysis**, for every case and every limit of the analysers: `NodesSeeAll`,
`CutsHold`, `EvidenceHolds`. A case is a record of lists of findings of whatever length
(`CasesAssumption`). `SeenInv` says that a node that is done saw every node that
precedes it in the graph, which has one layer after another. `RunInv` ties the run of
a scanner to the status its analyser answers with and its findings to the state: then
each analyser has a lemma that a run which is completed found what there was, most of
them about a list that is flattened or folded up to a limit. `ReportInv` says that the
normalised findings are those that one reconciliation with the probe leaves
(`CounterpartsAreGaps`, `MarksKeepTheRule`), less the patterns that structural rules
replace, and that the checklist is made of them and of the runs of all scanners.
`EvidencedHasNoGap` and `EvidencedWasRun` are about the controls one by one.

On **SourceTaint**, for all programs, numbers of passes, hops, pairs and flows:
`TaintHolds`. In a function that shadows no name a pass only adds names, so that one
pass already has the names of any prefix of a run (`PassGrows`, `FlowIsTaint`) and all
the passes have no name that is not in every closed set (`TaintIsClosed`). The property
puts what the search told between what is reached by the first measure and by the second;
a pair of the search may carry more parameters than a pair that is reached, and fewer
than one that may be. `TaintInv` says that every queued pair is below one that calls may
lead to in as many hops (`Traced`), and that there is a distance of each met pair
(`Depths`) such that its calls are met at most one hop further or are queued, that no
queued pair is nearer than a met one, and that the sinks of those at a distance are on the
list of what was found, which is answered whole if it is no longer than that
(`AcrossFinds`).
With an empty queue every pair that is reached is covered by a met one no further away
(`AllCovered`, an induction over the hops), although pairs are met only once. At distance
zero the rules of single functions take over, which know each rule of the search
(`DirectFindsAcross`). `ProgramsAreWhole` says that roots are symbols of their entry
point. Without the order of the queue the distances would not hold: the mutant that
enqueues first breaks the property.

`AuditCommandProofs`, for all histories of projects, statuses, ledgers and numbers of
commands: `CleanExitHolds` and `SnapshotsAreWhole`. That what a command saw is all there
was when nothing says otherwise is `SnapshotsAreWhole`: an invariant of the fold over
the entries of a tree. `CommandInv` says of every report that is held or was saved that
what it tells of truncation and coverage is true of the version it was made of, and that
each of its findings which is resolved or excepted is so by an entry that a person
recorded for that audit (`Sound`); and of the ledgers, also those about to be saved, that
they hold nothing else. `HistoriesAssumption` says that trees and candidates are
sequences and that a finding has its evidence in entries that can be read.

On **Remediation**, for all audits, numbers of tasks, scripts, reports and ledgers:
`RemediesHold`. The invariant is short (what was finalized is the result of two stored
reports and at most one ledger that is accepted for them); the work is in what a plan is.
That the tasks a plan keeps are tasks that there are, and all of them when it does not
say that it was cut (`PlansTell`), needs that a first part of any size exists in the order
of priorities (`FirstOnes`, an induction over the size), hence that there are finitely
many tasks and that priorities are bounded. The identity of a task tells the rule of its
findings (`FoundTasksShareRules`), every finding that is not resolved has a task
(`UnresolvedHaveTasks`), and what is verified was run (`VerifiedRanWell`). Three
assumptions say what an audit gives: `AuditsAssumption`, typed lists; `IdentitiesAssumption`,
that a rule is part of a fingerprint and of a key; and `ControlsAssumption`, that a control
is evidenced only where nothing of the rules of its gaps is found, which is what
`EvidenceHolds` proves of AuditAnalysis.

The same module, on **ScannerRun**, for every set of trees, scanners and versions and
every limit of the cache: `TypeCorrect`, `CallsEndQuietly`, `ResultsAreEarned`,
`InductiveInvariant`, `StagesAreRemoved`, `ReplaysAreOwn`. `SettledIsQuiet` and
`CompletedIsEarned` are inductive as they stand, the latter because it speaks of
the entries of the cache and of what others store as well. `StagingIsRemoved` is
not: `IInv` adds that a staging directory belongs to the scan that is going on (or
to a worker that is down), so that `Clean` removes the last one. `HitsAreOwn` needs
from `IInv` that only cached scanners come to read an entry.

`ReportProofs`, on **ReportReviews**, for every number of projects, audits, findings,
grants and revisions: `TypeCorrect`, `TrailHolds`, `MarksHold`, `BaselinesHold`,
`SettledReportsHold`. The invariant types reports and revisions, and adds that the
revision list of an audit is as long as its revision number with the stored report
at its end, that a grant that was made is kept for good although its exception is
removed, so that a mark in a draft, which the worker holds between its two
transactions, still has one, and that a baseline that was checked but not yet set
cannot lose its report.

On **ProjectProfile**, for all projects whose files, nodes and directories are lists
(`ProfiledInLists`), all limits, zero included (`LimitsAreNumbers`), and every `Spare`:
`ProfileHolds`. `ProfileIsWhole` compares what a pass concluded with what the same code
concludes with more room, so the invariant runs the second pass beside the first:
`ProfileInvariant` says that there is a pass with more room, file by file (`RoomyPass`),
which, as long as nothing was cut, has the same five lists so far. Each operation of a
visit is shown to keep the two in step (`InStep`): when it does not cut, it adds the same
in both, and what was cut once is never forgotten. The folds over the files, the nodes of
a file, the facts and the entry points of a node are each an instance of `FoldTheorems`.
What is left is the end of the pass, which goes over the lists it has filled
(`SameProfile`): when no bound of its own is met, it concludes the same from the same
lists, whatever room there was.

On **Contracts**, for all projects whose parts are lists (`ContractedInLists`), all limits
(`MaximumIsNumbers`) and every `Spare`: `VerdictsHold`. `ContractsInvariant` says that an
answer is the one of its analysis over the project; the work is in one lemma for each of
the ten analyses, that an answer which is complete has the verdicts it would have with
more room (`DatabaseIsWhole`, `TestsAreWhole`, `ArchitectureIsWhole`,
`DuplicationIsWhole`, `MeasuresAreWhole`, `DeadCodeIsWhole`, `FlagsAreWhole`,
`EnvironmentIsWhole`, `WebhooksAreWhole`, `ApiIsWhole`). Where a
list is cut and then counted, what was not cut is the list (`UncutList`, `UncutSet`); where a limit
stops a loop, the loop is compared with its twin as above (`SpecificationsInStep`,
`SourcesInStep`, `WalkIsWhole`). The search of calls takes most: its queue is in the order
of the depths, so that the first symbol it does not enter is at the depth where it ends and
so are all that remain, and their calls have no targets when nothing was truncated
(`EndsLeadNowhere`): what the twin still does with them adds nothing. Without that order a
symbol could be skipped before one that is entered. The projects and limits where a
limit cuts in silence are excepted by `CutUntold`, one by one.

`InventoryProofs`, on **Inventory**, for all projects whose parts are lists
(`InventoriedInLists`), every number of chains and every depth but zero (`ParentLimits`),
and every number of routes: `InventoryHolds`.

- The search for chains (`SearchOf`) is a fold over the queue of routes, each step of
  which is a fold over what a package requires; both are instances of `FoldTheorems`. Its
  invariant says that every chain leads from a manifest over what requires what
  (`IsSearch`), that what is kept is in the queue, and every label on the way to it, too
  (`Backed`), that the queue is in the order of lengths
  (`Sorted`) and no route is longer by more than one than those that are to be followed
  (`Nearby`), and that, where the followed routes lead to, the label has a chain within one
  package more (`Closed`). That a label whose places are full is passed over does no harm
  to this: its chains came earlier, so they are not longer. `SearchFacts` collects what the
  whole search leaves.
- With it `ReachedIsRouted` follows the manifests' requirements step by step: what is
  reached in so many steps has a chain, if no route was left unfollowed and a label
  stands for one package. The first chains of a label are those of length one, which a
  manifest has: hence direct exactly if a manifest requires it.
- The graphs of the three kinds of lockfile are graphs (`GraphIs`), since what a name or a
  selector resolves to is a package of the lockfile (`ResolvedNpmIs`, `ResolvedYarnIs`).
- The rest is the merge: a record takes chains of records of its label and lockfile only
  and keeps the first of them, no more than a label may have, so that a record has a chain
  exactly if the search has one for it.

`BoundaryProofs`:

- on **HttpProbe**, for all hosts, answers, redirects and allowlists: `ApprovalHolds`.
  Every class but that of a literal address in hexadecimal is what the rules take it for.
  The invariant adds what the rules permitted for the connection that is under way, how
  the requests of a URL are counted while a HEAD is repeated as a GET, and that URLs are
  probed in turn, so that there are as many outcomes as URLs that are over.
- on **NewAudit**, for all projects and any number of late estimates:
  `ApprovalsAreInformed`. The invariant says that the latest estimate asked for is the
  one awaited, that what is shown is of the selected project, that what was approved is
  what is shown, and that what is being posted was approved so.
- on **ReportPackage**, for any number of commands and audits: `TypeCorrect`,
  `PackagesLoad`. The invariant says that a writer that is alone has written all that is
  not on its list any more, that what its predecessor's manifest listed is still to be
  removed or belongs to the new package, and that nothing else is there unless some write
  was killed, failed or ran beside another. The manifest is replaced last, when both
  lists are empty.
- on **AdvisoryScan**, for all packages, any finite set of advisories, any caps and any
  database that others may leave: `AdvisoriesHold`. `AdvisoryInv` says of every lookup
  that it is incomplete and says so, or that each package it took up is missing still, is in
  the batch under way, or is answered; and of a package of the batch that what was known
  of it is listed, or further pages are pending (`Paging`). A batch becomes entries that
  tell of what is listed because `consolidate` drops only what was withdrawn
  (`ConsolidateTells`, an induction over its records) and the records come in an order
  that has each of them (`OrdersAreWhole`). What others know more of later changes
  nothing of that (`FitsLater`).

### Model-checked only

- Every invariant of the runs is stated by a theorem. Left to TLC is
  liveness (`AuditsSettle`, `StopEnds`, `InvocationSettles`, `ScansEnd`,
  `PageKeepsUp`), which TLAPS does not do.

## 5. Not modelled, and why

- Event log, error texts, timestamps, heartbeat column: written, shown to the
  user, and read by no decision that is modelled.
- `registerProject`, request validation, origin checks: one guarded insert, pure
  checks of input.
- Of the scans: the findings parsed from Semgrep and Gitleaks and the configuration
  generated for Knip (data), temporary files of the cache and its size in bytes, a
  disabled cache, a failing `rm` in a `finally` block, the subprocess that a killed
  worker leaves running, a helper that closes its pipes or leaves its process group,
  and Windows, where only the leader is killed.
- Of the analysers: what a single expression, path or file name looks like to a
  regular expression or a syntax tree. A node, a read, a declaration or a call is what
  the recogniser makes of it.
- Of the command line: the parsing of arguments, doctor, setup, serve, progress,
  triage and calibration, which decide no exit.
- Of the reports: rendering, the text of tasks, agent context, and all of the schemas
  but the bounds that the summaries of the contracts and cycles may exceed. `types.ts`
  declares types.
- The report server reads a package, verifies every artifact when it loads it and again
  when it serves it; it keeps no state that others change. Only what it accepts is
  modelled.
- Of the page: filters, drafts of text fields, dialogs of findings, presentation.
- `declarative-config.ts` reads declared settings out of syntax trees without running
  them: functions of text.

### Seen while modelling, and not stated by a run

The lines are those of the source at this commit; none of these contradicts a property
above, where it is named as an exception.

- Limits that cut without a word: feature flags in JSON files, and those that one source
  file declares, are cut to 2,000 before they are counted, so that the analysis remains
  complete (`feature-flags.ts:375`, `169`; the second came up when the proof of
  `VerdictsHold` did not go through); the
  traversal of a callback route that misses its verification because it was cut
  (`webhook-contract.ts`); commands of a manifest beyond 500, of all manifests beyond
  1,000, and coverage artifacts beyond 10 (`quality.ts:341`, `359`, `221`); findings about
  environment variables beyond 300, whose number only the words of the run tell
  (`environment-contract.ts:557`); in a profile the entry points of the file that reaches
  the limit, bindings of an import beyond 100, symbols and matchers of an entry point
  beyond 20, and the scope of a resource that is named only after 2,000 nodes of an
  argument (`project-profile.ts:150-152`). `CutUntold`, `ProfileIsWhole` and `CutsAreTold` except them.
- A lookup takes up the first 1,000 packages of the lockfiles and drops the others before
  anything counts them (`osv.ts:502-504`): it may be `completed` with packages that nobody
  looked up, and its detail gives the number of those it queried.
  `AdvisoriesAreTold` speaks of the packages that were taken up.
- `ipv6Class` knows an IPv4 address that is mapped into IPv6 by its dotted form
  (`url-policy.ts:64`), but `new URL` writes the host in hexadecimal, so that it is classed
  as public, while EDGE_CASES.md:21 rejects reserved addresses and :20 private ones without
  approval. A resolver gives the dotted form. `ProbesStayApproved` excepts hosts that are
  literal addresses of this form.
- The search for request data across functions stops at 300 findings, and one sink that is
  reached by two ways counts twice (`ast-security.ts:1716`, `1872`); the rest is left out
  in silence.
- Bounds of the schema that an answer may exceed, as in `contracts_refused`: a dependency
  cycle of more than 100 files (`report-schema.ts`, `cycles`), the ids of a webhook's
  evidence, the number of feature flags, the chains of an npm lockfile of the first
  version beyond 14 packages, the commands of a verification plan beyond 20, aliases of
  an advisory.
- The API limit is compared once per path and may be exceeded by a path's methods
  (`api-contract.ts`).
- In an npm lockfile of the first version every hoisted package counts as direct
  (`inventory.ts`); of a label that is installed twice the second copy may lose chains;
  and a search ends after 20,000 routes without a word (`inventory.ts:141`, `338`), so that
  what is installed may have no chain, and counts as direct if some manifest declares its
  name. `InventoryIsTrue` excepts the three.
- A control decision counts as accepted in one place and not in another
  (`remediation.ts:931`, `384`).
- A control that does not apply any more (no response was probed, no entry point is mapped,
  no dependency resolved) resolves its task although findings it waited for are still
  there: `checklist.ts` looks whether it applies before it looks at gaps, and
  `remediation.ts:931` takes `NOT_APPLICABLE` for resolved. `RemediesAreEarned` asks for the
  tasks it waits for only where the control is evidenced.
- Names have no scopes in `functionTaint`: a declaration of a value the server owns takes
  the request data off a parameter, or another variable, of that name wherever it is
  declared, also in sinks before it (`ast-security.ts:783`). `TaintIsTold` excepts
  functions that do so (`Shadowed`).
- Handlers that are declared below a hook or in a tRPC procedure are not mapped; the last
  name of a call is taken for a local function although its first name was imported
  (`project-profile.ts`).
- The page: after an audit has settled no poll corrects an answer that arrives out of
  order; 'Live updates paused. Reload to reconnect.' stays although polling goes on; the
  form of a control shows the stored decision but saves `needs_follow_up` when only its
  note was edited (`audit-workspace.tsx:967`, `134`); the dialog of a finding that closes
  late closes the next one; the permission for the private network is kept when the
  probed URL is edited.

## 6. What the plan has left

1. A reader of a report directory (`report-server.ts`) beside its writers: what is served
   between two files of a rewrite, and the 409 it answers then.
2. The event of an operation, which is written after its transaction, and the channel
   that a page would reconnect to.
3. `declarative-config.ts`, `posture.ts` and `supply-chain.ts` beyond their limits.
