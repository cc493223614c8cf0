------------------------------ MODULE Contracts ------------------------------
(***************************************************************************)
(* Six analyses that compare what a project declares with what its source  *)
(* does: environment variables, API operations, database entities,         *)
(* webhooks, feature flags and the tests of critical files                 *)
(* (src/scanners/api-contract.ts and its neighbours), those of Mechanical, *)
(* and the parse of their answers when the report is saved                 *)
(* (src/domain/report-schema.ts).  Each keeps at most so many records, and *)
(* says whether its answer is complete.                                    *)
(*                                                                         *)
(* A project is [truncated, profile, environment, api, database, webhooks, *)
(* flags, tests, structure, copies, code].  Names are numbers, in the      *)
(* order in which they are sorted, and an answer is [status, verdicts,     *)
(* counts]: what it says of each thing, and the counts that the schema     *)
(* bounds.                                                                 *)
(***************************************************************************)
EXTENDS Mechanical

CONSTANTS
    Maximum,        \* the limits of the analyses, a record
    Contracted      \* projects

VARIABLES
    contracted,     \* the project of an audit
    answers,        \* of the analyses whose nodes have returned
    written         \* was the report accepted?

contractVars == <<contracted, answers, written>>

MaximumNames ==
    {"specifications", "operations", "sourceOperations", "routes", "schemaFiles",
     "migrationFiles", "entities", "endpoints", "depth", "symbols", "edges", "events",
     "evidence", "declarations", "usages", "targets", "related", "importDepth",
     "templateNames", "variables", "reads", "dynamic", "locations", "candidates", "cycles",
     "cycleFiles", "orphans", "hotspots", "blocks", "nodes", "functionHotspots", "artifacts",
     "commands", "allCommands", "references", "deadCode"}

ASSUME MaximumIsNumbers == Maximum \in [MaximumNames -> Nat]

(* What files hold comes in lists, what they are searched for in finite    *)
(* sets.                                                                   *)
ASSUME ContractedInLists ==
    \A p \in Contracted :
        /\ AreLists(<<p.environment.templates, p.environment.sources, p.api.specifications,
                      p.api.entrypoints, p.database.files, p.webhooks.entrypoints,
                      p.webhooks.calls, p.webhooks.references, p.flags.json, p.flags.sources,
                      p.structure.modules, p.copies.duplicates, p.code.files,
                      p.code.artifacts, p.code.manifests, p.code.issues>>)
        /\ AreLists(p.environment.templates) /\ AreLists(p.flags.json)
        /\ AreLists(p.code.files)
        /\ \A f \in ToSet(p.environment.sources) : IsList(f.reads)
        /\ \A s \in ToSet(p.api.specifications) :
                IsList(s.paths) /\ \A i \in ToSet(s.paths) : IsList(i.operations)
        /\ \A e \in ToSet(p.api.entrypoints) : IsList(e.methods)
        /\ \A f \in ToSet(p.database.files) : IsList(f.tables)
        /\ \A e \in ToSet(p.webhooks.entrypoints) : IsList(e.symbols)
        /\ \A f \in ToSet(p.flags.sources) : IsList(f.declarations) /\ IsList(f.calls)
        /\ \A m \in ToSet(p.structure.modules) : IsList(m.dependencies)
        /\ \A m \in ToSet(p.code.manifests) : IsList(m.commands) /\ IsFiniteSet(m.dependencies)
        /\ \A i \in ToSet(p.code.issues) : AreLists(<<i.unlisted, i.exports, i.types>>)
        /\ IsFiniteSet(p.database.references) /\ IsFiniteSet(p.tests.critical)

(* The same limits with more room, be it as much as one likes.  The depth  *)
(* of imports is part of what a related test is.                           *)
Unlimited ==
    [l \in MaximumNames |-> IF l = "importDepth" THEN Maximum[l] ELSE Maximum[l] + Spare]

Completeness(project, partial) ==
    IF partial \/ project.truncated \/ project.profile = "partial" THEN "partial" ELSE "complete"

-----------------------------------------------------------------------------
(* scanEnvironmentContract.  A template is a sequence of names, a source   *)
(* file [parsed, reads], in the order of their syntax.  A read is [name,   *)
(* vite, listed, alias, guarded, within]: name is 0 if it is computed, and *)
(* vite tells import.meta.env from process.env.  Of where its value goes,  *)
(* it says whether it is one of a list of alternatives, how the variable   *)
(* it initialises is used, whether it is returned below a test of itself   *)
(* before another return, and what expressions it stands in.               *)
OptionalAlias(uses) ==
    /\ \E u \in uses : u \in {"condition", "fallback"}
    /\ "guard that throws" \notin uses

RequiredRead(read) ==
    /\ ~read.listed /\ ~OptionalAlias(read.alias) /\ ~read.guarded
    /\ read.within \cap {"optional chain", "comparison", "fallback", "condition",
                         "argument before a default"} = {}

DeclaredVariables(templates, L) ==
    Joined([t \in DOMAIN templates |-> UpTo(Distinct(templates[t]), L.templateNames)])

DeclaredNames(templates, L) ==
    ToSet(UpTo(Distinct(DeclaredVariables(templates, L)), L.templateNames))

NamedReads(file) == Passing(file.reads, LAMBDA r : r.name # 0)
ComputedReads(file) == Passing(file.reads, LAMBDA r : r.name = 0)

SourceReads(collected, file) ==
    LET L == collected.limits
        named == collected.named \o NamedReads(file)
        dynamic == collected.dynamic + Len(ComputedReads(file))
    IN  IF Len(collected.named) >= L.reads \/ ~file.parsed
        THEN [collected EXCEPT !.cut = TRUE]
        ELSE [collected EXCEPT
                !.named = UpTo(named, L.reads),
                !.dynamic = IF dynamic < L.dynamic THEN dynamic ELSE L.dynamic,
                !.cut = @ \/ Len(named) > L.reads \/ dynamic > L.dynamic]

ReadsIn(sources, L) ==
    FoldLeft(SourceReads, [named |-> <<>>, dynamic |-> 0, cut |-> FALSE, limits |-> L], sources)

VariableStatus(name, reads, declared, environment) ==
    IF \/ name \in environment.platform
       \/ name \in environment.vite /\ \E r \in reads : r.name = name /\ r.vite
    THEN "platform-provided"
    ELSE IF name \in declared THEN "documented"
    ELSE IF environment.templates # <<>> THEN "undocumented" ELSE "unverified"

UsedVariables(reads) == {r.name : r \in ToSet(reads)}

(* The sensitive variables that are required and nowhere declared.         *)
CandidateVariables(environment, L) ==
    LET reads == ReadsIn(environment.sources, L).named
        declared == DeclaredNames(environment.templates, L)
    IN  {n \in Least(UsedVariables(reads), L.variables) \cap environment.sensitive :
            /\ VariableStatus(n, ToSet(reads), declared, environment) = "undocumented"
            /\ \E r \in ToSet(reads) : r.name = n /\ RequiredRead(r)}

EnvironmentComparison(project, L) ==
    LET environment == project.environment
        inTemplates == DeclaredVariables(environment.templates, L)
        declared == DeclaredNames(environment.templates, L)
        collected == ReadsIn(environment.sources, L)
        used == UsedVariables(collected.named)
        variables == Least(used, L.variables)
        Status(n) == VariableStatus(n, ToSet(collected.named), declared, environment)
        ReadsOf(n) == Passing(collected.named, LAMBDA r : r.name = n)
        candidates == CandidateVariables(environment, L)
        cut == \/ collected.cut \/ collected.dynamic >= L.dynamic
               \/ \E t \in ToSet(environment.templates) : Len(Distinct(t)) > L.templateNames
               \/ Len(Distinct(inTemplates)) > L.templateNames
               \/ Cardinality(used) > L.variables
               \/ \E n \in variables : Len(ReadsOf(n)) > L.locations
    IN  [status |-> IF environment.sources = <<>> /\ environment.templates = <<>>
                   THEN "unsupported"
                   ELSE IF cut \/ project.truncated THEN "partial" ELSE "complete",
         verdicts |-> {<<Status(n), n>> : n \in variables}
            \cup {<<"unused", n>> : n \in declared \ used}
            \cup {<<"candidate", n>> : n \in Least(candidates, L.candidates)},
         counts |-> <<>>]

-----------------------------------------------------------------------------
(* scanApiContract.  A specification is [valid, paths], a path             *)
(* [ref, operations]; an operation is [method, path], and an entry point   *)
(* [path, methods].                                                        *)
CommonPathScope(paths) ==
    IF Len(paths) = 0 THEN <<>>
    ELSE IF Len(paths) = 1 THEN (IF Len(paths[1]) > 1 THEN Front(paths[1]) ELSE paths[1])
    ELSE LongestCommonPrefix(ToSet(paths))

WithinScope(path, scope) == scope # <<>> /\ IsPrefix(scope, path)

ReadPath(read, path) ==
    IF Len(read.operations) >= read.limit THEN read
    ELSE [read EXCEPT !.operations = @ \o path.operations, !.failed = @ \/ path.ref]

ReadSpecification(read, specification) ==
    LET after == FoldLeft(ReadPath, read, specification.paths)
        own == SubSeq(after.operations, Len(read.operations) + 1, Len(after.operations))
        scope == CommonPathScope([o \in DOMAIN own |-> own[o].path])
    IN  IF ~specification.valid THEN [read EXCEPT !.failed = TRUE]
        ELSE [after EXCEPT !.specifications = @ + 1, !.scopes = @ \cup {scope}]

DeclaredOperations(specifications, L) ==
    FoldLeft(ReadSpecification,
             [operations |-> <<>>, scopes |-> {}, specifications |-> 0, failed |-> FALSE,
              limit |-> L.operations],
             UpTo(specifications, L.specifications))

OperationsOf(entrypoint) ==
    [m \in DOMAIN entrypoint.methods |->
        [method |-> entrypoint.methods[m], path |-> entrypoint.path]]

AllSourceOperations(entrypoints) ==
    Joined([e \in DOMAIN entrypoints |-> OperationsOf(entrypoints[e])])

SourceOperations(entrypoints, L) == UpTo(AllSourceOperations(entrypoints), L.sourceOperations)

WithoutMethods(entrypoints) == Passing(entrypoints, LAMBDA e : e.methods = <<>>)

ApiVerdicts(declared, source) ==
    {<<"declared", o, IF o \in ToSet(source) THEN "matched" ELSE "declared-only">> :
        o \in ToSet(declared.operations)}
    \cup {<<"source", o, IF o \in ToSet(declared.operations) THEN "matched"
                        ELSE IF \E s \in declared.scopes : WithinScope(o.path, s)
                        THEN "source-only" ELSE "outside-contract-scope">> : o \in ToSet(source)}

(* Mutant: a list that is as long as its limit is taken for a whole one.   *)
ApiContractAtLimit(project, L) ==
    LET declared == DeclaredOperations(project.api.specifications, L)
        source == SourceOperations(project.api.entrypoints, L)
        cut == \/ Len(project.api.specifications) > L.specifications
               \/ Len(declared.operations) > L.operations
               \/ Len(source) > L.sourceOperations
               \/ Len(WithoutMethods(project.api.entrypoints)) > L.routes
    IN  [status |-> IF declared.specifications = 0 THEN "unsupported"
                    ELSE Completeness(project, cut \/ declared.failed),
         verdicts |-> ApiVerdicts(declared, source),
         counts |-> [operations |-> Len(declared.operations)]]

ApiContract(project, L) ==
    LET declared == DeclaredOperations(project.api.specifications, L)
        source == SourceOperations(project.api.entrypoints, L)
        cut == \/ Len(project.api.specifications) > L.specifications
               \/ Len(declared.operations) >= L.operations
               \/ Len(source) >= L.sourceOperations
               \/ Len(WithoutMethods(project.api.entrypoints)) > L.routes
    IN  [status |-> IF declared.specifications = 0 THEN "unsupported"
                    ELSE Completeness(project, cut \/ declared.failed),
         verdicts |-> ApiVerdicts(declared, source),
         counts |-> [operations |-> Len(declared.operations)]]

-----------------------------------------------------------------------------
(* scanDatabaseContract.  A file is [kind, malformed, tables], a table     *)
(* [name, operation].  A reference is a token that may be bound to a table.*)
IsSchemaFile(file) ==
    \/ file.kind = "prisma"
    \/ file.kind = "drizzle" /\ file.tables # <<>>
    \/ file.kind = "sql" /\ \E t \in ToSet(file.tables) : t.operation = "create"

Declares(file, name) ==
    /\ IsSchemaFile(file)
    /\ \E t \in ToSet(file.tables) : t.name = name /\ t.operation = "create"

Migrates(file, name, operations) ==
    /\ file.kind = "migration"
    /\ \E t \in ToSet(file.tables) : t.name = name /\ t.operation \in operations

EntityOf(token, bindings) ==
    LET names == {b.name : b \in {c \in bindings : c.identifier = token}}
    IN  IF Cardinality(names) = 1 THEN CHOOSE n \in names : TRUE ELSE token

Gaps(name, files, sources) ==
    LET hasSchemas == \E f \in files : IsSchemaFile(f)
        hasMigrations == \E f \in files : f.kind = "migration"
        declared == \E f \in files : Declares(f, name)
        migrated == \E f \in files : Migrates(f, name, {"create", "alter", "drop"})
        created == \E f \in files : Migrates(f, name, {"create"})
    IN  {g \in {"source-without-declaration", "declaration-without-create-migration",
                "migration-without-declaration"} :
            CASE g = "source-without-declaration" -> hasSchemas /\ name \in sources /\ ~declared
              [] g = "declaration-without-create-migration" -> hasMigrations /\ declared /\ ~created
              [] OTHER -> hasSchemas /\ migrated /\ ~declared}

(* The first entities of all that are declared, migrated or referred to.   *)
(* The summary counts the files that there are, not those that are kept.   *)
DatabaseContract(project, L) ==
    LET db == project.database
        files == ToSet(db.files)
        sources == {EntityOf(t, db.bindings) : t \in db.references}
        schemas == Passing(db.files, IsSchemaFile)
        migrations == Passing(db.files, LAMBDA f : f.kind = "migration")
        All(P(_, _)) == {n \in UNION {{t.name : t \in ToSet(f.tables)} : f \in files} :
                            \E f \in files : P(f, n)}
        declared == All(Declares)
        migrated == All(LAMBDA f, n : Migrates(f, n, {"create", "alter", "drop"}))
        names == sources \cup declared \cup migrated
        kept == Least(names, L.entities)
        cut == \/ Len(schemas) > L.schemaFiles \/ Len(migrations) > L.migrationFiles
               \/ Cardinality(names) > L.entities
        failed == \E f \in files : f.malformed
    IN  [status |-> IF schemas = <<>> /\ migrations = <<>> THEN "unsupported"
                    ELSE Completeness(project, cut \/ failed),
         verdicts |-> {<<n, Gaps(n, files, sources)>> : n \in kept},
         counts |-> [schemaFiles |-> Len(schemas), migrationFiles |-> Len(migrations),
                     declaredEntities |-> Cardinality(declared),
                     migrationEntities |-> Cardinality(migrated),
                     sourceEntities |-> Cardinality(sources)]]

-----------------------------------------------------------------------------
(* scanWebhookContract.  An entry point is [id, label, symbols, file], a   *)
(* call [caller, target], target 0 if it is not resolved, a fact           *)
(* [kind, owner, file], and a reference to an event [event, direction,     *)
(* symbol, dispatched]; unparsed says that a file of events is malformed.  *)
AddEdge(walk, call) ==
    IF Cardinality(walk.edges) >= walk.limits.edges THEN [walk EXCEPT !.truncated = TRUE]
    ELSE LET walked == [walk EXCEPT !.edges = @ \cup {call}]
         IN  IF call.target = 0 \/ call.target \in ToSet(walk.symbols) THEN walked
             ELSE IF Len(walk.symbols) >= walk.limits.symbols
             THEN [walked EXCEPT !.truncated = TRUE]
             ELSE [walked EXCEPT !.symbols = Append(@, call.target),
                                 !.depths = Append(@, walk.depths[walk.at] + 1)]

CallsOf(calls, symbol) == Passing(calls, LAMBDA c : c.caller = symbol)

VisitSymbol(walk, i) ==
    LET outgoing == CallsOf(walk.calls, walk.symbols[i])
    IN  IF i > Len(walk.symbols) THEN walk
        ELSE IF walk.depths[i] >= walk.limits.depth
        THEN [walk EXCEPT !.truncated = @ \/ \E c \in ToSet(outgoing) : c.target # 0]
        ELSE FoldLeft(AddEdge, [walk EXCEPT !.at = i], outgoing)

(* The symbols are the queue of the search, in which one is visited at a   *)
(* time.                                                                   *)
TraverseCalls(starts, calls, L) ==
    FoldLeft(VisitSymbol,
             [symbols |-> starts, depths |-> [s \in DOMAIN starts |-> 0], edges |-> {},
              truncated |-> FALSE, at |-> 0, calls |-> calls, limits |-> L],
             [i \in 1..(Len(starts) + Len(calls)) |-> i])

Evidence(facts, e, walk, kind) ==
    {f \in facts : f.kind = kind /\ (f.file = e.file \/ f.owner \in ToSet(walk.symbols))}

(* Callbacks count if their calls verify a signature.                      *)
Selected(hooks, L) ==
    LET Walk(e) == TraverseCalls(e.symbols, hooks.calls, L)
    IN  UpTo(Passing(hooks.entrypoints,
                LAMBDA e : \/ e.label = "webhook"
                           \/ /\ e.label = "callback"
                              /\ Evidence(hooks.facts, e, Walk(e), "webhook-verification") # {}),
             L.endpoints)

EventReferences(references, reachable, L) ==
    UpTo(Passing(references, LAMBDA r : r.symbol \in reachable \/ r.dispatched), L.events)

EventStatus(kept, event) ==
    LET In(direction) == \E r \in ToSet(kept) : r.event = event /\ r.direction = direction
    IN  IF In("produced") /\ In("consumed") THEN "matched-local"
        ELSE IF In("produced") THEN "external-producer-boundary"
        ELSE "external-consumer-boundary"

WebhookContract(project, L) ==
    LET hooks == project.webhooks
        Walk(e) == TraverseCalls(e.symbols, hooks.calls, L)
        endpoints == ToSet(Selected(hooks, L))
        reachable == UNION {ToSet(Walk(e).symbols) : e \in endpoints}
        kept == EventReferences(hooks.references, reachable, L)
        candidates == Passing(hooks.entrypoints, LAMBDA e : e.label \in {"webhook", "callback"})
        cut == \/ Len(candidates) > L.endpoints
               \/ \E e \in endpoints : Walk(e).truncated
               \/ Len(kept) >= L.events
        Evidenced(e, kind) == Evidence(hooks.facts, e, Walk(e), kind)
        kinds == {"webhook-verification", "idempotency"}
    IN  [status |-> IF endpoints = {} THEN "unsupported"
                    ELSE Completeness(project, cut \/ hooks.unparsed),
         verdicts |-> {<<e.id, {k \in kinds : Evidenced(e, k) # {}}>> : e \in endpoints}
            \cup {<<r.event, EventStatus(kept, r.event)>> : r \in ToSet(kept)},
         counts |-> [evidence |-> {Cardinality(Evidenced(e, k)) : e \in endpoints, k \in kinds}]]

-----------------------------------------------------------------------------
(* scanFeatureFlags.  A declaration is [key, value], a call [key, value],  *)
(* key 0 if it is dynamic; a value is "none" if there is no literal one.   *)
(* A source file is [parsed, flagged, declarations, calls].                *)
JsonDeclarations(flags, L) ==
    UpTo(Joined([f \in DOMAIN flags.json |-> UpTo(flags.json[f], L.declarations)]),
         L.declarations)

ParsedFiles(flags) == Passing(flags.sources, LAMBDA f : f.parsed)

TypescriptDeclarations(flags, L) ==
    LET files == ParsedFiles(flags)
    IN  Joined([f \in DOMAIN files |-> UpTo(files[f].declarations, L.declarations)])

Usages(flags, L) ==
    LET files == ParsedFiles(flags)
    IN  UpTo(Joined([f \in DOMAIN files |-> files[f].calls]), L.usages)

Values(records, key) == {r.value : r \in {q \in ToSet(records) : q.key = key}} \ {"none"}

DefaultConflict(declarations, usages, key) ==
    LET used == Values(usages, key)
        declared == Values(declarations, key)
    IN  \/ Cardinality(used) > 1
        \/ Cardinality(used) = 1 /\ Cardinality(declared) = 1 /\ used # declared

FlagStatus(declarations, usages, key) ==
    LET Known(records) == \E r \in ToSet(records) : r.key = key
    IN  IF DefaultConflict(declarations, usages, key) THEN "default-conflict"
        ELSE IF ~Known(declarations) THEN "usage-only"
        ELSE IF ~Known(usages) THEN "declaration-only" ELSE "matched"

FeatureFlags(project, L) ==
    LET flags == project.flags
        json == JsonDeclarations(flags, L)
        typescript == TypescriptDeclarations(flags, L)
        declarations == UpTo(json \o typescript, L.declarations)
        usages == Usages(flags, L)
        keys == {r.key : r \in ToSet(declarations) \cup ToSet(usages)} \ {0}
        failed == \E f \in ToSet(flags.sources) : ~f.parsed /\ f.flagged
        cut == Len(json) + Len(typescript) > L.declarations \/ Len(usages) >= L.usages
    IN  [status |-> IF declarations = <<>> /\ usages = <<>> /\ ~flags.provider /\ ~failed
                    THEN "unsupported" ELSE Completeness(project, cut \/ failed),
         verdicts |-> {<<k, FlagStatus(declarations, usages, k)>> : k \in keys},
         counts |-> [flags |-> Cardinality(keys)]]

-----------------------------------------------------------------------------
(* scanTestEvidence.  A file is [name, test, parsed, unresolved, imports], *)
(* critical if it has an entry point or a sensitive fact.                  *)
ReachableFrom(start, files, depth) ==
    LET Imports(names) == UNION {f.imports : f \in {g \in files : g.parsed /\ g.name \in names}}
        reached[d \in 0..depth] ==
            IF d = 0 THEN {} ELSE reached[d - 1] \cup Imports(reached[d - 1] \cup {start})
    IN  reached[depth]

TestEvidence(project, L) ==
    LET files == project.tests.files
        tests == {f.name : f \in {g \in files : g.test}}
        critical == project.tests.critical
        targets == Least(critical, L.targets)
        Related(c) == {t \in tests : c \in ReachableFrom(t, files, L.importDepth)}
        cut == \/ Cardinality(critical) > L.targets
               \/ \E c \in targets : Cardinality(Related(c)) > L.related
        failed == \E f \in files : ~f.parsed \/ f.unresolved
    IN  [status |-> IF project.profile = "unsupported" \/ critical = {} THEN "unsupported"
                    ELSE IF cut \/ failed \/ project.truncated THEN "partial" ELSE "complete",
         verdicts |-> {<<c, IF Related(c) # {} THEN "observed" ELSE "not-observed">> :
                        c \in targets},
         counts |-> [targets |-> Cardinality(targets)]]

-----------------------------------------------------------------------------
Analyses == {"environment", "api", "database", "webhooks", "flags", "tests",
             "architecture", "duplication", "measures", "dead code"}

Analysis(a, project, L) ==
    CASE a = "environment" -> EnvironmentComparison(project, L)
      [] a = "api" -> ApiContract(project, L)
      [] a = "database" -> DatabaseContract(project, L)
      [] a = "webhooks" -> WebhookContract(project, L)
      [] a = "flags" -> FeatureFlags(project, L)
      [] a = "tests" -> TestEvidence(project, L)
      [] a = "architecture" -> Architecture(project, L)
      [] a = "duplication" -> Duplication(project, L)
      [] a = "measures" -> Measures(project, L)
      [] a = "dead code" -> DeadCode(project, L)

(* parseAuditReport, of the counts that the analyses may exceed.           *)
Accepted(a, counts) ==
    CASE a = "api" -> counts.operations <= Maximum.operations
      [] a = "database" -> /\ counts.schemaFiles <= Maximum.schemaFiles
                           /\ counts.migrationFiles <= Maximum.migrationFiles
                           /\ counts.declaredEntities <= Maximum.entities
                           /\ counts.migrationEntities <= Maximum.entities
                           /\ counts.sourceEntities <= Maximum.entities
      [] a = "webhooks" -> \A n \in counts.evidence : n <= Maximum.evidence
      [] a = "flags" -> counts.flags <= Maximum.usages
      [] a = "tests" -> counts.targets <= Maximum.targets
      [] a = "architecture" -> \A n \in counts.cycleFiles : n <= Maximum.cycleFiles
      [] OTHER -> TRUE

ContractsInit ==
    /\ contracted \in Contracted
    /\ answers = <<>>
    /\ written = "not yet"

(* The nodes of these analyses do not read what the others write, and      *)
(* DeterministicPipeline shows that it does not matter in which order they *)
(* return.                                                                 *)
AnalysesReturn ==
    /\ answers = <<>>
    /\ answers' = [a \in Analyses |-> Analysis(a, contracted, Maximum)]
    /\ UNCHANGED <<contracted, written>>

(* The report with all answers is parsed, or the audit fails.              *)
SaveContracts ==
    /\ answers # <<>> /\ written = "not yet"
    /\ written' = IF \A a \in Analyses : Accepted(a, answers[a].counts)
                  THEN "accepted" ELSE "refused"
    /\ UNCHANGED <<contracted, answers>>

ContractsNext == AnalysesReturn \/ SaveContracts

ContractsSpec == ContractsInit /\ [][ContractsNext]_contractVars

-----------------------------------------------------------------------------
(* Some limits cut without a word: the one of the flags in JSON files, and *)
(* of those in one source file, which are cut before they are counted; the *)
(* ones of the calls of a callback, which may hide the verification for    *)
(* which it would count; those of the commands in manifests, which may use *)
(* a dependency; the one of the coverage artifacts; and the one of the     *)
(* findings about variables, whose number is only in the words of the run. *)
CutUntold(a, project) ==
    \/ a = "flags" /\
            \/ Len(Joined(project.flags.json)) > Maximum.declarations
            \/ \E f \in ToSet(project.flags.sources) :
                    f.parsed /\ Len(f.declarations) > Maximum.declarations
    \/ a = "webhooks" /\ \E e \in ToSet(project.webhooks.entrypoints) :
            /\ e.label = "callback"
            /\ TraverseCalls(e.symbols, project.webhooks.calls, Maximum).truncated
    \/ a = "dead code" /\ ManifestCommands(project.code.manifests, Maximum)
                             # ManifestCommands(project.code.manifests, Unlimited)
    \/ a = "environment" /\ Cardinality(CandidateVariables(project.environment, Unlimited))
                                > Maximum.candidates
    \/ a = "measures" /\ Len(project.code.artifacts) > Maximum.artifacts

(* An answer that is complete says of each variable, operation, entity,    *)
(* endpoint, flag, cycle or file what it would say without limits: a limit *)
(* that drops a record, be it on the other side of the comparison, never   *)
(* leaves a gap or a match that the project has not, or hides one.         *)
VerdictsAreWhole ==
    \A a \in DOMAIN answers : answers[a].status = "complete" =>
        \/ answers[a].verdicts = Analysis(a, contracted, Unlimited).verdicts
        \/ CutUntold(a, contracted)

(* The outputs keep within their bounds ("The output retains at most 100   *)
(* schema files, 500 migration files, ..."), so that the report is saved.  *)
ContractsAreSaved == written # "refused"
=============================================================================
