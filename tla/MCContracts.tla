----------------------------- MODULE MCContracts -----------------------------
(* Projects that lie below, at and above each limit of one analysis, while *)
(* the others have nothing to compare.                                     *)
EXTENDS Contracts

FewOfEach ==
    [specifications |-> 2, operations |-> 3, sourceOperations |-> 3, routes |-> 1,
     schemaFiles |-> 2, migrationFiles |-> 2, entities |-> 2, endpoints |-> 2, depth |-> 2,
     symbols |-> 3, edges |-> 4, events |-> 2, evidence |-> 1, declarations |-> 2,
     usages |-> 3, targets |-> 2, related |-> 1, importDepth |-> 2,
     templateNames |-> 3, variables |-> 2, reads |-> 4, dynamic |-> 2, locations |-> 2,
     candidates |-> 1,
     cycles |-> 2, cycleFiles |-> 2, orphans |-> 1, hotspots |-> 2, blocks |-> 2,
     nodes |-> 3, functionHotspots |-> 2, artifacts |-> 1, commands |-> 2,
     allCommands |-> 3, references |-> 3, deadCode |-> 2]

Uncompared ==
    [truncated |-> FALSE, profile |-> "complete",
     environment |-> [templates |-> <<>>, sources |-> <<>>, platform |-> {}, vite |-> {},
                      sensitive |-> {}],
     structure |-> [supported |-> FALSE, tested |-> TRUE, modules |-> <<>>, expectedRoots |-> {}],
     copies |-> [supported |-> FALSE, tested |-> TRUE, duplicates |-> <<>>, clones |-> 0,
                 length |-> <<9, 9>>],
     code |-> [files |-> <<>>, artifacts |-> <<>>, entrypoints |-> {}, conventional |-> {},
               manifests |-> <<>>, imported |-> {}, implicit |-> {}, ignored |-> {},
               issues |-> <<>>, misconfigured |-> FALSE, tested |-> TRUE],
     api |-> [specifications |-> <<>>, entrypoints |-> <<>>],
     database |-> [files |-> <<>>, bindings |-> {}, references |-> {}],
     webhooks |-> [entrypoints |-> <<>>, calls |-> <<>>, facts |-> {}, references |-> <<>>,
                  unparsed |-> FALSE],
     flags |-> [json |-> <<>>, sources |-> <<>>, provider |-> FALSE],
     tests |-> [files |-> {}, critical |-> {}]]

UpToN(S, n) == UNION {[1..m -> S] : m \in 0..n}

-----------------------------------------------------------------------------
(* Paths /v/a and /v/b with one or two methods, and /w beside them.        *)
Op(method, path) == [method |-> method, path |-> path]
Route(path, methods) == [path |-> path, methods |-> methods]
PathItem(path, methods, ref) ==
    [ref |-> ref, operations |-> [m \in DOMAIN methods |-> Op(methods[m], path)]]

A == <<"v", "a">>
B == <<"v", "b">>

SpecificationsOf ==
    {[valid |-> TRUE, paths |-> p] : p \in
        {<<PathItem(A, <<"get">>, FALSE)>>,
         <<PathItem(A, <<"get", "put">>, FALSE), PathItem(B, <<"get", "put">>, FALSE)>>,
         <<PathItem(B, <<>>, TRUE)>>}}
    \cup {[valid |-> FALSE, paths |-> <<>>]}

ApiProjects ==
    {[Uncompared EXCEPT !.api = [specifications |-> s, entrypoints |-> e]] :
        s \in UpToN(SpecificationsOf, 3),
        e \in {<<>>, <<Route(A, <<"get">>), Route(B, <<"get">>), Route(<<"w">>, <<>>)>>,
               <<Route(A, <<"get", "put">>), Route(<<"w">>, <<"get">>), Route(B, <<"put">>)>>,
               <<Route(B, <<>>), Route(A, <<>>)>>}}

-----------------------------------------------------------------------------
DbFile(kind, tables) == [kind |-> kind, malformed |-> FALSE, tables |-> tables]
Table(name, operation) == [name |-> name, operation |-> operation]

DbFiles ==
    {DbFile("prisma", <<Table(1, "create")>>),
     DbFile("drizzle", <<Table(2, "create"), Table(3, "create")>>),
     DbFile("sql", <<Table(1, "alter")>>),
     DbFile("migration", <<Table(1, "create"), Table(2, "alter")>>),
     DbFile("migration", <<>>)}

DatabaseProjects ==
    {[Uncompared EXCEPT !.database = [files |-> f, bindings |-> b, references |-> r]] :
        f \in UpToN(DbFiles, 3), r \in {{}, {2}, {1, 4}},
        b \in {{[identifier |-> 4, name |-> 3]},
               {[identifier |-> 4, name |-> 3], [identifier |-> 4, name |-> 2]}}}
    \cup {[Uncompared EXCEPT !.database.files =
                <<[DbFile("prisma", <<>>) EXCEPT !.malformed = TRUE]>>]}

-----------------------------------------------------------------------------
(* Symbols 1 to 4 that call each other in a chain or fork, at whose end    *)
(* there is a verification.                                                *)
CallOf(caller, target) == [caller |-> caller, target |-> target]
Chain == <<CallOf(1, 2), CallOf(2, 3), CallOf(3, 4)>>
Fork == <<CallOf(1, 2), CallOf(1, 3), CallOf(1, 4), CallOf(2, 1), CallOf(3, 0)>>
Hook(id, label, symbol) ==
    [id |-> id, label |-> label, symbols |-> <<symbol>>, file |-> id]
Event(event, direction, symbol) ==
    [event |-> event, direction |-> direction, symbol |-> symbol,
     dispatched |-> direction = "produced"]

WebhookProjects ==
    {[Uncompared EXCEPT !.webhooks =
        [entrypoints |-> e, calls |-> c,
         facts |-> {[kind |-> k, owner |-> o, file |-> IF o = 0 THEN "k" ELSE "lib"] :
                        k \in {"webhook-verification", "idempotency"}, o \in owners},
         references |-> r, unparsed |-> FALSE]] :
        e \in UpToN({Hook("h", "webhook", 1), Hook("w", "webhook", 4), Hook("k", "callback", 1)}, 2)
                \cup {<<Hook("o", "other", 1), Hook("k", "callback", 3), Hook("h", "webhook", 3)>>,
                      <<Hook("k", "callback", 2), Hook("h", "webhook", 1), Hook("w", "webhook", 4)>>},
        c \in {<<>>, SubSeq(Chain, 1, 2), Chain, Fork},
        owners \in {{0}, {1}, {4}, {2, 4}},
        r \in {<<>>, <<Event("x", "consumed", 3), Event("x", "produced", 0)>>,
               <<Event("y", "produced", 0), Event("x", "produced", 1), Event("y", "consumed", 1)>>}}

-----------------------------------------------------------------------------
Flag(key, value) == [key |-> key, value |-> value]
SourceOf(declarations, calls) ==
    [parsed |-> TRUE, flagged |-> TRUE, declarations |-> declarations, calls |-> calls]

FlagSources ==
    {SourceOf(<<>>, <<Flag(1, "none"), Flag(2, "on")>>),
     SourceOf(<<Flag(1, "off"), Flag(3, "none")>>, <<Flag(1, "on")>>),
     SourceOf(<<>>, <<Flag(4, "none"), Flag(0, "none")>>),
     SourceOf(<<Flag(1, "off"), Flag(2, "on"), Flag(4, "on")>>, <<>>),
     [SourceOf(<<>>, <<Flag(2, "off")>>) EXCEPT !.parsed = FALSE]}

FlagProjects ==
    {[Uncompared EXCEPT !.flags = [json |-> j, sources |-> s, provider |-> p]] :
        j \in UpToN({<<Flag(2, "off")>>, <<Flag(1, "on"), Flag(2, "on"), Flag(3, "on")>>}, 2),
        s \in UpToN(FlagSources, 2), p \in BOOLEAN}

-----------------------------------------------------------------------------
CodeFile(name, imports) ==
    [name |-> name, test |-> name > 5, parsed |-> TRUE, unresolved |-> FALSE, imports |-> imports]

TestProjects ==
    {[Uncompared EXCEPT !.tests = [files |-> f, critical |-> c]] :
        c \in {{}, {1}, {2, 3}, {1, 2, 3}},
        f \in {{CodeFile(1, {2}), CodeFile(2, {3}), CodeFile(3, {1}), CodeFile(6, i), CodeFile(7, j)} :
                i, j \in {{}, {1}, {2, 3}}}
              \cup {{[CodeFile(6, {}) EXCEPT !.unresolved = TRUE]}}}

-----------------------------------------------------------------------------
Plainly(name) == [name |-> name, vite |-> FALSE, listed |-> FALSE, alias |-> {},
                  guarded |-> FALSE, within |-> {}]
Compared(name) == [Plainly(name) EXCEPT !.within = {"comparison"}]
Viewed(name) == [Plainly(name) EXCEPT !.vite = TRUE, !.alias = {"fallback", "guard that throws"}]

EnvironmentProjects ==
    {[Uncompared EXCEPT !.environment =
        [templates |-> t, sources |-> s, platform |-> {4}, vite |-> {3}, sensitive |-> {1, 2, 3}]] :
        t \in UpToN({<<1>>, <<2, 1, 2>>, <<2, 3, 4, 5>>}, 2) \cup {<< <<1, 2>>, <<3>>, <<4>> >>},
        s \in UpToN({[parsed |-> TRUE, reads |-> r] : r \in
                        {<<Plainly(1)>>, <<Compared(1), Plainly(2)>>, <<Viewed(3), Plainly(0)>>,
                         <<Compared(2), Plainly(4), Viewed(2), Plainly(2), Plainly(1)>>}}
                      \cup {[parsed |-> FALSE, reads |-> <<Plainly(1)>>]}, 3)}

-----------------------------------------------------------------------------
(* The imports between three files, and a fourth beside them.              *)
Back(edges, target, file) ==
    LET third == CHOOSE k \in 1..3 : k \notin {target, file}
    IN  CASE <<target, file>> \in edges -> <<target, file>>
          [] {<<target, third>>, <<third, file>>} \subseteq edges -> <<target, third, file>>
          [] OTHER -> <<>>

ImportsOf(edges, file) ==
    LET targets == SetToSortSeq({e[2] : e \in {d \in edges : d[1] = file}}, <)
    IN  [t \in DOMAIN targets |->
            [target |-> targets[t], cycle |-> Back(edges, targets[t], file),
             circular |-> Back(edges, targets[t], file) # <<>>]]

ModuleOf(edges, file) ==
    LET dependents == SetToSortSeq({e[1] : e \in {d \in edges : d[2] = file}}, <)
    IN  [file |-> file, dependencies |-> ImportsOf(edges, file), dependents |-> dependents,
         orphan |-> \A e \in edges : file \notin {e[1], e[2]}]

StructureProjects ==
    {[Uncompared EXCEPT !.structure =
        [supported |-> TRUE, tested |-> TRUE, expectedRoots |-> roots,
         modules |-> [f \in 1..4 |-> ModuleOf(edges, f)] \o <<ModuleOf({}, 0)>>]] :
        roots \in {{}, {4}},
        edges \in SUBSET {<<1, 2>>, <<2, 1>>, <<1, 3>>, <<3, 1>>, <<2, 3>>, <<3, 2>>}}

Place(file, start, end) == [file |-> file, start |-> start, end |-> end]
Copy(first, second, lines) == [first |-> first, second |-> second, lines |-> lines]

CopyProjects ==
    {[Uncompared EXCEPT !.copies.supported = TRUE, !.copies.duplicates = d, !.copies.clones = n] :
        n \in 0..3,
        d \in UpToN({Copy(Place(1, 1, 4), Place(2, 2, 5), 4), Copy(Place(2, 2, 5), Place(1, 1, 4), 4),
                     Copy(Place(1, 6, 8), Place(1, 1, 3), 3), Copy(Place(2, 6, 10), Place(1, 1, 5), 5),
                     Copy(Place(0, 1, 3), Place(2, 6, 8), 3), Copy(Place(2, 1, 9), Place(1, 1, 9), 9)},
                    3)}

-----------------------------------------------------------------------------
Node == [function |-> FALSE]
FunctionOf(name, branches, lines) ==
    [function |-> TRUE, name |-> name, branches |-> branches, lines |-> lines, parameters |-> 2]

MeasuredProjects ==
    {[Uncompared EXCEPT !.code.files = f, !.code.artifacts = a] :
        f \in UpToN({<<Node, FunctionOf(1, 14, 20)>>,
                     <<FunctionOf(2, 13, 79), FunctionOf(3, 2, 80), Node>>,
                     <<Node, Node, Node, FunctionOf(4, 20, 90)>>,
                     <<FunctionOf(5, 14, 30), FunctionOf(6, 14, 30)>>}, 3),
        a \in {<<>>, <<1>>, <<1, 2>>}}

ScriptOf(packages, files) == [packages |-> packages, files |-> files]
ManifestOf(dependencies, commands, strings) ==
    [dependencies |-> dependencies, commands |-> commands, strings |-> strings]
Issue(file, unused, names) ==
    [file |-> file, unused |-> unused, unlisted |-> names, exports |-> names, types |-> <<>>]

UnusedProjects ==
    {[Uncompared EXCEPT !.code.manifests = m, !.code.imported = i, !.code.issues = j,
                        !.code.entrypoints = e, !.code.ignored = {6}] :
        m \in UpToN({ManifestOf({1, 2}, <<ScriptOf({1}, {}), ScriptOf({2}, {})>>, <<{1}>>),
                     ManifestOf({3, 6}, <<ScriptOf({}, {}), ScriptOf({}, {2}), ScriptOf({3}, {})>>, <<>>),
                     ManifestOf({4, 5}, <<>>, <<{}, {}, {}, {3}>>)}, 2),
        i \in {{}, {1, 4}, {3}}, e \in {{}, {1}},
        j \in UpToN({Issue(1, TRUE, <<1>>), Issue(2, TRUE, <<1, 2>>), Issue(0, TRUE, <<3>>)}, 3)}

-----------------------------------------------------------------------------
ManyMigrations ==
    {p \in DatabaseProjects : \A f \in ToSet(p.database.files) : f.kind = "migration"}

ProjectsAtLimits ==
    LET whole == ApiProjects \cup DatabaseProjects \cup WebhookProjects \cup FlagProjects
                    \cup TestProjects \cup EnvironmentProjects \cup StructureProjects
                    \cup CopyProjects \cup MeasuredProjects \cup UnusedProjects
    IN  whole \cup {[p EXCEPT !.truncated = TRUE] : p \in TestProjects}
              \cup {[p EXCEPT !.profile = "partial"] : p \in TestProjects}

=============================================================================
