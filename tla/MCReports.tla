------------------------------- MODULE MCReports -------------------------------
(* What a report says and who changes it: the reviews of stored reports,   *)
(* the analysis of a project, the map of its calls, the search of its      *)
(* functions, the comparison of what it declares with its source, the      *)
(* inventory of its packages and its profile.  The seven share nothing but *)
(* the report that comes of them, so that each is checked while the others *)
(* rest.                                                                   *)
EXTENDS ReportReviews, CallGraph, MCAuditAnalysis, MCSourceTaint, MCContracts, Inventory,
        ProjectProfile

-----------------------------------------------------------------------------
(* The calls: every set of eight between five symbols, and two entry       *)
(* points behind a middleware, with what they may do.                      *)
At(file, line) == [file |-> file, line |-> line]
Symbol(file, first, last) == [file |-> file, first |-> first, last |-> last]
Call(caller, target, line) == [caller |-> caller, target |-> target, place |-> At("f", line)]

SomeSymbols == [POST |-> Symbol("f", 1, 4), GET |-> Symbol("f", 5, 9), a |-> Symbol("f", 6, 7),
                b |-> Symbol("g", 1, 3), c |-> Symbol("g", 1, 9), mw |-> Symbol("m", 1, 2)]

Endpoint(kind, symbols, methods, traits, line) ==
    [kind |-> kind, symbols |-> symbols, methods |-> methods, traits |-> traits,
     place |-> At("f", line), covers |-> {}]

Middleware(place, covers) ==
    [kind |-> "middleware", symbols |-> {"mw"}, methods |-> {}, traits |-> {},
     place |-> place, covers |-> covers]

SomeCalls == <<Call("POST", "a", 2), Call("POST", "b", 3), Call("a", "b", 6), Call("b", "c", 1),
               Call("a", "c", 7), Call("c", "a", 8), Call("GET", "c", 9), Call("b", "POST", 3)>>

Fact(holder, kind) == [owner |-> holder, kind |-> kind, place |-> At("g", 5)]

Searched ==
    {[calls |-> SelectSeq(SomeCalls, LAMBDA call : call \in C), symbols |-> SomeSymbols,
      facts |-> {Fact("c", "database"), Fact("b", "raw-sql"), Fact("POST", "cookie")},
      entrypoints |-> {Endpoint("next-route", {"POST", "GET", "a"}, {"POST", "GET"}, {"routed"}, 1)}] :
        C \in SUBSET ToSet(SomeCalls)}

SomeGuards == {"authentication", "authorization", "resource-scope", "validation"}

Governed ==
    {[calls |-> <<Call("POST", "b", 2), Call("b", "c", 1)>>, symbols |-> SomeSymbols,
      facts |-> {Fact("c", operation), Fact("mw", inMiddleware), Fact("b", "logging")}
                    \cup {Fact("POST", g) : g \in inHandler} \cup {Fact("GET", "database")},
      entrypoints |-> {Endpoint(kind, {"POST"}, {"POST"}, {"routed"} \cup traits, 3),
                       Endpoint("next-route", {"GET"}, {"GET"}, {"routed", "dynamic"}, 3),
                       middleware}] :
        operation \in {"database", "outbound-request"},
        inMiddleware \in {"authentication", "authorization", "database"},
        inHandler \in {{}, SomeGuards} \cup {{g} : g \in SomeGuards},
        kind \in {"next-route", "server-action"},
        traits \in {{}, {"administrative", "dynamic"}, {"webhook"}, {"expected", "dynamic"},
                    {"changing", "payload"}},
        middleware \in {Middleware(At("m", 9), {}), Middleware(At("f", 1), {}),
                        Middleware(At("f", 9), {}), Middleware(At("m", 1), {At("f", 8)})}}

SomeProfiles == Searched \cup Governed

Risk(id, open, place, priority) == [id |-> id, open |-> open, place |-> place, priority |-> priority]

SomeCandidates ==
    {{Risk("r1", TRUE, At("g", 2), 2), Risk("r2", TRUE, At("f", 2), 1),
      Risk("r3", FALSE, At("f", 7), 3), Risk("r4", TRUE, At("h", 1), 1)}}

-----------------------------------------------------------------------------
VARIABLE machine    \* the one that moves

machineVars ==
    <<allVars, analysisVars, graphVars, taintVars, contractVars, inventoryVars, profileVars>>

Unreviewed == InitAll /\ reported = {}
Unanalysed == case = Plain /\ AnalysisInit
Unsearched ==
    /\ graph = (CHOOSE p \in Searched : p.calls = <<>>)
    /\ GraphInit
    /\ fact.kind = "cookie"
Unfollowed == program = (CHOOSE p \in Signed : TRUE) /\ TaintInit
Unwritten == contracted = Uncompared /\ answers = <<>> /\ written = "not yet"
Unlisted ==
    /\ inventoried = [manifests |-> <<>>, lockfiles |-> <<>>]
    /\ unread = <<>> /\ listed = <<>> /\ errors = {} /\ inventory = <<>>
Unprofiled ==
    /\ profiled = [truncated |-> FALSE, issues |-> FALSE, files |-> <<>>, roots |-> <<>>]
    /\ unvisited = <<>> /\ collected = Uncollected(profiled, Limits) /\ projectProfile = <<>>

(* The one that moves starts as it may, after the others are at rest.      *)
MCReportsInit ==
    /\ machine \in {"reviews", "analysis", "graph", "taint", "contracts", "inventory", "profile"}
    /\ machine # "reviews" => Unreviewed
    /\ machine # "analysis" => Unanalysed
    /\ machine # "graph" => Unsearched
    /\ machine # "taint" => Unfollowed
    /\ machine # "contracts" => Unwritten
    /\ machine # "inventory" => Unlisted
    /\ machine # "profile" => Unprofiled
    /\ \/ machine = "reviews" /\ InitAll
       \/ machine = "analysis" /\ AnalysisInit
       \/ machine = "graph" /\ GraphInit
       \/ machine = "taint" /\ TaintInit
       \/ machine = "contracts" /\ ContractsInit
       \/ machine = "inventory" /\ InventoryInit
       \/ machine = "profile" /\ ProfileInit

MCReportsNext ==
    /\ UNCHANGED machine
    /\ machine # "reviews" => UNCHANGED allVars
    /\ machine # "analysis" => UNCHANGED analysisVars
    /\ machine # "graph" => UNCHANGED graphVars
    /\ machine # "taint" => UNCHANGED taintVars
    /\ machine # "contracts" => UNCHANGED contractVars
    /\ machine # "inventory" => UNCHANGED inventoryVars
    /\ machine # "profile" => UNCHANGED profileVars
    /\ \/ machine = "reviews" /\ NextAll
       \/ machine = "analysis" /\ AnalysisNext
       \/ machine = "graph" /\ GraphNext
       \/ machine = "taint" /\ TaintNext
       \/ machine = "contracts" /\ ContractsNext
       \/ machine = "inventory" /\ InventoryNext
       \/ machine = "profile" /\ ProfileNext

MCReportsSpec == MCReportsInit /\ [][MCReportsNext]_<<machine, machineVars>>

Permuted == Permutations(Projects) \cup Permutations(Fingerprints)

-----------------------------------------------------------------------------
(* The inventory: two manifests, one of which may require the same packages,*)
(* and the graphs of up to three packages beneath them, with cycles.       *)
Entry(name, range, scope) == [name |-> name, range |-> range, scope |-> scope]
Manifest(file, entries) == [path |-> file, entries |-> entries]

(* Three packages of one version, and what each of them may require.       *)
X == <<"x", 1>>
Y == <<"y", 1>>
Z == <<"z", 1>>
Others(label) == CASE label = X -> <<Y, Z>> [] label = Y -> <<Z, X>> [] label = Z -> <<X, Y>>
Some(seq) == {SelectSeq(seq, LAMBDA l : l \in S) : S \in SUBSET ToSet(seq)}

Pnpm(label, requires) == [label |-> label, development |-> label = Z, requires |-> requires]
Importer(manifest, dir, requires) == [manifest |-> manifest, dir |-> dir, requires |-> requires]
Lock(kind, packages, importers) ==
    [kind |-> kind, file |-> kind, malformed |-> FALSE, manifest |-> "package.json",
     packages |-> packages, importers |-> importers]

TwoManifests ==
    <<Manifest("package.json", <<Entry("x", 1, "runtime"), Entry("y", 1, "development")>>),
      Manifest("w/package.json", <<Entry("x", 1, "development"), Entry("z", 2, "runtime")>>)>>

PnpmLocks ==
    {Lock("pnpm", <<Pnpm(X, x), Pnpm(Y, y), Pnpm(Z, z)>>,
          <<Importer("package.json", "", m), Importer("w/package.json", "w", w)>>) :
        x \in Some(Others(X)), y \in Some(Others(Y)), z \in Some(Others(Z)),
        m \in {<<X>>, <<X, Y>>}, w \in {<<>>, <<Z>>, <<Y, X>>}}
    \cup {[Lock("pnpm", <<>>, <<>>) EXCEPT !.malformed = TRUE]}

(* Nested packages: a second z below y, and x installed in w as well.      *)
Npm(dir, place, version, requires) ==
    [dir |-> dir, path |-> place, version |-> version, development |-> FALSE,
     requires |-> requires]

NpmLocks ==
    {Lock("npm",
          <<Npm("", <<"x">>, 1, x), Npm("", <<"y">>, 1, y), Npm("", <<"z">>, 1, z),
            Npm("", <<"y", "z">>, 2, <<"x">>), Npm("w", <<"x">>, v, <<"z">>)>>,
          <<Importer("package.json", "", m), Importer("w/package.json", "w", w)>>) :
        x \in {<<>>, <<"y">>}, y \in {<<>>, <<"z">>}, z \in {<<>>, <<"x", "y">>},
        v \in {1, 2}, m \in {<<"x">>, <<"y", "z">>}, w \in {<<"x">>, <<"z", "y">>}}

(* The label x@1 is reached in three ways before its second copy, in w,    *)
(* the only one that leads to the z of w.                                  *)
CrowdedLock ==
    Lock("npm",
         <<Npm("", <<"x">>, 1, <<>>), Npm("", <<"y">>, 1, <<"x">>),
           Npm("", <<"v">>, 1, <<"x">>), Npm("w", <<"x">>, 1, <<"z">>),
           Npm("w", <<"z">>, 1, <<>>)>>,
         <<Importer("package.json", "", <<"x", "y", "v">>),
           Importer("u/package.json", "u", <<"x">>),
           Importer("t/package.json", "t", <<"x">>),
           Importer("w/package.json", "w", <<"x">>)>>)

Yarn(label, ranges, requires) ==
    [label |-> label, selectors |-> {<<label[1], r>> : r \in ranges},
     development |-> FALSE, requires |-> requires]

YarnLocks ==
    {Lock("yarn", <<Yarn(X, {1}, x), Yarn(Y, r, y), Yarn(Z, {1}, <<<<"x", 1>>>>),
                    Yarn(<<"z", 2>>, {2}, <<<<"y", 1>>>>)>>, <<>>) :
        x \in {<<>>, <<<<"y", 1>>, <<"z", 1>>>>}, y \in {<<>>, <<<<"z", 1>>>>}, r \in {{1}, {3}}}

(* One route more than is followed leads to the last package.              *)
WideLock ==
    LET required == [n \in 1..(MaxRoutes + 1) |-> <<"wide", n>>]
    IN  Lock("pnpm",
             [n \in DOMAIN required |->
                Pnpm(required[n], IF n <= MaxRoutes THEN <<>> ELSE <<X>>)] \o <<Pnpm(X, <<>>)>>,
             <<Importer("package.json", "", required)>>)

TreeLock ==
    Lock("tree", <<[path |-> <<X>>, development |-> FALSE], [path |-> <<Y>>, development |-> TRUE],
                   [path |-> <<Y, Z>>, development |-> TRUE]>>, <<>>)

SomeProjects ==
    {[manifests |-> TwoManifests, lockfiles |-> <<l>>] :
        l \in PnpmLocks \cup NpmLocks \cup YarnLocks \cup {CrowdedLock, WideLock, TreeLock}}
    \cup {[manifests |-> TwoManifests, lockfiles |-> <<k, l>>] :
            k \in YarnLocks \cup {TreeLock}, l \in {CrowdedLock}}

-----------------------------------------------------------------------------
(* The profile: projects of up to four files, of two components and a      *)
(* third directory, at and around every limit.                             *)
SmallLimits ==
    [files |-> 3, nodes |-> 4, symbols |-> 4, imports |-> 3, calls |-> 4, facts |-> 3,
     entrypoints |-> 3, edges |-> 2, components |-> 2, componentEdges |-> 1,
     bindings |-> 1, entrySymbols |-> 1, matchers |-> 1, scopeNodes |-> 1]

Function(name) ==
    [kind |-> "function", owner |-> "none", name |-> name, exported |-> TRUE, inline |-> FALSE]
ImportOf(resolvable, imported, local) ==
    [kind |-> "import", owner |-> "none", candidates |-> resolvable,
     bindings |-> <<[imported |-> imported, local |-> local]>>]
CallIn(within, first, last) ==
    [kind |-> "call", owner |-> within, first |-> first, last |-> last, fact |-> "none",
     scoped |-> 0, callback |-> "none", entry |-> "none", guards |-> {}, member |-> FALSE]
Wrapped(guard, callback, entry) ==
    [CallIn("none", "app", "use") EXCEPT !.fact = guard, !.callback = callback, !.entry = entry]
Procedure(guard, callback, guards) ==
    [Wrapped(guard, callback, "procedure") EXCEPT !.guards = guards]
Catch(within) == [kind |-> "error-handling", owner |-> within]

FileA == <<"a">>
FileB == <<"w", "b">>
FileC == <<"w", "c">>
FileD == <<"v", "d">>

FileAt(at, roles, nodes) ==
    [path |-> at, valid |-> TRUE, roles |-> roles, matchers |-> <<"m">>,
     methods |-> <<[method |-> "GET", local |-> "f"], [method |-> "PUT", local |-> "x"]>>,
     nodes |-> nodes]

Variants(at) ==
    CASE at = FileA ->
            {FileAt(FileA, {"next-route"}, <<Function("f"), ImportOf(<<FileC, FileB>>, "g", "g"),
                                             CallIn("f", "g", "g"), Catch("f")>>),
             FileAt(FileA, {}, <<Procedure("authentication", "f", {"authentication"}), Function("f"),
                                 Procedure("none", "f", {"authentication", "validation"}),
                                 Catch("f"), Catch("f")>>),
             FileAt(FileA, {}, <<Function("f"), Procedure("none", "f", {"validation"}),
                                 [CallIn("f", "keys", "includes") EXCEPT !.member = TRUE]>>),
             FileAt(FileA, {"next-route"}, <<Function("f")>>)}
      [] at = FileB ->
            {FileAt(FileB, {"server-action"}, <<Function("g"), Function("h"),
                                                CallIn("g", "x", "h"), CallIn("h", "g", "g")>>),
             FileAt(FileB, {"server-action"}, <<Function("g"), Function("h")>>),
             FileAt(FileB, {}, <<ImportOf(<<FileA>>, "f", "g"), ImportOf(<<FileD>>, "k", "k"),
                                 [CallIn("none", "k", "k") EXCEPT !.scoped = 3],
                                 CallIn("none", "g", "g")>>)}
      [] at = FileC ->
            {FileAt(FileC, {"middleware"}, <<Function("g"), [Function("k") EXCEPT !.inline = TRUE],
                                             Wrapped("database", "inline", "route")>>),
             [FileAt(FileC, {}, <<>>) EXCEPT !.valid = FALSE],
             FileAt(FileC, {}, <<>>),
             FileAt(FileC, {}, <<ImportOf(<<FileB>>, "g", "g"), ImportOf(<<FileD>>, "*", "all"),
                                 [Wrapped("database", "none", "none") EXCEPT !.scoped = 2]>>)}
      [] at = FileD ->
            {FileAt(FileD, {"aws-lambda"}, <<Function("handler"), ImportOf(<<FileA>>, "f", "f"),
                                             CallIn("handler", "f", "f")>>),
             FileAt(FileD, {"next-pages-api", "middleware"}, <<Function("k")>>)}

Present(a, b, c, d) == FlattenSeq(<<a, b, c, d>>)
Optional(at) == {<<>>} \cup {<<f>> : f \in Variants(at)}

ProfiledProjects ==
    {[truncated |-> FALSE, issues |-> FALSE, files |-> Present(a, b, c, d), roots |-> r] :
        a \in Optional(FileA), b \in Optional(FileB), c \in Optional(FileC), d \in Optional(FileD),
        r \in {<<<<>>>>, <<<<>>, <<"w">>>>, <<<<"v">>, <<"w">>>>, <<<<>>, <<"v">>, <<"w">>>>}}
=============================================================================
