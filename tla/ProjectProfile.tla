---------------------------- MODULE ProjectProfile ----------------------------
(***************************************************************************)
(* The profile of a project (src/scanners/project-profile.ts): one pass    *)
(* over its files collects functions, imports, calls, facts and entry      *)
(* points, each up to a limit; then files are given to components and      *)
(* calls to the functions they name.  The other analyses of source read    *)
(* the profile, and take its status for theirs.                            *)
(*                                                                         *)
(* A project is [truncated, issues, files, roots]: roots are the           *)
(* directories of its manifests, sequences of names, the root first.  A    *)
(* file is [path, valid, roles, methods, matchers, nodes], where methods   *)
(* are the [method, local] it exports.  A node has a kind and the owner    *)
(* that encloses it: a function [name, exported, inline], an import        *)
(* [candidates, bindings], a call [first, last, fact, scoped, callback,    *)
(* entry, guards, member], or another node that is a fact.  Of a call,     *)
(* scoped says which of the nodes of its arguments is the first that names *)
(* an owner or a tenant, or 0; guards are what its name says of a          *)
(* procedure; and member is whether it looks for a request's credential in *)
(* a list.                                                                 *)
(***************************************************************************)
EXTENDS BoundedLists

CONSTANTS
    Limits,         \* a record
    MaxImportHops,
    Profiled        \* projects

VARIABLES
    profiled,       \* the project
    unvisited,      \* its files that are still to be visited
    collected,      \* the lists of the pass
    projectProfile  \* <<>> until it is assembled

profileVars == <<profiled, unvisited, collected, projectProfile>>

ListNames == {"symbols", "imports", "calls", "facts", "entrypoints"}

LimitNames ==
    ListNames \cup {"files", "nodes", "edges", "components", "componentEdges", "bindings",
                    "entrySymbols", "matchers", "scopeNodes"}

SilentLimits == {"bindings", "entrySymbols", "matchers", "scopeNodes"}

(* Limits are numbers; files, their nodes and directories come in lists.   *)
ASSUME LimitsAreNumbers ==
    Limits \in [LimitNames -> Nat]

ASSUME ProfiledInLists ==
    \A p \in Profiled :
        /\ p.truncated \in BOOLEAN
        /\ IsList(p.files) /\ IsList(p.roots)
        /\ \A f \in ToSet(p.files) : IsList(f.nodes) /\ IsList(f.methods)

(* Limits that leave more room, be it as much as one likes.  Four limits   *)
(* cut without a word: those of the bindings of an import, of the symbols  *)
(* and the matchers of an entry point, and of the nodes in which a call is *)
(* searched for an owner or a tenant.                                      *)
NoLimits == [l \in LimitNames |-> IF l \in SilentLimits THEN Limits[l] ELSE Limits[l] + Spare]

-----------------------------------------------------------------------------
(* cap.  The visit of a file has the lists so far, the limits, the paths   *)
(* that there are and the path of the file.                                *)
Added(c, list, item, L) ==
    IF Len(c[list]) < L[list] THEN [c EXCEPT ![list] = Append(@, item)]
    ELSE [c EXCEPT !.truncated = TRUE]

Cap(visit, list, item) == [visit EXCEPT !.lists = Added(@, list, item, visit.limits)]

CapFact(visit, fact) == Cap(visit, "facts", fact)
CapEntry(visit, entry) == Cap(visit, "entrypoints", entry)

(* resolveImport: an alias, a workspace package or a path, in this order,  *)
(* each with its extensions.                                               *)
ResolveImport(paths, candidates) == FirstSuch(candidates, LAMBDA f : f \in paths)

HasSymbol(c, file, name) == \E s \in ToSet(c.symbols) : s.file = file /\ s.name = name

(* A callback is written in place, or named if it is declared above.       *)
CallbackSymbol(c, path, node) ==
    IF node.callback = "inline" \/ HasSymbol(c, path, node.callback) THEN node.callback ELSE "none"

FactAt(path, kind, owner) == [file |-> path, kind |-> kind, owner |-> owner]

(* resourceScopeSignal: the node after the last that counts is looked at.  *)
Scoped(node, L) == node.scoped \in 1..(L.scopeNodes + 1)

FactsOf(visit, node) ==
    LET owner == IF node.owner = "none" /\ node.fact \in {"authentication", "authorization"}
                 THEN CallbackSymbol(visit.lists, visit.path, node) ELSE node.owner
    IN  (IF node.fact = "none" THEN <<>> ELSE <<FactAt(visit.path, node.fact, owner)>>)
        \o (IF Scoped(node, visit.limits)
            THEN <<FactAt(visit.path, "resource-scope", node.owner)>> ELSE <<>>)

(* Routes are entry points as they are, of the handler that is written in  *)
(* place or of what encloses them; hooks and procedures are entry points   *)
(* only if their handler is known.                                         *)
EntriesOf(c, path, node) ==
    LET handler == IF node.entry = "route" /\ node.callback # "inline" THEN node.owner
                   ELSE CallbackSymbol(c, path, node)
    IN  IF node.entry = "none" \/ (node.entry # "route" /\ handler = "none") THEN <<>>
        ELSE <<[kind |-> node.entry, file |-> path, symbols |-> {handler} \ {"none"},
                matchers |-> <<>>]>>

(* What a procedure is guarded by, once it is an entry point: its callers, *)
(* its input; and the credential that is looked for.                       *)
GuardsOf(path, node, procedure) ==
    LET Guard(kind) == IF procedure /\ kind \in node.guards
                       THEN <<FactAt(path, kind, node.callback)>> ELSE <<>>
    IN  Guard("authentication") \o Guard("validation")
        \o (IF node.member /\ node.owner # "none"
            THEN <<FactAt(path, "authentication", node.owner)>> ELSE <<>>)

AddCall(visit, node) ==
    LET c == visit.lists
        call == [file |-> visit.path, first |-> node.first, last |-> node.last,
                 caller |-> node.owner]
        called == Cap(visit, "calls", call)
        known == FoldLeft(CapFact, called, FactsOf(visit, node))
        entered == FoldLeft(CapEntry, known, EntriesOf(c, visit.path, node))
        procedure == /\ node.entry = "procedure"
                     /\ Len(entered.lists.entrypoints) > Len(c.entrypoints)
    IN  FoldLeft(CapFact, entered, GuardsOf(visit.path, node, procedure))

ImportBindings(node, L) == UpTo(node.bindings, L.bindings)

AddImport(visit, node) ==
    Cap(visit, "imports",
        [file |-> visit.path, resolved |-> ResolveImport(visit.paths, node.candidates),
         bindings |-> ImportBindings(node, visit.limits)])

FunctionSymbol(path, node) ==
    [file |-> path, name |-> node.name, exported |-> node.exported, inline |-> node.inline]

AddNode(visit, node) ==
    CASE node.kind = "function" -> Cap(visit, "symbols", FunctionSymbol(visit.path, node))
      [] node.kind = "import" -> AddImport(visit, node)
      [] node.kind = "call" -> AddCall(visit, node)
      [] OTHER -> CapFact(visit, FactAt(visit.path, node.kind, node.owner))

EntryOf(kind, file, symbols, matchers) ==
    [kind |-> kind, file |-> file.path, symbols |-> symbols, matchers |-> matchers]

PerSymbol(kind, file, symbols) ==
    [i \in DOMAIN symbols |-> EntryOf(kind, file, {symbols[i].name}, <<>>)]

SymbolsOf(c, file) == Passing(c.symbols, LAMBDA s : s.file = file.path)

NextRoutes(c, file) ==
    LET Handler(m) == {s.name : s \in {x \in ToSet(SymbolsOf(c, file)) : x.name = m.local}}
    IN  [m \in DOMAIN file.methods |->
            EntryOf("next-route", file, Handler(file.methods[m]), <<>>)]

InlineActions(c, file) ==
    PerSymbol("server-action", file, Passing(SymbolsOf(c, file), LAMBDA s : s.inline))

(* addFileEntrypoints: what a file is by its name, its directive or the    *)
(* type of its handler; it may be all of it.                               *)
InRole(file, role, entries) == IF role \in file.roles THEN entries ELSE <<>>

FileEntrypoints(c, file, L) ==
    LET exported == Passing(SymbolsOf(c, file), LAMBDA s : s.exported)
        named == {s.name : s \in ToSet(UpTo(exported, L.entrySymbols))}
        handler == FirstSuch(exported, LAMBDA s : s.name = "handler")
        matchers == UpTo(file.matchers, L.matchers)
    IN  InRole(file, "next-route", NextRoutes(c, file))
        \o InRole(file, "next-pages-api", <<EntryOf("next-pages-api", file, named, <<>>)>>)
        \o InRole(file, "server-action", PerSymbol("server-action", file, exported))
        \o InRole(file, "aws-lambda", PerSymbol("aws-lambda", file, handler))
        \o InlineActions(c, file)
        \o InRole(file, "middleware", <<EntryOf("middleware", file, named, matchers)>>)

Visit(c, file, paths, L) ==
    FoldLeft(AddNode, [lists |-> c, limits |-> L, paths |-> paths, path |-> file.path],
             UpTo(file.nodes, L.nodes)).lists

VisitFileIn(c, file, paths, L) ==
    LET visited == Visit(c, file, paths, L)
        bounded == [visited EXCEPT !.truncated = @ \/ Len(file.nodes) > L.nodes]
    IN  IF Len(bounded.entrypoints) >= L.entrypoints THEN [bounded EXCEPT !.truncated = TRUE]
        ELSE [bounded EXCEPT !.entrypoints = @ \o FileEntrypoints(bounded, file, L)]

Parsed(project, L) == UpTo(project.files, L.files)
Paths(project, L) == {f.path : f \in ToSet(Parsed(project, L))}
Uncollected(project, L) ==
    [symbols |-> <<>>, imports |-> <<>>, calls |-> <<>>, facts |-> <<>>, entrypoints |-> <<>>,
     truncated |-> project.truncated \/ Len(project.files) > L.files]

-----------------------------------------------------------------------------
(* resolveCallTargets: a function of the file that is named as the end of  *)
(* the call, or the one that its beginning is imported as, over files that *)
(* import it themselves.                                                   *)
(* Where the imports of a file say that a name comes from.                 *)
ImportedFrom(c, file, name) ==
    LET Bound(i) == FirstSuch(i.bindings, LAMBDA b : b.local = name /\ b.imported # "*")
        binding == SelectSeq(c.imports,
                    LAMBDA i : i.file = file /\ i.resolved # <<>> /\ Bound(i) # <<>>)
    IN  [n \in DOMAIN binding |-> <<binding[n].resolved[1], Bound(binding[n])[1].imported>>]

Target(c, call) ==
    LET places == UNION {{<<i.resolved[1], b.imported>> : b \in ToSet(i.bindings)} :
                            i \in {j \in ToSet(c.imports) : j.resolved # <<>>}}
        found[h \in 0..MaxImportHops, at \in places] ==
            IF HasSymbol(c, at[1], at[2]) THEN <<at>>
            ELSE IF h = 0 THEN <<>>
            ELSE LET next == ImportedFrom(c, at[1], at[2])
                 IN  UpTo(FlattenSeq([n \in DOMAIN next |-> found[h - 1, next[n]]]), 1)
        from == ImportedFrom(c, call.file, call.first)
    IN  IF HasSymbol(c, call.file, call.last) THEN <<<<call.file, call.last>>>>
        ELSE UpTo(FlattenSeq([n \in DOMAIN from |-> found[MaxImportHops, from[n]]]), 1)

(* componentOwner: the deepest of the directories that hold the file.      *)
ComponentOwner(roots, path) ==
    LET holding == SelectSeq(roots, LAMBDA r : IsPrefix(r, path))
        deepest == SelectSeq(holding, LAMBDA r : \A q \in ToSet(holding) : Len(q) <= Len(r))
    IN  UpTo(deepest, 1)

(* componentImportEdges, the ones of most imports first.  The ids that     *)
(* break a tie are hashes: the order of the directories stands for them.   *)
ComponentImports(c, roots) ==
    LET From(i) == ComponentOwner(roots, i.file)
        To(i) == IF i.resolved = <<>> THEN <<>> ELSE ComponentOwner(roots, i.resolved[1])
        crossing == Passing(c.imports, LAMBDA i : <<>> \notin {From(i), To(i)} /\ From(i) # To(i))
    IN  [n \in DOMAIN crossing |-> From(crossing[n]) \o To(crossing[n])]

ComponentEdges(c, roots, L) ==
    LET all == ComponentImports(c, roots)
        Imports(e) == Cardinality({i \in DOMAIN all : all[i] = e})
        Place(e) == <<CHOOSE i \in DOMAIN roots : roots[i] = e[1],
                      CHOOSE i \in DOMAIN roots : roots[i] = e[2]>>
        Before(d, e) == \/ Imports(d) > Imports(e)
                        \/ /\ Imports(d) = Imports(e)
                           /\ \/ Place(d)[1] < Place(e)[1]
                              \/ (Place(d)[1] = Place(e)[1] /\ Place(d)[2] < Place(e)[2])
    IN  {e \in ToSet(all) : Cardinality({d \in ToSet(all) \ {e} : Before(d, e)}) < L.componentEdges}

(* componentDeclarations: the directories of the manifests, and the root.  *)
Components(project, L) == UpTo(project.roots, L.components)

Resolved(c) == Passing(c.calls, LAMBDA k : Target(c, k) # <<>>)

(* Mutant: the edges between components are cut without a word.            *)
IsCutQuietly(project, c, L) ==
    \/ c.truncated
    \/ Len(Resolved(c)) > L.edges
    \/ Len(project.roots) > L.components

IsCut(project, c, L) ==
    \/ c.truncated
    \/ Len(Resolved(c)) > L.edges
    \/ Len(project.roots) > L.components
    \/ Cardinality(ToSet(ComponentImports(c, Components(project, L)))) > L.componentEdges

ProfileOf(project, c, L) ==
    LET roots == Components(project, L)
        targeted == UpTo(Resolved(c), L.edges)
        invalid == project.issues \/ \E f \in ToSet(Parsed(project, L)) : ~f.valid
        Owned(s) == [i \in DOMAIN s |-> <<s[i], ComponentOwner(roots, s[i].file)>>]
    IN  [status |-> IF Parsed(project, L) = <<>> THEN "unsupported"
                    ELSE IF IsCut(project, c, L) \/ invalid THEN "partial" ELSE "complete",
         symbols |-> Owned(c.symbols), imports |-> Owned(c.imports), facts |-> Owned(c.facts),
         entrypoints |-> Owned(UpTo(c.entrypoints, L.entrypoints)),
         calls |-> [i \in DOMAIN targeted |-> <<targeted[i], Target(c, targeted[i])[1]>>],
         componentEdges |-> ComponentEdges(c, roots, L)]

-----------------------------------------------------------------------------
ProfileInit ==
    /\ profiled \in Profiled
    /\ unvisited = Parsed(profiled, Limits)
    /\ collected = Uncollected(profiled, Limits)
    /\ projectProfile = <<>>

VisitFile ==
    /\ unvisited # <<>>
    /\ unvisited' = Tail(unvisited)
    /\ collected' = VisitFileIn(collected, Head(unvisited), Paths(profiled, Limits), Limits)
    /\ UNCHANGED <<profiled, projectProfile>>

AssembleProfile ==
    /\ unvisited = <<>> /\ projectProfile = <<>>
    /\ projectProfile' = <<ProfileOf(profiled, collected, Limits)>>
    /\ UNCHANGED <<profiled, unvisited, collected>>

ProfileNext == VisitFile \/ AssembleProfile

ProfileSpec == ProfileInit /\ [][ProfileNext]_profileVars

-----------------------------------------------------------------------------
VisitWhole(c, file) == VisitFileIn(c, file, Paths(profiled, NoLimits), NoLimits)

WholeProfile(project) ==
    ProfileOf(project, FoldLeft(VisitWhole, Uncollected(project, NoLimits), project.files),
              NoLimits)

(* A profile that is complete lacks nothing: a function, an import, a call *)
(* or a component that is cut, or a file that is not parsed, be it only    *)
(* the one that others import, leaves it partial.  The entry points of the *)
(* last file are the exception: they are added beyond the limit and then   *)
(* cut without a word.                                                     *)
ProfileIsWhole ==
    projectProfile # <<>> /\ projectProfile[1].status = "complete" =>
        \/ projectProfile[1] = WholeProfile(profiled)
        \/ Len(collected.entrypoints) > Limits.entrypoints
=============================================================================
