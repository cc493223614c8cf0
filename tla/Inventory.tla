------------------------------- MODULE Inventory -------------------------------
(***************************************************************************)
(* The packages of a project and why they are there                        *)
(* (src/scanners/inventory.ts): manifests declare names, lockfiles list    *)
(* what is installed and what requires it, and a bounded search finds the  *)
(* chains from a manifest to a package, which tell direct packages from    *)
(* transitive ones.                                                        *)
(*                                                                         *)
(* A project is [manifests, lockfiles].  A manifest is [path, entries], an *)
(* entry [name, range, scope].  A lockfile is [kind, file, malformed,      *)
(* packages, importers], an importer [manifest, dir, requires].  What a    *)
(* package is depends on the kind: npm packages have a directory and the   *)
(* path of names below it, pnpm packages are what their label says, and    *)
(* yarn packages are found by selectors <<name, range>>; in a tree (npm's  *)
(* first version) a package is the path of the labels above it.            *)
(***************************************************************************)
EXTENDS BoundedLists

CONSTANTS
    Inventoried,        \* projects
    MaxParentChains,    \* kept for each label (maximumParentChains)
    MaxParentDepth,     \* packages of a chain (maximumParentDepth)
    MaxRoutes           \* that a search follows (20,000)

VARIABLES
    inventoried,    \* the project
    unread,         \* lockfiles that are still to be read
    listed,         \* a record per package of the lockfiles that were read
    errors,         \* lockfiles that are malformed
    inventory       \* the result, <<>> until all are read

inventoryVars == <<inventoried, unread, listed, errors, inventory>>

(* A label keeps a chain at least, and a chain has a package at least.     *)
ASSUME ParentLimits ==
    MaxParentChains \in Nat \ {0} /\ MaxParentDepth \in Nat \ {0} /\ MaxRoutes \in Nat

(* What files hold comes in lists, and files have names of their own.      *)
ASSUME InventoriedInLists ==
    \A p \in Inventoried :
        /\ AreLists(<<p.manifests, p.lockfiles>>)
        /\ \A m \in ToSet(p.manifests) : IsList(m.entries)
        /\ \A l \in ToSet(p.lockfiles) :
                /\ l.malformed \in BOOLEAN /\ l.file # "none"
                /\ l.kind \in {"npm", "pnpm", "yarn", "tree"}
                /\ AreLists(<<l.packages, l.importers>>)
                /\ l.kind # "tree" => \A d \in ToSet(l.packages) : IsList(d.requires)
                /\ \A i \in ToSet(l.importers) : IsList(i.requires)
        /\ \A i, j \in DOMAIN p.lockfiles : p.lockfiles[i].file = p.lockfiles[j].file => i = j

Earliest(S) == IF S = {} THEN 0 ELSE CHOOSE i \in S : \A j \in S : i <= j
Latest(S) == IF S = {} THEN 0 ELSE CHOOSE i \in S : \A j \in S : j <= i

-----------------------------------------------------------------------------
(* declarations: by name, and those of a name in the order of the          *)
(* manifests.                                                              *)
DeclarationsOf(project, name) ==
    LET Of(m) == Passing(m.entries, LAMBDA e : e.name = name)
    IN  Joined([m \in DOMAIN project.manifests |->
            LET own == Of(project.manifests[m])
            IN  [e \in DOMAIN own |->
                    [name |-> name, range |-> own[e].range, scope |-> own[e].scope,
                     manifest |-> project.manifests[m].path]]])

AllDeclarations(project) ==
    LET names == Distinct(Joined([m \in DOMAIN project.manifests |->
                    [e \in DOMAIN project.manifests[m].entries |->
                        project.manifests[m].entries[e].name]]))
    IN  Joined([n \in DOMAIN names |-> DeclarationsOf(project, names[n])])

(* graphParentChains and pnpmParentChains.  A graph has the label of each  *)
(* node, its targets, and seeds [node, chain].  Nodes may share a label,   *)
(* and a label keeps its first chains; a route is followed once.           *)
EnqueueRoute(search, route) ==
    LET label == search.graph.label[route.node]
        known == search.chains[label]
    IN  IF route.chain \notin ToSet(known) /\ Len(known) >= MaxParentChains THEN search
        ELSE [search EXCEPT !.chains[label] = AddNew(@, route.chain),
                            !.routes = AddNew(@, route)]

(* What a node requires that its chain has not been through.               *)
OpenTargets(graph, route) ==
    Passing(graph.targets[route.node], LAMBDA t : graph.label[t] \notin ToSet(route.chain.labels))

Onward(graph, route) ==
    LET open == OpenTargets(graph, route)
    IN  [i \in DOMAIN open |->
            [node |-> open[i],
             chain |-> [route.chain EXCEPT !.labels = Append(@, graph.label[open[i]])]]]

(* Mutant: the depth of a search counts the manifest of its chains twice.  *)
ExtendedTooFew(graph, route) ==
    IF Len(route.chain.labels) + 1 >= MaxParentDepth THEN <<>> ELSE Onward(graph, route)

Extended(graph, route) ==
    IF Len(route.chain.labels) >= MaxParentDepth THEN <<>> ELSE Onward(graph, route)

FollowRoute(search, i) ==
    IF i > Len(search.routes) THEN search
    ELSE FoldLeft(EnqueueRoute, search, Extended(search.graph, search.routes[i]))

SearchStart(graph) ==
    [graph |-> graph, chains |-> [l \in {graph.label[n] : n \in DOMAIN graph.label} |-> <<>>],
     routes |-> <<>>]

SearchOf(graph) ==
    FoldLeft(FollowRoute, FoldLeft(EnqueueRoute, SearchStart(graph), graph.seeds),
             [i \in 1..MaxRoutes |-> i])

ParentChains(graph) == SearchOf(graph).chains

Seed(graph, node, manifest) ==
    [node |-> node, chain |-> [manifest |-> manifest, labels |-> <<graph.label[node]>>]]

-----------------------------------------------------------------------------
(* Names are looked up in the directories above a package, then in the root*)
NpmLabel(package) == <<Last(package.path), package.version>>

InstalledAt(lock, place) ==
    Earliest({n \in DOMAIN lock.packages :
                lock.packages[n].dir = place.dir /\ lock.packages[n].path = place.path})

ResolveNpmPackagePath(lock, dir, path, name) ==
    LET above == [i \in 1..(Len(path) + 1) |->
                    [dir |-> dir, path |-> Append(SubSeq(path, 1, Len(path) + 1 - i), name)]]
        root == IF dir = "" THEN <<>> ELSE <<[dir |-> "", path |-> <<name>>]>>
        places == Passing(above \o root, LAMBDA c : InstalledAt(lock, c) # 0)
    IN  IF places = <<>> THEN 0 ELSE InstalledAt(lock, Head(places))

WithoutGaps(nodes) == Passing(nodes, LAMBDA n : n # 0)

ResolvedNpm(lock, dir, path, names) ==
    WithoutGaps([i \in DOMAIN names |-> ResolveNpmPackagePath(lock, dir, path, names[i])])

NpmGraph(lock) ==
    LET graph == [label |-> [n \in DOMAIN lock.packages |-> NpmLabel(lock.packages[n])],
                  targets |-> [n \in DOMAIN lock.packages |->
                      LET p == lock.packages[n] IN ResolvedNpm(lock, p.dir, p.path, p.requires)]]
        SeedsOf(i) == LET nodes == ResolvedNpm(lock, i.dir, <<>>, i.requires)
                      IN  [n \in DOMAIN nodes |-> Seed(graph, nodes[n], i.manifest)]
    IN  [label |-> graph.label, targets |-> graph.targets,
         seeds |-> Joined([i \in DOMAIN lock.importers |-> SeedsOf(lock.importers[i])])]

(* Packages with other peers have the same label, and are one node.        *)
PnpmLabels(lock) ==
    {p.label : p \in ToSet(lock.packages)}
        \cup UNION {ToSet(r.requires) : r \in ToSet(lock.packages) \cup ToSet(lock.importers)}

PackagesOf(lock, label) == Passing(lock.packages, LAMBDA p : p.label = label)

PnpmGraph(lock) ==
    LET graph == [label |-> [l \in PnpmLabels(lock) |-> l],
                  targets |-> [l \in PnpmLabels(lock) |->
                      LET variants == PackagesOf(lock, l)
                      IN  Joined([v \in DOMAIN variants |-> variants[v].requires])]]
        SeedsOf(i) == [n \in DOMAIN i.requires |-> Seed(graph, i.requires[n], i.manifest)]
    IN  [label |-> graph.label, targets |-> graph.targets,
         seeds |-> Joined([i \in DOMAIN lock.importers |-> SeedsOf(lock.importers[i])])]

(* Every manifest of the project may require what a yarn lockfile lists.   *)
Provider(lock, selector) ==
    Latest({n \in DOMAIN lock.packages : selector \in lock.packages[n].selectors})

ResolvedYarn(lock, selectors) ==
    WithoutGaps([i \in DOMAIN selectors |-> Provider(lock, selectors[i])])

YarnGraph(lock, project) ==
    LET graph == [label |-> [n \in DOMAIN lock.packages |-> lock.packages[n].label],
                  targets |-> [n \in DOMAIN lock.packages |->
                                ResolvedYarn(lock, lock.packages[n].requires)]]
        required == Passing(AllDeclarations(project),
                        LAMBDA d : Provider(lock, <<d.name, d.range>>) # 0)
    IN  [label |-> graph.label, targets |-> graph.targets,
         seeds |-> [i \in DOMAIN required |->
                    Seed(graph, Provider(lock, <<required[i].name, required[i].range>>),
                         required[i].manifest)]]

Graph(lock, project) ==
    CASE lock.kind = "npm" -> NpmGraph(lock)
      [] lock.kind = "pnpm" -> PnpmGraph(lock)
      [] lock.kind = "yarn" -> YarnGraph(lock, project)

-----------------------------------------------------------------------------
(* dependency.  The declaration is the one of the manifest of a chain.     *)
Dependency(project, lock, label, development, chains) ==
    LET declared == DeclarationsOf(project, label[1])
        own == IF chains = <<>> THEN 0
               ELSE Earliest({d \in DOMAIN declared :
                                    declared[d].manifest = Head(chains).manifest})
        direct == IF chains = <<>> THEN declared # <<>>
                  ELSE \E c \in ToSet(chains) : Len(c.labels) = 1
        named == direct /\ declared # <<>>
        declaration == declared[IF own = 0 THEN 1 ELSE own]
    IN  [label |-> label, lockfile |-> lock.file, chains |-> chains,
         relationship |-> IF direct THEN "direct" ELSE "transitive",
         manifest |-> IF named THEN declaration.manifest ELSE lock.manifest,
         scope |-> IF named THEN declaration.scope
                   ELSE IF development THEN "development" ELSE "runtime"]

LabelOf(lock, package) ==
    CASE lock.kind = "npm" -> NpmLabel(package)
      [] lock.kind = "tree" -> Last(package.path)
      [] OTHER -> package.label

(* In a tree a package's place is its only chain.                          *)
ChainsOf(project, lock) ==
    LET chains == ParentChains(Graph(lock, project))
    IN  [n \in DOMAIN lock.packages |->
            IF lock.kind = "tree"
            THEN <<[manifest |-> "package.json", labels |-> lock.packages[n].path]>>
            ELSE chains[LabelOf(lock, lock.packages[n])]]

(* npmLock, pnpmLock, yarnClassic and yarnBerry                            *)
RecordsOf(project, lock) ==
    LET chains == ChainsOf(project, lock)
    IN  [n \in DOMAIN lock.packages |->
            Dependency(project, lock, LabelOf(lock, lock.packages[n]),
                       lock.packages[n].development, chains[n])]

(* Packages with one label in one lockfile are one record.                 *)
MergeRecord(records, record) ==
    LET i == Earliest({j \in DOMAIN records : records[j].lockfile = record.lockfile
                                                /\ records[j].label = record.label})
        chains == Distinct(records[i].chains \o record.chains)
    IN  IF i = 0 THEN Append(records, record)
        ELSE [records EXCEPT ![i].chains = UpTo(chains, MaxParentChains)]

Represents(record, declaration) ==
    /\ record.label[1] = declaration.name /\ record.relationship = "direct"
    /\ \/ record.manifest = declaration.manifest
       \/ \E c \in ToSet(record.chains) : c.manifest = declaration.manifest

AddDeclaration(records, declaration) ==
    IF \E r \in ToSet(records) : Represents(r, declaration) THEN records
    ELSE Append(records,
            [label |-> <<declaration.name, 0>>, lockfile |-> "none", chains |-> <<>>,
             relationship |-> "direct", manifest |-> declaration.manifest,
             scope |-> declaration.scope])

-----------------------------------------------------------------------------
InventoryInit ==
    /\ inventoried \in Inventoried
    /\ unread = inventoried.lockfiles
    /\ listed = <<>> /\ errors = {} /\ inventory = <<>>

ReadLockfile ==
    /\ unread # <<>>
    /\ unread' = Tail(unread)
    /\ IF Head(unread).malformed
       THEN errors' = errors \cup {Head(unread).file} /\ UNCHANGED listed
       ELSE listed' = listed \o RecordsOf(inventoried, Head(unread)) /\ UNCHANGED errors
    /\ UNCHANGED <<inventoried, inventory>>

ResolvedInventory ==
    /\ unread = <<>> /\ inventory = <<>>
    /\ inventory' = FoldLeft(AddDeclaration, FoldLeft(MergeRecord, <<>>, listed),
                             AllDeclarations(inventoried))
    /\ UNCHANGED <<inventoried, unread, listed, errors>>

InventoryNext == ReadLockfile \/ ResolvedInventory

InventorySpec == InventoryInit /\ [][InventoryNext]_inventoryVars

-----------------------------------------------------------------------------
RecordsFrom(lock) == {r \in ToSet(inventory) : r.lockfile = lock.file}

Requires(graph, label, other) ==
    \E n \in DOMAIN graph.label :
        graph.label[n] = label /\ \E t \in ToSet(graph.targets[n]) : graph.label[t] = other

IsParentChain(graph, chain) ==
    /\ \E s \in ToSet(graph.seeds) :
            s.chain.manifest = chain.manifest /\ graph.label[s.node] = Head(chain.labels)
    /\ \A i \in 1..(Len(chain.labels) - 1) :
            Requires(graph, chain.labels[i], chain.labels[i + 1])

(* The nodes that a manifest reaches in so many steps.                     *)
OneFurther(reached, d) ==
    [reached EXCEPT !.nodes = @ \cup UNION {ToSet(reached.graph.targets[n]) : n \in @}]

ReachedIn(graph, depth) ==
    FoldLeft(OneFurther, [graph |-> graph, nodes |-> {s.node : s \in ToSet(graph.seeds)}],
             [d \in 1..(depth - 1) |-> d]).nodes

(* Every chain that is kept leads from a manifest to the package over what *)
(* requires what; a package is direct exactly if a manifest requires it,   *)
(* however many other ways there are to it; and what a manifest reaches    *)
(* has a chain, unless there are more routes than are followed, or a label *)
(* is installed more than once: then the ways through its second copy may  *)
(* be lost to those through the first one.                                 *)
(* Nothing is claimed of a tree, whose top lists what is hoisted.          *)
InventoryIsTrue ==
    inventory # <<>> => \A l \in ToSet(inventoried.lockfiles) :
        ~l.malformed /\ l.kind # "tree" =>
            LET graph == Graph(l, inventoried)
                twice == \E m, n \in DOMAIN graph.label : m # n /\ graph.label[m] = graph.label[n]
                cut == Len(SearchOf(graph).routes) > MaxRoutes
                reached == {graph.label[n] : n \in ReachedIn(graph, MaxParentDepth)}
            IN  /\ {LabelOf(l, p) : p \in ToSet(l.packages)} = {r.label : r \in RecordsFrom(l)}
                /\ \A r \in RecordsFrom(l) :
                    /\ \A c \in ToSet(r.chains) : Last(c.labels) = r.label /\ IsParentChain(graph, c)
                    /\ r.chains # <<>> => (r.relationship = "direct" <=>
                            \E s \in ToSet(graph.seeds) : graph.label[s.node] = r.label)
                    /\ r.label \in reached /\ ~twice /\ ~cut => r.chains # <<>>
=============================================================================
