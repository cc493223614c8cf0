------------------------------ MODULE Mechanical ------------------------------
(***************************************************************************)
(* What a report keeps of the structure of a project's code: the answers   *)
(* of dependency-cruiser and jscpd (src/scanners/mechanical.ts), of Knip,  *)
(* beside a search for unused dependencies, and the measures of functions  *)
(* (src/scanners/quality.ts).  Each list is cut at a limit, L.             *)
(*                                                                         *)
(* Files, packages and symbols are numbers, in the order in which they are *)
(* sorted; 0 is a path that is no file of the snapshot.  The answers are   *)
(* those of a program that ended well; ScannerRun is about the others.     *)
(***************************************************************************)
EXTENDS BoundedLists

InSnapshot(files) == SelectSeq(files, LAMBDA f : f # 0)

(* The run of a program: it is partial also if its version is not tested.  *)
MechanicalStatus(project, supported, tested, cut) ==
    IF ~supported THEN "unsupported"
    ELSE IF cut \/ project.truncated \/ ~tested THEN "partial" ELSE "complete"

-----------------------------------------------------------------------------
(* normalizeArchitecture.  A module is [file, dependencies, dependents,    *)
(* orphan]; a dependency [target, circular, cycle], where cycle is the way *)
(* back from the target that the program names.                            *)

(* The same cycle is found from each of its modules; of its rotations the  *)
(* least is kept.                                                          *)
CanonicalCycle(files) ==
    LET once == Distinct(files)
        first == CHOOSE i \in DOMAIN once : \A j \in DOMAIN once : once[i] <= once[j]
    IN  IF Len(once) < 2 THEN <<>>
        ELSE SubSeq(once, first, Len(once)) \o SubSeq(once, 1, first - 1)

Located(structure) == Passing(structure.modules, LAMBDA m : m.file # 0)

LocatedDependencies(m) == Passing(m.dependencies, LAMBDA d : d.target # 0)

CyclesThrough(m) ==
    LET circular == Passing(LocatedDependencies(m), LAMBDA d : d.circular)
    IN  [d \in DOMAIN circular |->
            CanonicalCycle(<<m.file>> \o InSnapshot(circular[d].cycle) \o <<circular[d].target>>)]

Cycles(structure) ==
    LET modules == Located(structure)
    IN  Distinct(Passing(Joined([m \in DOMAIN modules |-> CyclesThrough(modules[m])]),
                         LAMBDA c : c # <<>>))

Orphans(structure) ==
    {m.file : m \in {n \in ToSet(Located(structure)) : n.orphan}} \ structure.expectedRoots

Coupling(m) ==
    Cardinality(ToSet(InSnapshot(m.dependents)))
        + Cardinality({d.target : d \in ToSet(LocatedDependencies(m))})

CoupledMost(structure, n) ==
    LET coupled == {m \in ToSet(Located(structure)) : Coupling(m) > 0}
        Before(k, m) == \/ Coupling(k) > Coupling(m)
                        \/ Coupling(k) = Coupling(m) /\ k.file < m.file
    IN  {m \in coupled : Cardinality({k \in coupled \ {m} : Before(k, m)}) < n}

Architecture(project, L) ==
    LET structure == project.structure
        cycles == Cycles(structure)
        orphans == Orphans(structure)
        hotspots == {m \in ToSet(Located(structure)) : Coupling(m) > 0}
        cut == \/ Len(cycles) > L.cycles
               \/ Cardinality(orphans) > L.orphans
               \/ Cardinality(hotspots) > L.hotspots
    IN  [status |-> MechanicalStatus(project, structure.supported, structure.tested, cut),
         verdicts |-> {<<"cycle", c>> : c \in ToSet(UpTo(cycles, L.cycles))}
            \cup {<<"orphan", f>> : f \in Least(orphans, L.orphans)}
            \cup {<<"hotspot", m.file, Coupling(m)>> : m \in CoupledMost(structure, L.hotspots)},
         counts |-> [cycleFiles |-> {Len(c) : c \in ToSet(UpTo(cycles, L.cycles))}]]

-----------------------------------------------------------------------------
(* normalizeDuplication.  A location is [file, start, end], a duplicate    *)
(* [first, second, lines]; length gives the lines of the files.            *)
Valid(location, length) ==
    /\ location.file # 0
    /\ 1 <= location.start /\ location.start <= location.end
    /\ location.end <= length[location.file]

(* A block is the pair of its locations, whichever was named first; of two *)
(* reports of one block the later one counts.                              *)
Blocks(copies) ==
    LET named == Passing(copies.duplicates,
                    LAMBDA d : /\ Valid(d.first, copies.length) /\ Valid(d.second, copies.length)
                               /\ d.lines > 0)
        places == [d \in DOMAIN named |-> {named[d].first, named[d].second}]
    IN  {[places |-> places[d], lines |-> named[d].lines] :
            d \in {e \in DOMAIN named : \A f \in DOMAIN named : f > e => places[f] # places[e]}}

Longest(blocks, n) ==
    IF Cardinality(blocks) <= n THEN blocks
    ELSE CHOOSE kept \in SUBSET blocks :
            /\ Cardinality(kept) = n
            /\ \A b \in kept, c \in blocks \ kept : b.lines >= c.lines

(* The program counts the duplicates as well, and its count must agree.    *)
Duplication(project, L) ==
    LET copies == project.copies
        blocks == Blocks(copies)
        cut == Cardinality(blocks) > L.blocks \/ copies.clones # Cardinality(blocks)
    IN  [status |-> MechanicalStatus(project, copies.supported, copies.tested, cut),
         verdicts |-> Longest(blocks, L.blocks),
         counts |-> <<>>]

-----------------------------------------------------------------------------
(* measureCodeQuality and coverageArtifacts.  A file is the sequence of    *)
(* its nodes in the order of the visit, [function, name, branches, lines,  *)
(* parameters], where a node that is no function has nothing but that.     *)
Measured(files, L) ==
    Joined([f \in DOMAIN files |-> Passing(UpTo(files[f], L.nodes), LAMBDA n : n.function)])

Complexity(function) == 1 + function.branches

IsHotspot(function) ==
    Complexity(function) >= 15 \/ function.lines >= 80 \/ function.parameters >= 6

Worse(f, g) ==
    \/ Complexity(f) > Complexity(g)
    \/ Complexity(f) = Complexity(g) /\ f.lines > g.lines
    \/ Complexity(f) = Complexity(g) /\ f.lines = g.lines /\ f.name < g.name

Measures(project, L) ==
    LET files == project.code.files
        hotspots == ToSet(Passing(Measured(files, L), IsHotspot))
        cut == \/ \E f \in DOMAIN files : Len(files[f]) > L.nodes
               \/ Cardinality(hotspots) > L.functionHotspots
    IN  [status |-> IF cut \/ project.truncated THEN "partial"
                   ELSE IF files = <<>> THEN "unsupported" ELSE "complete",
         verdicts |-> {<<"hotspot", f.name>> :
                        f \in {g \in hotspots : Cardinality({h \in hotspots \ {g} : Worse(h, g)}) < L.functionHotspots}}
            \cup {<<"coverage", a>> : a \in ToSet(UpTo(project.code.artifacts, L.artifacts))},
         counts |-> <<>>]

-----------------------------------------------------------------------------
(* scanDeadCode.  A manifest is [dependencies, commands, strings].  A      *)
(* command of its scripts names [packages, files], a string below its      *)
(* entry fields a set of files.  Dependencies are those at run time, but   *)
(* packages of types.                                                      *)
CommandsOf(manifest, L) == UpTo(manifest.commands, L.commands)

ManifestCommands(manifests, L) ==
    UpTo(Joined([m \in DOMAIN manifests |-> CommandsOf(manifests[m], L)]), L.allCommands)

ManifestEntries(manifest, L) ==
    UNION ToSet(UpTo([c \in DOMAIN CommandsOf(manifest, L) |-> manifest.commands[c].files]
                        \o manifest.strings, L.references))

KnipEntries(code, L) ==
    code.entrypoints \cup code.conventional
        \cup UNION {ManifestEntries(m, L) : m \in ToSet(code.manifests)}

SourceReferencedPackages(code, L) ==
    code.imported \cup UNION {c.packages : c \in ToSet(ManifestCommands(code.manifests, L))}

UnusedRuntimeDependencies(code, L) ==
    UNION {m.dependencies : m \in ToSet(code.manifests)}
        \ (SourceReferencedPackages(code, L) \cup code.implicit \cup code.ignored)

(* normalizeKnip, of an answer that is a sequence of [file, unused,        *)
(* unlisted, exports, types]; its dependencies are replaced by our own.    *)
Issues(code) == Passing(code.issues, LAMBDA i : i.file # 0)

Symbols(issues, key) == Joined([i \in DOMAIN issues |-> issues[i][key]])

DeadCode(project, L) ==
    LET code == project.code
        issues == Issues(code)
        files == {i.file : i \in {j \in ToSet(issues) : j.unused}}
        dependencies == UnusedRuntimeDependencies(code, L)
        keys == {"unlisted", "exports", "types"}
        cut == \/ Cardinality(files) > L.deadCode \/ Cardinality(dependencies) > L.deadCode
               \/ \E k \in keys : Len(Symbols(issues, k)) > L.deadCode
               \/ code.misconfigured
    IN  [status |-> MechanicalStatus(project, KnipEntries(code, L) # {}, code.tested, cut),
         verdicts |-> {<<"file", f>> : f \in Least(files, L.deadCode)}
            \cup {<<"dependency", d>> : d \in Least(dependencies, L.deadCode)}
            \cup UNION {{<<k, s>> : s \in ToSet(UpTo(Symbols(issues, k), L.deadCode))} : k \in keys},
         counts |-> <<>>]
=============================================================================
