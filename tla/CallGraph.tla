------------------------------ MODULE CallGraph ------------------------------
(***************************************************************************)
(* The map of a project's calls and what is concluded from it: the facts   *)
(* an entry point reaches (src/domain/project-graph.ts), the chain of      *)
(* calls that leads to one of them, searched breadth first, the findings   *)
(* that lie on the chain (src/domain/risk-paths.ts), and the rules about   *)
(* entry points (src/scanners/ast-security.ts, next-security.ts) beside    *)
(* the controls of the checklist that read the same facts.                 *)
(*                                                                         *)
(* A profile is a record of calls, a sequence of [caller, target]; facts   *)
(* [owner, kind, place]; symbols [file, first, last]; and entrypoints      *)
(* [kind, symbols, methods, traits, place, covers], of which covers are    *)
(* the routes that the matchers of a middleware cover.                     *)
(***************************************************************************)
EXTENDS Checklist, Sequences, SequencesExt

CONSTANTS
    Profiles,
    Candidates,         \* sets of findings: [id, open, place, priority]
    MaxCallDepth,
    MaxFindingsPerPath

ASSUME CallDepthAssumption ==
    /\ MaxCallDepth \in Nat /\ MaxFindingsPerPath \in Nat \ {0}
    /\ \A F \in Candidates : IsFiniteSet(F)

VARIABLES
    graph,              \* the profile
    from, fact,         \* an entry point and a fact it reaches, or not
    visited, frontier,
    parent,             \* [symbol -> the call by which it was first met]
    depth,
    path, searching,    \* a chain of calls, when the search is over
    candidates

graphVars ==
    <<graph, from, fact, visited, frontier, parent, depth, path, searching, candidates>>

-----------------------------------------------------------------------------
(* entrypointRoots: of a route with several methods, their handlers.  A    *)
(* symbol that is a handler is named after its method.                     *)
EntrypointRoots(e) ==
    IF e.kind # "next-route" \/ Cardinality(e.methods) <= 1 THEN e.symbols
    ELSE e.symbols \cap e.methods

CallsFrom(p, callers) == {c \in ToSet(p.calls) : c.caller \in callers}

Targets(p, callers) == {c.target : c \in CallsFrom(p, callers)}

(* reachableSymbols: what as many rounds of calls as there are hops meet.  *)
Met(p, e) ==
    LET met[d \in 0..MaxCallDepth] ==
            IF d = 0 THEN EntrypointRoots(e) ELSE met[d - 1] \cup Targets(p, met[d - 1])
    IN  met

ReachableSymbols(p, e) == Met(p, e)[MaxCallDepth]

ReachableFacts(p, e) == {f \in p.facts : f.owner \in ReachableSymbols(p, e)}

(* middlewareFacts: of the middleware whose matchers cover the route, and  *)
(* of those in its file only the ones above it.                            *)
MiddlewareFacts(p, e) ==
    IF "routed" \notin e.traits THEN {}
    ELSE UNION {ReachableFacts(p, m) : m \in {k \in p.entrypoints :
            /\ k.kind = "middleware"
            /\ k.place.file # e.place.file \/ k.place.line < e.place.line
            /\ k.covers = {} \/ e.place \in k.covers}}

EffectiveFacts(p, e) == ReachableFacts(p, e) \cup MiddlewareFacts(p, e)

-----------------------------------------------------------------------------
GraphInit ==
    /\ graph \in Profiles /\ candidates \in Candidates
    /\ from \in {e \in graph.entrypoints : e.kind # "middleware"}
    /\ fact \in graph.facts
    /\ visited = EntrypointRoots(from) /\ frontier = visited
    /\ parent = [s \in {} |-> {}]
    /\ depth = 0
    /\ path = <<>> /\ searching = (fact.owner \notin visited)

(* The chain from the root on which a symbol was met, by its parents.      *)
Chains(calledBy) ==
    LET symbols == DOMAIN calledBy \cup EntrypointRoots(from)
        chain[n \in 0..MaxCallDepth] ==
            [t \in symbols |-> IF n = 0 \/ t \notin DOMAIN calledBy THEN <<>>
                               ELSE Append(chain[n - 1][calledBy[t].caller], calledBy[t])]
    IN  chain

ChainTo(s, calledBy) == Chains(calledBy)[MaxCallDepth][s]

(* Mutant: one hop more than the other search takes.                       *)
MayWidenFurther == depth <= MaxCallDepth /\ frontier # {}

MayWiden == depth < MaxCallDepth /\ frontier # {}

(* callPathToFact: a round of the search.  Of the calls that meet a symbol *)
(* first, the order of the frontier and of the calls picks one.            *)
Widen ==
    /\ searching /\ MayWiden
    /\ LET calls == {c \in CallsFrom(graph, frontier) : c.target \notin visited}
           met == {c.target : c \in calls}
       IN  \E calledBy \in {g \in [met -> calls] : \A s \in met : g[s].target = s} :
            /\ parent' = [s \in DOMAIN parent \cup met |->
                            IF s \in met THEN calledBy[s] ELSE parent[s]]
            /\ visited' = visited \cup met
            /\ frontier' = met
            /\ path' = IF fact.owner \in met THEN ChainTo(fact.owner, parent') ELSE <<>>
            /\ searching' = (fact.owner \notin met)
    /\ depth' = depth + 1
    /\ UNCHANGED <<graph, from, fact, candidates>>

(* Nothing is left to widen: there is no chain.                            *)
FindNothing ==
    /\ searching /\ ~MayWiden
    /\ searching' = FALSE
    /\ UNCHANGED <<graph, from, fact, visited, frontier, parent, depth, path, candidates>>

GraphNext == Widen \/ FindNothing

GraphSpec == GraphInit /\ [][GraphNext]_graphVars

-----------------------------------------------------------------------------
(* evidenceOwner: the innermost symbol around a place.                     *)
Around(p, place) ==
    {s \in DOMAIN p.symbols : p.symbols[s].file = place.file
        /\ place.line \in p.symbols[s].first..p.symbols[s].last}

EvidenceOwner(p, place) ==
    {s \in Around(p, place) : \A t \in Around(p, place) :
        p.symbols[s].last - p.symbols[s].first <= p.symbols[t].last - p.symbols[t].first}

(* eligibleFinding: open, and in a file of which a symbol is mapped.       *)
Eligible(p, F) == {f \in F : f.open /\ \E s \in DOMAIN p.symbols : p.symbols[s].file = f.place.file}

(* pathCandidate: the findings in the symbols of a chain or at its places. *)
OnPath ==
    LET symbols == EntrypointRoots(from) \cup {fact.owner}
                    \cup UNION {{path[k].caller, path[k].target} : k \in DOMAIN path}
        places == {from.place, fact.place} \cup {path[k].place : k \in DOMAIN path}
    IN  {f \in Eligible(graph, candidates) :
            f.place \in places \/ EvidenceOwner(graph, f.place) \cap symbols # {}}

(* buildRiskCorrelation: a path for each sensitive fact that is reachable, *)
(* unless no finding lies on it.                                           *)
RiskPaths ==
    {[steps |-> path, findings |-> F, truncated |-> Cardinality(OnPath) > MaxFindingsPerPath] :
        F \in {G \in SUBSET OnPath :
            /\ OnPath # {} /\ fact.kind \in SensitiveFacts
            /\ fact \in ReachableFacts(graph, from)
            /\ Cardinality(G) = IF Cardinality(OnPath) > MaxFindingsPerPath
                                THEN MaxFindingsPerPath ELSE Cardinality(OnPath)
            /\ \A f \in OnPath \ G : \A g \in G : f.priority <= g.priority}}

-----------------------------------------------------------------------------
(* The rules about entry points.                                           *)
Mutating(e) == e.kind = "server-action" \/ e.methods \cap {"POST", "PUT", "PATCH", "DELETE"} # {}

Kinds(facts) == {f.kind : f \in facts}

(* Mutant: what a middleware guards is forgotten.                          *)
BoundaryRulesAlone(p, e) ==
    LET own == Kinds(ReachableFacts(p, e))
    IN  IF ~Mutating(e) \/ e.kind = "middleware" \/ "webhook" \in e.traits
            \/ EntrypointRoots(e) = {} \/ own \cap SensitiveFacts = {}
        THEN {}
        ELSE {r \in {"AST001", "AST002", "AST003"} :
                CASE r = "AST001" -> own \cap {"authentication", "authorization"} = {}
                                        /\ "expected" \notin e.traits
                  [] r = "AST002" -> "administrative" \in e.traits /\ "authorization" \notin own
                  [] r = "AST003" -> /\ "dynamic" \in e.traits /\ "database" \in own
                                     /\ own \cap (Scopes \cup {"authorization"}) = {}}

(* scanAstSecurity's loop over entry points.                               *)
BoundaryRules(p, e) ==
    LET own == Kinds(ReachableFacts(p, e))
        mapped == Kinds(EffectiveFacts(p, e))
    IN  IF ~Mutating(e) \/ e.kind = "middleware" \/ "webhook" \in e.traits
            \/ EntrypointRoots(e) = {} \/ own \cap SensitiveFacts = {}
        THEN {}
        ELSE {r \in {"AST001", "AST002", "AST003"} :
                CASE r = "AST001" -> mapped \cap {"authentication", "authorization"} = {}
                                        /\ "expected" \notin e.traits
                  [] r = "AST002" -> "administrative" \in e.traits /\ "authorization" \notin mapped
                  [] r = "AST003" -> /\ "dynamic" \in e.traits /\ "database" \in own
                                     /\ mapped \cap (Scopes \cup {"authorization"}) = {}}

(* structuralFindings of Next.js.                                          *)
RouteRules(p, e) ==
    LET own == Kinds(ReachableFacts(p, e))
        mapped == Kinds(EffectiveFacts(p, e))
        read == e.methods \cap {"GET", "HEAD"} # {}
    IN  IF e.kind = "middleware" \/ "webhook" \in e.traits \/ own \cap SensitiveFacts = {} THEN {}
        ELSE {r \in {"NEXT001", "NEXT002", "NEXT006"} :
                CASE r = "NEXT001" -> /\ read /\ "public" \notin e.traits
                                      /\ mapped \cap {"authentication", "authorization"} = {}
                  [] r = "NEXT002" -> /\ read /\ "dynamic" \in e.traits /\ "database" \in own
                                      /\ mapped \cap (Scopes \cup {"authorization"}) = {}
                  [] r = "NEXT006" -> /\ Mutating(e) /\ "changing" \in e.traits
                                      /\ "payload" \in e.traits /\ "validated" \notin e.traits
                                      /\ "validation" \notin mapped}

(* What the checklist makes of an entry point.                             *)
Context(p, e) ==
    [kind |-> e.kind, facts |-> Kinds(EffectiveFacts(p, e)),
     traits |-> e.traits \cup (IF Mutating(e) THEN {"mutating"} ELSE {})
                    \cup (IF e.methods \cap {"GET", "HEAD"} # {} THEN {"reading"} ELSE {})]

Rules(p) == UNION {BoundaryRules(p, e) \cup RouteRules(p, e) : e \in p.entrypoints}

(* The checklist of a project that is mapped and scanned to the end, where *)
(* rules are all that was found.                                           *)
Controlled(p, rules) ==
    SecurityChecklist([profile |-> "complete", next |-> TRUE, tenants |-> FALSE,
        contexts |-> {Context(p, e) : e \in {k \in p.entrypoints : k.kind # "middleware"}},
        findings |-> {[rule |-> r, source |-> "ast", secret |-> FALSE] : r \in rules},
        runs |-> [s \in {"ast-security", "saas-security", "next-security", "react-security",
                         "posture", "gitleaks", "osv", "http-probe"} |-> "completed"],
        probe |-> NoProbe, resolved |-> FALSE])

-----------------------------------------------------------------------------
IsChain(calls) ==
    /\ calls # <<>> => calls[1].caller \in EntrypointRoots(from) /\ Last(calls).target = fact.owner
    /\ \A k \in 2..Len(calls) : calls[k].caller = calls[k - 1].target
    /\ \A k \in DOMAIN calls : calls[k] \in ToSet(graph.calls)

(* What the report shows as a way from an entry point to a sensitive       *)
(* operation exists in the calls that were resolved, is as short as any,   *)
(* and is found whenever the other search counts the operation among what  *)
(* the entry point reaches; and what is related to it is open, and was     *)
(* found in or at something the entry point reaches.                       *)
PathsAreReal ==
    ~searching =>
        /\ IsChain(path) /\ Len(path) <= MaxCallDepth
        /\ fact.owner \in ReachableSymbols(graph, from)
            <=> (path # <<>> \/ fact.owner \in EntrypointRoots(from))
        /\ \A n \in 0..(Len(path) - 1) : \A calls \in [1..n -> ToSet(graph.calls)] :
                n > 0 => ~IsChain(calls)
        /\ \A r \in RiskPaths : r.findings # {} /\ \A f \in r.findings : f.open

(* Where every entry point carries the guard that a control asks for, the  *)
(* rule behind the control is silent: analyser and checklist read the same *)
(* map in two places, and no report calls a gap what the map evidences.    *)
GuardsAgree ==
    LET blind == Controlled(graph, {})
    IN  /\ blind.AUTHN_001 = "EVIDENCED" => "AST001" \notin Rules(graph)
        /\ blind.AUTHZ_001 = "EVIDENCED" => "AST002" \notin Rules(graph)
        /\ blind.AUTHZ_002 = "EVIDENCED" => {"AST003", "NEXT002"} \cap Rules(graph) = {}
        /\ blind.INPUT_001 = "EVIDENCED" => "NEXT006" \notin Rules(graph)
        /\ blind.AUTHN_001 = "NOT_APPLICABLE" => "AST001" \notin Rules(graph)
        /\ blind.AUTHN_002 = "NOT_APPLICABLE" => "NEXT001" \notin Rules(graph)
=============================================================================
