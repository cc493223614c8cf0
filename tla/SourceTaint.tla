----------------------------- MODULE SourceTaint -----------------------------
(***************************************************************************)
(* How request data is followed through a project's functions              *)
(* (src/scanners/ast-security.ts, and saas-security.ts in one function):   *)
(* inside a function by passes over its statements, whatever their order;  *)
(* across functions by a search over pairs of a function and those of its  *)
(* parameters that carry request data, breadth first from each entry       *)
(* point.                                                                  *)
(*                                                                         *)
(* A function is [params, body]; a statement is                            *)
(*   [op |-> "let", to, uses, owned]   a name that is declared, or assigned *)
(*   [op |-> "guard", kind]            a call that guards sinks of a kind  *)
(*   [op |-> "sink", kind, args, site]                                     *)
(*   [op |-> "call", callee, args]     a call that was resolved            *)
(* where an argument is the set of the names it uses, as uses is, and an   *)
(* owned value is one the server owns whatever names it uses.              *)
(***************************************************************************)
EXTENDS Naturals, Sequences, FiniteSets, SequencesExt

CONSTANTS
    Programs,           \* [functions, entrypoints]: sequences of [symbols, roots, webhook]
    RequestNames,       \* names that the SaaS rules take for request data
    Passes,             \* over the statements of a function
    MaxHops,            \* calls from an entry point
    MaxInspected,       \* pairs that are taken from the queue of an entry point
    MaxFlows            \* findings of the search

ASSUME TaintLimits ==
    /\ Passes \in Nat \ {0} /\ MaxHops \in Nat
    /\ MaxInspected \in Nat /\ MaxFlows \in Nat \ {0}

(* The roots of an entry point are some of its symbols (entrypointRoots).  *)
ASSUME ProgramsAreWhole ==
    \A p \in Programs :
        /\ \A f \in DOMAIN p.functions :
            /\ p.functions[f].params \in Seq(ToSet(p.functions[f].params))
            /\ p.functions[f].body \in Seq(ToSet(p.functions[f].body))
        /\ p.entrypoints \in Seq(ToSet(p.entrypoints))
        /\ \A e \in ToSet(p.entrypoints) :
            e.roots \in Seq(ToSet(e.roots)) /\ ToSet(e.roots) \subseteq e.symbols

VARIABLES
    program,
    left,               \* entry points that are still to be searched
    queue,              \* of [symbol, hops, tainted]
    met,                \* pairs that were taken before
    inspected,
    flowsFound,         \* the list of the search: of [rule, site], some of them again
    abandoned           \* was a queue left before it was empty?

taintVars == <<program, left, queue, met, inspected, flowsFound, abandoned>>

Body(f) == program.functions[f].body

-----------------------------------------------------------------------------
(* What a statement adds to the names that carry request data.             *)
Learn(T, st) ==
    IF st.op # "let" THEN T
    ELSE IF st.owned THEN T \ {st.to}
    ELSE IF st.uses \cap T # {} THEN T \cup {st.to} ELSE T

All(f) == DOMAIN program.functions[f].params

(* An argument that no parameter receives is of no account.                *)
Params(f, indexes) == {program.functions[f].params[i] : i \in indexes \cap All(f)}

Pass(T, body) == FoldLeft(Learn, T, body)

(* functionTaint.                                                          *)
FunctionTaint(f, indexes) ==
    FoldLeft(Pass, Params(f, indexes), [pass \in 1..Passes |-> Body(f)])

(* hasPriorGuard.                                                          *)
PriorGuard(f, k) ==
    \E j \in 1..(k - 1) : Body(f)[j].op = "guard" /\ Body(f)[j].kind = Body(f)[k].kind

(* Raw SQL has no guard.                                                   *)
Open(f, k) == Body(f)[k].kind = "raw" \/ ~PriorGuard(f, k)

SinksOf(f) == {k \in DOMAIN Body(f) : Body(f)[k].op = "sink"}

Carries(arg, T) == arg \cap T # {}

(* A call without arguments carries nothing.                               *)
FirstCarries(st, T) == 1 \in DOMAIN st.args /\ Carries(st.args[1], T)

SomeCarries(st, T) == \E a \in DOMAIN st.args : Carries(st.args[a], T)

-----------------------------------------------------------------------------
(* The rules of the sinks of an entry point, and the sinks without guard.  *)
DirectRule == [raw |-> "AST004", outbound |-> "AST005", redirect |-> "AST006",
               process |-> "AST011", shell |-> "AST011", file |-> "AST012", regexp |-> "AST013",
               unserialize |-> "AST014", property |-> "AST016", query |-> "AST017",
               mutation |-> "AST018"]

Unguarded == {"regexp", "unserialize", "property"}

(* Rules that the search knows: those of AcrossRule.                       *)
AcrossRule == [raw |-> "AST004", outbound |-> "AST005", process |-> "AST011",
               shell |-> "AST011", file |-> "AST012"]

(* directAstFindings, of a sink in the symbol of an entry point: with a    *)
(* shell, and in a mutation, any argument is dangerous.                    *)
DirectCarries(sink, T) ==
    \/ FirstCarries(sink, T)
    \/ sink.kind \in {"shell", "mutation"} /\ SomeCarries(sink, T)

DirectFinds(f, k, T) ==
    LET sink == Body(f)[k]
    IN  /\ sink.kind \in DOMAIN DirectRule /\ DirectCarries(sink, T)
        /\ sink.kind \in Unguarded \/ Open(f, k)

Direct(f) ==
    LET T == FunctionTaint(f, All(f))
    IN  {[rule |-> DirectRule[Body(f)[k].kind], site |-> Body(f)[k].site] :
            k \in {s \in SinksOf(f) : DirectFinds(f, s, T)}}

(* A webhook whose body is parsed before its signature is verified, and an *)
(* upload that no guard of the function constrains.                        *)
Having(f, op, kind) == {k \in DOMAIN Body(f) : Body(f)[k].op = op /\ Body(f)[k].kind = kind}

Ordered(f, webhook) ==
    LET parses == Having(f, "guard", "parse")
        verifies == Having(f, "guard", "verify")
        uploads == Having(f, "sink", "upload")
    IN  {[rule |-> "AST008", site |-> f] : x \in {k \in parses : webhook
            /\ ~\E v \in verifies : \A j \in parses : v < j}}
        \cup {[rule |-> "AST007", site |-> f] : x \in {k \in uploads :
            Having(f, "guard", "multipart") # {} /\ Having(f, "guard", "upload") = {}}}

(* scanFile of the SaaS rules: names of parameters decide what is request  *)
(* data, a server's lookup carries none, and nothing guards.               *)
SaasRule == [billing |-> "SAAS001", ownership |-> "SAAS002", log |-> "SAAS005",
             oauth |-> "SAAS007"]

SaasLearn(T, st) ==
    IF st.op = "let" /\ ~st.owned /\ st.uses \cap T # {} THEN T \cup {st.to} ELSE T

SaasPass(T, body) == FoldLeft(SaasLearn, T, body)

SaasTaint(f) ==
    FoldLeft(SaasPass, ToSet(program.functions[f].params) \cap RequestNames,
             [pass \in 1..Passes |-> Body(f)])

Saas(f) ==
    {[rule |-> SaasRule[Body(f)[k].kind], site |-> Body(f)[k].site] :
        k \in {s \in SinksOf(f) : Body(f)[s].kind \in DOMAIN SaasRule
                /\ SomeCarries(Body(f)[s], SaasTaint(f))}}

-----------------------------------------------------------------------------
Known(f) == f \in DOMAIN program.functions

TaintInit ==
    /\ program \in Programs
    /\ left = program.entrypoints
    /\ queue = <<>> /\ met = {} /\ inspected = 0 /\ flowsFound = <<>> /\ abandoned = FALSE

AddRoot(roots, f) ==
    IF Known(f) THEN Append(roots, [symbol |-> f, hops |-> 0, tainted |-> All(f)]) ELSE roots

(* The next entry point: its roots, with all of their parameters.          *)
SearchNext ==
    /\ queue = <<>> /\ left # <<>>
    /\ queue' = FoldLeft(AddRoot, <<>>, Head(left).roots)
    /\ left' = Tail(left) /\ met' = {} /\ inspected' = 0
    /\ UNCHANGED <<program, flowsFound, abandoned>>

(* A sink without guard that request data reaches.                         *)
SinkOpen(f, k, T) ==
    /\ k \in SinksOf(f) /\ Body(f)[k].kind \in DOMAIN AcrossRule
    /\ FirstCarries(Body(f)[k], T) /\ Open(f, k)

SinkFound(f, k) == [rule |-> AcrossRule[Body(f)[k].kind], site |-> Body(f)[k].site]

TellSink(found, k) ==
    IF SinkOpen(found.symbol, k, found.names)
    THEN [found EXCEPT !.list = Append(@, SinkFound(found.symbol, k))] ELSE found

(* What is found in a function, in the order of its statements.            *)
Across(f, T) ==
    FoldLeft(TellSink, [symbol |-> f, names |-> T, list |-> <<>>],
             [k \in DOMAIN Body(f) |-> k]).list

(* The arguments of a statement that pass request data on.                 *)
PassedOn(st, T) == IF st.op = "call" THEN {a \in DOMAIN st.args : Carries(st.args[a], T)} ELSE {}

PassCall(found, st) ==
    IF PassedOn(st, found.names) = {} THEN found
    ELSE [found EXCEPT !.calls = Append(@, [symbol |-> st.callee, hops |-> found.hops,
                                            tainted |-> PassedOn(st, found.names)])]

(* The calls of a function that pass it on, in their order.                *)
Passed(f, T, hops) ==
    FoldLeft(PassCall, [calls |-> <<>>, names |-> T, hops |-> hops + 1], Body(f)).calls

(* Mutant: what was called last is looked at first.                        *)
EnqueuedFirst(calls, others) == calls \o others

Enqueued(calls, others) == others \o calls

(* What is found again counts.                                             *)
MayInspect == queue # <<>> /\ inspected < MaxInspected /\ Len(flowsFound) < MaxFlows

(* A pair is taken from the queue.  It counts even if it is passed over.   *)
Inspect ==
    /\ MayInspect
    /\ inspected' = inspected + 1
    /\ LET current == Head(queue)
           pair == <<current.symbol, current.tainted>>
       IN  IF current.hops > MaxHops \/ pair \in met
           THEN queue' = Tail(queue) /\ UNCHANGED <<met, flowsFound>>
           ELSE /\ met' = met \cup {pair}
                /\ IF ~Known(current.symbol)
                   THEN queue' = Tail(queue) /\ UNCHANGED flowsFound
                   ELSE LET T == FunctionTaint(current.symbol, current.tainted)
                        IN  /\ flowsFound' = flowsFound \o
                                (IF current.hops > 0 THEN Across(current.symbol, T) ELSE <<>>)
                            /\ queue' = Enqueued(Passed(current.symbol, T, current.hops),
                                                 Tail(queue))
    /\ UNCHANGED <<program, left, abandoned>>

(* A limit is reached: the rest of the queue is left out without a word.   *)
AbandonSearch ==
    /\ queue # <<>> /\ ~MayInspect
    /\ queue' = <<>> /\ abandoned' = TRUE
    /\ UNCHANGED <<program, left, met, inspected, flowsFound>>

(* What the search answers: no more than so many.                          *)
FlowsTold == {flowsFound[i] : i \in {j \in DOMAIN flowsFound : j <= MaxFlows}}

TaintNext == SearchNext \/ Inspect \/ AbandonSearch

TaintSpec == TaintInit /\ [][TaintNext]_taintVars

-----------------------------------------------------------------------------
(* Where data flows in one run of a function, statement after statement.   *)
Flowing(f, indexes, k) ==
    FoldLeft(Learn, Params(f, indexes), [j \in 1..(k - 1) |-> Body(f)[j]])

(* What may carry it in any number of runs, in any order.                  *)
LetsOf(f) == {k \in DOMAIN Body(f) : Body(f)[k].op = "let"}

Names(f) == ToSet(program.functions[f].params) \cup {Body(f)[k].to : k \in LetsOf(f)}

Closed(f, S) ==
    \A k \in LetsOf(f) :
        ~Body(f)[k].owned /\ Body(f)[k].uses \cap S # {} => Body(f)[k].to \in S

AtMost(f, indexes, k) ==
    {x \in Names(f) : \A S \in SUBSET Names(f) :
        Params(f, indexes) \subseteq S /\ Closed(f, S) => x \in S}

(* The pairs that the calls of the function of a pair lead to, where       *)
(* Carriers(f, indexes, k) are the names that carry request data at k.     *)
CalledFrom(p, Carriers(_, _, _)) ==
    {[symbol |-> Body(p.symbol)[k].callee,
      tainted |-> PassedOn(Body(p.symbol)[k], Carriers(p.symbol, p.tainted, k))] :
        k \in {c \in DOMAIN Body(p.symbol) :
                /\ PassedOn(Body(p.symbol)[c], Carriers(p.symbol, p.tainted, c)) # {}
                /\ Known(Body(p.symbol)[c].callee)}}

FlowsOn(pairs, hop) == UNION {CalledFrom(p, Flowing) : p \in pairs}

MayFlowOn(pairs, hop) == UNION {CalledFrom(p, AtMost) : p \in pairs}

RootPairs(e) == {[symbol |-> r, tainted |-> All(r)] : r \in {s \in ToSet(e.roots) : Known(s)}}

(* Those in so many hops from an entry point.                              *)
Reached(e, hops, On(_, _)) == FoldLeft(On, RootPairs(e), [hop \in 1..hops |-> hop])

OpenSinks(p, Carriers(_, _, _)) ==
    {SinkFound(p.symbol, k) :
        k \in {s \in SinksOf(p.symbol) : SinkOpen(p.symbol, s, Carriers(p.symbol, p.tainted, s))}}

(* The unguarded sinks that request data reaches across calls.             *)
Reaches(On(_, _), Carriers(_, _, _)) ==
    UNION {UNION {UNION {OpenSinks(p, Carriers) : p \in Reached(e, hops, On)} :
                  hops \in 1..MaxHops} : e \in ToSet(program.entrypoints)}

(* What the rules of single functions find in the entry points.            *)
Entered == {f \in UNION {e.symbols : e \in ToSet(program.entrypoints)} : Known(f)}

Sole ==
    UNION {Direct(f) : f \in Entered}
    \cup UNION {Ordered(f, e.webhook) : f \in Entered, e \in ToSet(program.entrypoints)}

(* A name that is declared twice, once for a value the server owns, or that *)
(* is a parameter's too: the passes know names and no scopes, and take it  *)
(* for the server's.                                                       *)
Shadowed(f) ==
    \E j \in LetsOf(f) :
        /\ Body(f)[j].owned
        /\ \/ Body(f)[j].to \in ToSet(program.functions[f].params)
           \/ \E k \in LetsOf(f) : ~Body(f)[k].owned /\ Body(f)[k].to = Body(f)[j].to

(* A search that was not abandoned and found no more than it answers has   *)
(* told of every unguarded sink that request data reaches from an entry    *)
(* point within so many calls, on any path and with any of the parameters, *)
(* even if another path had led to the same function before; and any       *)
(* search tells of no sink that the data cannot reach.  In an entry point  *)
(* itself the rules of single functions tell of it, those of SaaS          *)
(* applications and the others alike where the data is in a parameter that *)
(* is named for it.  Functions that shadow a name are excepted.            *)
TaintIsTold ==
    (\A f \in DOMAIN program.functions : ~Shadowed(f)) =>
    /\ queue = <<>> /\ left = <<>> =>
            /\ ~abandoned /\ Len(flowsFound) <= MaxFlows =>
                    Reaches(FlowsOn, Flowing) \subseteq FlowsTold \cup Sole
            /\ FlowsTold \subseteq Reaches(MayFlowOn, AtMost)
    /\ \A f \in Entered : \A k \in SinksOf(f) :
            LET sink == Body(f)[k]
                flowing == Flowing(f, All(f), k)
                finding(rules) == [rule |-> rules[sink.kind], site |-> sink.site]
            IN  /\ sink.kind \in DOMAIN DirectRule /\ DirectCarries(sink, flowing)
                        /\ ~PriorGuard(f, k) => finding(DirectRule) \in Direct(f)
                /\ sink.kind \in DOMAIN SaasRule /\ SomeCarries(sink, flowing)
                        /\ ToSet(program.functions[f].params) \subseteq RequestNames =>
                        finding(SaasRule) \in Saas(f)
=============================================================================
