------------------------ MODULE DeterministicPipeline ------------------------
(***************************************************************************)
(* One invocation of a compiled pipeline                                   *)
(* (src/engine/deterministic-pipeline.ts): the registered nodes run in     *)
(* rounds.  A round is every node that has not completed and whose         *)
(* predecessors have; its nodes run concurrently on one snapshot of the    *)
(* state, and once all have returned their updates are merged in the order *)
(* in which the nodes were registered.                                     *)
(*                                                                         *)
(* A node is the rank of its registration; 0 stands for a name that was    *)
(* never registered, which addEdge accepts as a source.  The pipeline's    *)
(* state is the sequence of the nodes whose updates it has merged.         *)
(***************************************************************************)
EXTENDS Naturals, FiniteSets, Sequences

CONSTANT Graphs     \* [node -> its predecessors], one per compiled pipeline

ASSUME GraphsAssumption ==
    \A g \in Graphs :
        /\ IsFiniteSet(DOMAIN g) /\ DOMAIN g = 1..Cardinality(DOMAIN g)
        /\ g \in [DOMAIN g -> SUBSET (DOMAIN g \cup {0})]

VARIABLES
    preds,      \* the graph that was compiled
    state,      \* the updates merged so far
    completed,  \* the nodes whose update was merged
    ready,      \* the nodes of this round
    pending,    \* the nodes that have not returned
    snapshot,   \* what each node that was started saw of the state
    outcome     \* the promise invoke returned

pipelineVars == <<preds, state, completed, ready, pending, snapshot, outcome>>

Nodes == DOMAIN preds

PipelineTypeOK ==
    /\ preds \in Graphs
    /\ state \in Seq(Nodes)
    /\ completed \in SUBSET Nodes
    /\ ready \in SUBSET Nodes
    /\ pending \in SUBSET Nodes
    /\ DOMAIN snapshot \in SUBSET Nodes
    /\ \A n \in DOMAIN snapshot : snapshot[n] \in SUBSET Nodes
    /\ outcome \in {"pending", "resolved", "rejected"}

InvokeInit ==
    /\ preds \in Graphs
    /\ state = <<>>
    /\ completed = {}
    /\ ready = {}
    /\ pending = {}
    /\ snapshot = [n \in {} |-> {}]
    /\ outcome = "pending"

-----------------------------------------------------------------------------
(* Mutant: names that only edges mention count as nodes. *)
ReadyUnregistered(done) ==
    {n \in Nodes \ done : preds[n] \subseteq done \cup {0}}
        \cup (UNION {preds[n] : n \in Nodes} \ Nodes)

Ready(done) == {n \in Nodes \ done : preds[n] \subseteq done}

(* Mutant: the last registered node is merged first. *)
RegisteredReversed(N) ==
    LET upTo[k \in 0..Cardinality(Nodes)] ==
          IF k = 0 THEN <<>>
          ELSE IF k \in N THEN <<k>> \o upTo[k - 1] ELSE upTo[k - 1]
    IN  upTo[Cardinality(Nodes)]

(* The nodes of N in the order in which nodes.keys() gives them. *)
Registered(N) ==
    LET upTo[k \in 0..Cardinality(Nodes)] ==
          IF k = 0 THEN <<>>
          ELSE IF k \in N THEN Append(upTo[k - 1], k) ELSE upTo[k - 1]
    IN  upTo[Cardinality(Nodes)]

(* Mutants: the snapshot is taken before the merge; a rejected invocation   *)
(* goes on with the nodes that did return.                                 *)
RoundStale ==
    /\ outcome = "pending"
    /\ pending = {}
    /\ state' = state \o Registered(ready)
    /\ completed' = completed \cup ready
    /\ completed' # Nodes
    /\ ready' = Ready(completed')
    /\ ready' # {}
    /\ pending' = ready'
    /\ snapshot' = [n \in DOMAIN snapshot \cup ready' |->
                      IF n \in ready' THEN completed ELSE snapshot[n]]
    /\ UNCHANGED <<preds, outcome>>

RoundAfterThrow ==
    /\ outcome # "resolved"
    /\ pending = {}
    /\ state' = state \o Registered(ready)
    /\ completed' = completed \cup ready
    /\ completed' # Nodes
    /\ ready' = Ready(completed')
    /\ ready' # {}
    /\ pending' = ready'
    /\ snapshot' = [n \in DOMAIN snapshot \cup ready' |->
                      IF n \in ready' THEN completed' ELSE snapshot[n]]
    /\ UNCHANGED <<preds, outcome>>

(* Promise.all has resolved, or invoke was just called: the updates of the *)
(* round are merged and the nodes of the next one start.                   *)
Round ==
    /\ outcome = "pending"
    /\ pending = {}
    /\ state' = state \o Registered(ready)
    /\ completed' = completed \cup ready
    /\ completed' # Nodes
    /\ ready' = Ready(completed')
    /\ ready' # {}
    /\ pending' = ready'
    /\ snapshot' = [n \in DOMAIN snapshot \cup ready' |->
                      IF n \in ready' THEN completed' ELSE snapshot[n]]
    /\ UNCHANGED <<preds, outcome>>

(* Mutants: an empty round resolves; an empty round goes round again. *)
SettleEmpty ==
    /\ outcome = "pending"
    /\ pending = {}
    /\ state' = state \o Registered(ready)
    /\ completed' = completed \cup ready
    /\ ready' = {}
    /\ Ready(completed') = {}
    /\ outcome' = "resolved"
    /\ UNCHANGED <<preds, pending, snapshot>>

SettleComplete ==
    /\ outcome = "pending"
    /\ pending = {}
    /\ state' = state \o Registered(ready)
    /\ completed' = completed \cup ready
    /\ completed' = Nodes
    /\ ready' = {}
    /\ outcome' = "resolved"
    /\ UNCHANGED <<preds, pending, snapshot>>

(* The loop ends: all nodes are done, or none of the others can start.     *)
Settle ==
    /\ outcome = "pending"
    /\ pending = {}
    /\ state' = state \o Registered(ready)
    /\ completed' = completed \cup ready
    /\ ready' = {}
    /\ \/ completed' = Nodes /\ outcome' = "resolved"
       \/ completed' # Nodes /\ Ready(completed') = {} /\ outcome' = "rejected"
    /\ UNCHANGED <<preds, pending, snapshot>>

(* A node returns its update, which a rejected invocation drops.           *)
Return(n) ==
    /\ n \in pending
    /\ pending' = pending \ {n}
    /\ UNCHANGED <<preds, state, completed, ready, snapshot, outcome>>

(* The first throw rejects; the other nodes of the round keep running.     *)
Throw(n) ==
    /\ n \in pending
    /\ outcome = "pending"
    /\ pending' = pending \ {n}
    /\ outcome' = "rejected"
    /\ UNCHANGED <<preds, state, completed, ready, snapshot>>

PipelineNext == Round \/ Settle \/ \E n \in Nodes : Return(n) \/ Throw(n)

PipelineSpec == InvokeInit /\ [][PipelineNext]_pipelineVars

(* The event loop goes on, and every node returns or throws: its           *)
(* subprocesses and requests are bounded by timeouts.                      *)
PipelineFairness ==
    /\ WF_pipelineVars(Round \/ Settle)
    /\ \A n \in UNION {DOMAIN g : g \in Graphs} :
         WF_pipelineVars(n \in Nodes /\ (Return(n) \/ Throw(n)))

FairPipeline == PipelineSpec /\ PipelineFairness

-----------------------------------------------------------------------------
(* The nodes that depend on one of X, or on a name that is not registered. *)
Above(X) == {n \in Nodes : preds[n] \cap (X \cup {0}) # {}}

(* The nodes at the end of a chain of k predecessors.  An unregistered     *)
(* predecessor and a cycle make chains of every length.                    *)
ChainEnds ==
    LET ends[k \in 0..Cardinality(Nodes)] ==
          IF k = 0 THEN Nodes
          ELSE Above(ends[k - 1])
    IN  ends

Stuck == ChainEnds[Cardinality(Nodes)]

Depth(n) ==
    CHOOSE k \in 0..(Cardinality(Nodes) - 1) :
        /\ n \in ChainEnds[k]
        /\ \A m \in (k + 1)..Cardinality(Nodes) : n \notin ChainEnds[m]

Precedes(m, n) == Depth(m) < Depth(n) \/ (Depth(m) = Depth(n) /\ m < n)

(* A node starts on a state that holds the updates of all nodes it depends *)
(* on, and no node starts that depends on one that never completes.        *)
DependenciesFirst ==
    \A n \in DOMAIN snapshot :
        /\ preds[n] \subseteq snapshot[n]
        /\ snapshot[n] \subseteq completed

(* The order of the updates in the state, which decides which of two runs  *)
(* of one scanner and which duplicate of a finding a report keeps, depends *)
(* on the graph only, never on the order in which the nodes returned: each *)
(* once, by the length of the longest chain below it, then by registration.*)
OrderIsCanonical ==
    /\ \A i, j \in DOMAIN state : i < j => Precedes(state[i], state[j])
    /\ \A n \in ready \cup completed : n \notin Stuck
    /\ \A n \in ready, i \in DOMAIN state :
         n \notin completed => Precedes(state[i], n)

(* invoke resolves only with the update of every node merged, and it never *)
(* resolves a graph with a cycle or a missing node.                        *)
ResolvedIsWhole ==
    outcome = "resolved" =>
        /\ completed = Nodes
        /\ {state[i] : i \in DOMAIN state} = Nodes
        /\ Stuck = {}
        /\ pending = {}

(* A rejected invocation starts no node and merges no update any more,     *)
(* although nodes of its last round still return.                          *)
RejectionIsFinal ==
    [][outcome = "rejected" =>
          /\ outcome' = "rejected"
          /\ state' = state
          /\ pending' \subseteq pending]_pipelineVars

(* No schedule of the nodes hangs an invocation, and its stray nodes end.  *)
InvocationSettles == <>[](outcome # "pending" /\ pending = {})

(* The strengthening under which DependenciesFirst is inductive: what a    *)
(* node saw is part of what is completed, and the nodes of a round started *)
(* on all that was completed before it.                                    *)
RoundInv ==
    /\ completed \subseteq Nodes
    /\ ready \subseteq DOMAIN snapshot
    /\ DOMAIN snapshot = completed \cup ready
    /\ DOMAIN snapshot \subseteq Nodes
    /\ pending \subseteq ready
    /\ outcome = "resolved" => completed = Nodes /\ pending = {}
    /\ DependenciesFirst
=============================================================================
