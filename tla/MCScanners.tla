------------------------------ MODULE MCScanners ------------------------------
(* One scanner of a node, and the rounds in which a pipeline runs its      *)
(* nodes, of every graph of up to three nodes, cyclic ones and ones with   *)
(* missing nodes included, and of every acyclic graph of four; and the     *)
(* page that shows an audit.  They share nothing, so that each is checked  *)
(* while the others rest: the scanners' process is off, an invocation of a *)
(* pipeline without nodes is over, the page shows an audit that completed. *)
EXTENDS MCScannerRun, DeterministicPipeline, AuditWorkspace

GraphsOf(n) == [1..n -> SUBSET (0..n)]

Acyclic(g) ==
    \E rank \in [DOMAIN g -> DOMAIN g] :
        \A n \in DOMAIN g : \A m \in g[n] : rank[m] < rank[n]

SmallGraphs ==
    UNION {GraphsOf(n) : n \in 0..3}
      \cup {g \in [1..4 -> SUBSET (1..4)] : Acyclic(g)}

VARIABLE machine    \* the one that moves

Invoked ==
    /\ preds = <<>> /\ state = <<>> /\ completed = {} /\ ready = {} /\ pending = {}
    /\ snapshot = <<>> /\ outcome = "resolved"

MCInit ==
    /\ machine \in {"scanner", "pipeline", "page"}
    /\ Init /\ PageInit
    /\ machine = "scanner" \/ build = (CHOOSE v \in Versions : TRUE)
    /\ machine = "page" \/ actual = [status |-> "completed", revision |-> 1]
    /\ \/ machine = "pipeline" /\ InvokeInit
       \/ machine # "pipeline" /\ Invoked

MCNext ==
    /\ UNCHANGED machine
    /\ \/ machine = "scanner" /\ Next /\ UNCHANGED <<pipelineVars, pageVars>>
       \/ /\ machine = "pipeline"
          /\ \/ PipelineNext
             \/ outcome # "pending" /\ pending = {} /\ UNCHANGED pipelineVars  \* it is over
          /\ UNCHANGED <<vars, pageVars>>
       \/ /\ machine = "page"
          /\ \/ PageNext
             \/ ~IsActive /\ UNCHANGED pageVars      \* nothing is done any more
          /\ UNCHANGED <<vars, pipelineVars>>

(* The fairness of each machine, while it is the one that moves.           *)
MCFairness ==
    /\ WF_vars(machine = "scanner" /\ Progress)
    /\ WF_vars(/\ machine = "scanner"
               /\ Close \/ SpawnError \/ Timeout
               /\ UNCHANGED <<aborted, entries, runVars>>)
    /\ WF_pipelineVars(machine = "pipeline" /\ (Round \/ Settle))
    /\ \A n \in 1..4 :
        WF_pipelineVars(machine = "pipeline" /\ n \in Nodes /\ (Return(n) \/ Throw(n)))
    /\ \A c \in Polls : WF_pageVars(machine = "page" /\ Poll(c))
    /\ \A c \in Callers : WF_pageVars(machine = "page" /\ Read(c))
    /\ SF_pageVars(machine = "page" /\ \E c \in Callers : Show(c))

MCSpec == MCInit /\ [][MCNext]_<<machine, vars, pipelineVars, pageVars>> /\ MCFairness
=============================================================================
