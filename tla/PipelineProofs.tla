--------------------------- MODULE PipelineProofs ---------------------------
(***************************************************************************)
(* Theorems about the pipelines of an audit and what runs in them: one     *)
(* invocation of DeterministicPipeline, for every graph and every number   *)
(* of nodes, and ScannerRun, for every set of trees, scanners and versions *)
(* and for every limit of the cache.                                       *)
(*                                                                         *)
(* RoundInv relates what each node saw to what has been completed;         *)
(* MergeInv relates the rounds and the order of the updates to the layers  *)
(* of the graph, a layer being the nodes whose longest chains have one     *)
(* length.                                                                 *)
(***************************************************************************)
EXTENDS DeterministicPipeline, ScannerRun, FiniteSetTheorems, WellFoundedInduction, TLAPS

(* No node has started before the first round. *)
LEMMA PipelineInit == InvokeInit => RoundInv
BY DEF InvokeInit, RoundInv, DependenciesFirst, Nodes

(* A round and the end of the loop add to completed what was ready; only a *)
(* round starts nodes, those whose predecessors are completed by then.     *)
LEMMA PipelineStep ==
  ASSUME RoundInv, [PipelineNext]_pipelineVars PROVE RoundInv'
<1> USE DEF RoundInv, DependenciesFirst, Nodes
<1>1. CASE Round
  <2>1. /\ completed' = completed \cup ready
        /\ ready' = {n \in DOMAIN preds \ completed' : preds[n] \subseteq completed'}
        /\ pending' = ready'
        /\ preds' = preds
        /\ outcome' = "pending"
        /\ snapshot' = [n \in DOMAIN snapshot \cup ready' |->
                          IF n \in ready' THEN completed' ELSE snapshot[n]]
    BY <1>1 DEF Round, Ready
  <2>2. DOMAIN snapshot' = completed' \cup ready'
    BY <2>1
  <2>3. \A n \in DOMAIN snapshot' : /\ preds'[n] \subseteq snapshot'[n]
                                    /\ snapshot'[n] \subseteq completed'
    <3> TAKE n \in DOMAIN snapshot'
    <3>1. CASE n \in ready'
      BY <3>1, <2>1
    <3>2. CASE n \notin ready'
      BY <3>2, <2>1
    <3> QED BY <3>1, <3>2
  <2> QED BY <2>1, <2>2, <2>3
<1>2. CASE Settle
  BY <1>2 DEF Settle
<1>3. ASSUME NEW n \in Nodes, Return(n) PROVE RoundInv'
  BY <1>3 DEF Return
<1>4. ASSUME NEW n \in Nodes, Throw(n) PROVE RoundInv'
  BY <1>4 DEF Throw
<1>5. CASE UNCHANGED pipelineVars
  BY <1>5 DEF pipelineVars
<1> QED BY <1>1, <1>2, <1>3, <1>4, <1>5 DEF PipelineNext

(* A node starts on a state that holds what all the nodes it depends on    *)
(* returned, whatever the graph and whatever order the nodes return in     *)
(* (the filter and the snapshot of invoke).                                *)
THEOREM DependenciesHold == PipelineSpec => []DependenciesFirst
<1>1. RoundInv => DependenciesFirst
  BY DEF RoundInv
<1> QED BY PipelineInit, PipelineStep, <1>1, PTL DEF PipelineSpec

(* invoke resolves only after every node has completed and none is         *)
(* running any more.                                                       *)
THEOREM NothingIsLeftOver ==
    PipelineSpec => [](outcome = "resolved" => completed = Nodes /\ pending = {})
<1>1. RoundInv => (outcome = "resolved" => completed = Nodes /\ pending = {})
  BY DEF RoundInv
<1> QED BY PipelineInit, PipelineStep, <1>1, PTL DEF PipelineSpec

(* Once a node has thrown, or no node could start, the invocation merges   *)
(* and starts nothing any more, whatever its stray nodes do.               *)
THEOREM RejectionHolds == PipelineSpec => RejectionIsFinal
<1>1. ASSUME [PipelineNext]_pipelineVars, outcome = "rejected"
      PROVE  outcome' = "rejected" /\ state' = state /\ pending' \subseteq pending
  <2>1. CASE \E n \in Nodes : Return(n)
    BY <2>1, <1>1 DEF Return
  <2>2. CASE UNCHANGED pipelineVars
    BY <2>2, <1>1 DEF pipelineVars
  <2> QED BY <1>1, <2>1, <2>2 DEF PipelineNext, Round, Settle, Throw
<1> QED BY <1>1, PTL DEF PipelineSpec, RejectionIsFinal

-----------------------------------------------------------------------------
(* What induction rests on: the order of the naturals is well founded.     *)
LEMMA LeastNatural ==
  ASSUME NEW T \in SUBSET Nat, T # {} PROVE \E x \in T : \A y \in T : x <= y
<1> DEFINE R == {ss \in Nat \X Nat : ss[1] < ss[2]}
<1>1. IsWellFoundedOn(R, Nat)
  BY NatLessThanWellFounded DEF OpToRel
<1>2. PICK x \in T : \A y \in T : ~(<<y, x>> \in R)
  <2> HIDE DEF R
  <2> QED BY <1>1, WFMin
<1>3. ASSUME NEW y \in T PROVE x <= y
  <2>1. x \in Nat /\ y \in Nat
    OBVIOUS
  <2>2. CASE y < x
    <3>1. <<y, x>> \in R
      BY <2>1, <2>2
    <3> QED BY <1>2, <3>1
  <2> QED BY <2>1, <2>2
<1> QED BY <1>3

(* Induction, over the set of the numbers that have a property.            *)
LEMMA SetInduction ==
  ASSUME NEW P \in SUBSET Nat, 0 \in P, \A n \in P : n + 1 \in P PROVE P = Nat
<1> DEFINE T == Nat \ P
<1> SUFFICES ASSUME T # {} PROVE FALSE
  OBVIOUS
<1>1. PICK x \in T : \A y \in T : x <= y
  <2>1. T \in SUBSET Nat
    OBVIOUS
  <2> HIDE DEF T
  <2> QED BY <2>1, LeastNatural
<1>2. x # 0 /\ x - 1 \in Nat
  OBVIOUS
<1>3. x - 1 \in P
  BY <1>1, <1>2
<1>4. (x - 1) + 1 \in P
  BY <1>3
<1> QED BY <1>4

(* f is what a recursive function computes that starts from b.             *)
Iterates(f, b, step, N) == f[0] = b /\ \A k \in 1..N : f[k] = step[k][f[k - 1]]

(* Such a function exists, which must be known before the values of a      *)
(* recursive definition are.                                               *)
LEMMA Recursion ==
  ASSUME NEW S, NEW b \in S, NEW step \in [Nat -> [S -> S]], NEW N \in Nat
  PROVE  \E f \in [0..N -> S] : Iterates(f, b, step, N)
<1> DEFINE Rec(f, m) == \A k \in 0..m : f[k] = IF k = 0 THEN b ELSE step[k][f[k - 1]]
           P == {m \in Nat : \E f \in [0..m -> S] : Rec(f, m)}
<1>1. 0 \in P
  <2>1. Rec([k \in 0..0 |-> b], 0)
    OBVIOUS
  <2>2. [k \in 0..0 |-> b] \in [0..0 -> S]
    OBVIOUS
  <2> HIDE DEF Rec
  <2> QED BY <2>1, <2>2
<1>2. ASSUME NEW m \in P PROVE m + 1 \in P
  <2>1. PICK f \in [0..m -> S] : Rec(f, m)
    OBVIOUS
  <2> DEFINE g == [k \in 0..(m + 1) |-> IF k = m + 1 THEN step[m + 1][f[m]] ELSE f[k]]
  <2>0. m \in Nat /\ m \in 0..m /\ m + 1 \in Nat /\ f[m] \in S
    OBVIOUS
  <2>2. g \in [0..(m + 1) -> S]
    <3>1. ASSUME NEW k \in 0..(m + 1)
          PROVE  (IF k = m + 1 THEN step[m + 1][f[m]] ELSE f[k]) \in S
      <4>1. CASE k = m + 1
        BY <4>1, <2>0
      <4>2. CASE k # m + 1
        <5>1. k \in 0..m
          BY <4>2, <2>0
        <5> QED BY <5>1, <4>2
      <4> QED BY <4>1, <4>2
    <3> QED BY <3>1
  <2>3. Rec(g, m + 1)
    <3> SUFFICES ASSUME NEW k \in 0..(m + 1)
                 PROVE  g[k] = IF k = 0 THEN b ELSE step[k][g[k - 1]]
      OBVIOUS
    <3>1. CASE k = m + 1
      <4>1. g[k] = step[m + 1][f[m]] /\ g[k - 1] = f[m]
        BY <3>1, <2>0
      <4>2. k # 0 /\ k = m + 1 /\ (m + 1) - 1 = m
        BY <3>1, <2>0
      <4> HIDE DEF g
      <4> QED BY <4>1, <4>2
    <3>2. CASE k # m + 1
      <4>1. k \in 0..m /\ (k # 0 => k - 1 \in 0..m)
        BY <3>2, <2>0
      <4>2. g[k] = f[k] /\ (k # 0 => g[k - 1] = f[k - 1])
        BY <4>1, <3>2, <2>0
      <4>3. f[k] = IF k = 0 THEN b ELSE step[k][f[k - 1]]
        BY <4>1, <2>1
      <4> HIDE DEF g
      <4> QED BY <4>2, <4>3
    <3> QED BY <3>1, <3>2
  <2> HIDE DEF g, Rec
  <2> QED BY <2>0, <2>2, <2>3
<1>3. P = Nat
  <2> HIDE DEF P
  <2>1. P \in SUBSET Nat
    BY DEF P
  <2> QED BY <1>1, <1>2, <2>1, SetInduction
<1>4. PICK f \in [0..N -> S] : Rec(f, N)
  BY <1>3
<1>5. f[0] = b
  <2>1. 0 \in 0..N
    OBVIOUS
  <2> QED BY <1>4, <2>1
<1>6. ASSUME NEW k \in 1..N PROVE f[k] = step[k][f[k - 1]]
  <2>1. k \in 0..N /\ k # 0
    OBVIOUS
  <2> QED BY <1>4, <2>1
<1> QED BY <1>5, <1>6 DEF Iterates

-----------------------------------------------------------------------------
Size == Cardinality(Nodes)

(* The nodes are the numbers from 1 to their number.                       *)
LEMMA NodesAreRanks ==
  ASSUME preds \in Graphs PROVE Size \in Nat /\ Nodes = 1..Size /\ IsFiniteSet(Nodes)
BY GraphsAssumption, FS_CardinalityType DEF Size, Nodes

(* The definition of ChainEnds, unfolded once.                             *)
LEMMA Ends ==
  ASSUME preds \in Graphs
  PROVE /\ ChainEnds \in [0..Size -> SUBSET Nodes]
        /\ ChainEnds[0] = Nodes
        /\ \A k \in 1..Size : ChainEnds[k] = Above(ChainEnds[k - 1])
<1> DEFINE step == [k \in Nat |-> [X \in SUBSET Nodes |-> Above(X)]]
<1>0. Size \in Nat
  BY NodesAreRanks
<1>1. step \in [Nat -> [SUBSET Nodes -> SUBSET Nodes]]
  BY DEF Above
<1>2. PICK f \in [0..Size -> SUBSET Nodes] : Iterates(f, Nodes, step, Size)
  <2>1. Nodes \in SUBSET Nodes
    OBVIOUS
  <2> HIDE DEF step
  <2> QED BY <1>0, <1>1, <2>1, Recursion
<1>3. f = [k \in 0..Size |-> IF k = 0 THEN Nodes ELSE Above(f[k - 1])]
  <2>1. ASSUME NEW k \in 0..Size, k # 0
        PROVE step[k][f[k - 1]] = Above(f[k - 1])
    <3>1. k \in Nat /\ k - 1 \in 0..Size /\ f[k - 1] \in SUBSET Nodes
      BY <2>1, <1>0
    <3> QED BY <3>1
  <2>2. ASSUME NEW k \in 0..Size
        PROVE f[k] = IF k = 0 THEN Nodes ELSE Above(f[k - 1])
    <3>1. CASE k = 0
      BY <1>2, <3>1 DEF Iterates
    <3>2. CASE k # 0
      <4>1. k \in 1..Size
        BY <3>2, <1>0
      <4> HIDE DEF step
      <4>2. f[k] = step[k][f[k - 1]]
        BY <4>1, <1>2 DEF Iterates
      <4> QED BY <4>2, <3>2, <2>1
    <3> QED BY <3>1, <3>2
  <2> QED BY <2>2
<1>4. ChainEnds = [k \in 0..Size |-> IF k = 0 THEN Nodes ELSE Above(ChainEnds[k - 1])]
  BY <1>3 DEF ChainEnds, Size
<1> DEFINE E == ChainEnds
<1> HIDE DEF E
<1>5. E = [k \in 0..Size |-> IF k = 0 THEN Nodes ELSE Above(E[k - 1])]
  BY <1>4 DEF E
<1>6. \A k \in 0..Size : E[k] = IF k = 0 THEN Nodes ELSE Above(E[k - 1])
  BY <1>5
<1>7. E \in [0..Size -> SUBSET Nodes]
  BY <1>5, <1>6 DEF Above
<1> QED BY <1>6, <1>7, <1>0 DEF E

(* Who ends a long chain ends a shorter one.                               *)
LEMMA EndsShrink ==
  ASSUME preds \in Graphs, NEW r \in 0..Size, NEW s \in r..Size
  PROVE ChainEnds[s] \subseteq ChainEnds[r]
<1>0. Size \in Nat /\ ChainEnds \in [0..Size -> SUBSET Nodes] /\ ChainEnds[0] = Nodes
  BY Ends, NodesAreRanks
<1> DEFINE P == {k \in Nat : k < Size => ChainEnds[k + 1] \subseteq ChainEnds[k]}
<1>1. 0 \in P
  BY <1>0
<1>2. ASSUME NEW k \in P PROVE k + 1 \in P
  <2>0. k \in Nat
    OBVIOUS
  <2>1. SUFFICES ASSUME k + 1 < Size PROVE ChainEnds[k + 2] \subseteq ChainEnds[k + 1]
    BY <2>0
  <2>2. /\ ChainEnds[k + 2] = Above(ChainEnds[k + 1])
        /\ ChainEnds[k + 1] = Above(ChainEnds[k])
    <3>1. k + 2 \in 1..Size /\ k + 1 \in 1..Size /\ (k + 2) - 1 = k + 1 /\ (k + 1) - 1 = k
      BY <1>0, <2>0, <2>1
    <3>2. \A j \in 1..Size : ChainEnds[j] = Above(ChainEnds[j - 1])
      BY Ends
    <3> QED BY ONLY <3>1, <3>2
  <2>3. ChainEnds[k + 1] \subseteq ChainEnds[k]
    BY <1>0, <2>0, <2>1
  <2> QED BY <2>2, <2>3 DEF Above
<1>3. P = Nat
  <2>1. P \in SUBSET Nat
    OBVIOUS
  <2> HIDE DEF P
  <2> QED BY <1>1, <1>2, <2>1, SetInduction
<1>4. \A k \in Nat : k < Size => ChainEnds[k + 1] \subseteq ChainEnds[k]
  BY <1>3
<1> DEFINE Q == {d \in Nat : r + d <= Size => ChainEnds[r + d] \subseteq ChainEnds[r]}
<1>5. r \in Nat /\ s \in Nat /\ s - r \in Nat
  BY <1>0
<1>6. 0 \in Q
  BY <1>5
<1>7. ASSUME NEW d \in Q PROVE d + 1 \in Q
  <2>0. d \in Nat
    OBVIOUS
  <2>1. SUFFICES ASSUME r + (d + 1) <= Size
              PROVE  ChainEnds[r + (d + 1)] \subseteq ChainEnds[r]
    BY <2>0
  <2>2. r + d \in Nat /\ r + d < Size /\ r + (d + 1) = (r + d) + 1
    BY <1>0, <1>5, <2>0, <2>1
  <2>3. ChainEnds[(r + d) + 1] \subseteq ChainEnds[r + d]
    BY <1>4, <2>2
  <2>4. ChainEnds[r + d] \subseteq ChainEnds[r]
    BY <2>2, <1>0, <1>5
  <2> QED BY <2>2, <2>3, <2>4
<1>8. Q = Nat
  <2>1. Q \in SUBSET Nat
    OBVIOUS
  <2> HIDE DEF Q
  <2> QED BY <1>6, <1>7, <2>1, SetInduction
<1>9. \A d \in Nat : r + d <= Size => ChainEnds[r + d] \subseteq ChainEnds[r]
  BY <1>8
<1>10. r + (s - r) = s /\ s <= Size
  BY <1>0, <1>5
<1>11. ChainEnds[r + (s - r)] \subseteq ChainEnds[r]
  BY <1>5, <1>9, <1>10
<1> QED BY ONLY <1>10, <1>11

(* The layer in which a node lies is its depth.                            *)
LEMMA DepthIs ==
  ASSUME preds \in Graphs, NEW r \in Nat, r < Size,
         NEW n \in ChainEnds[r] \ ChainEnds[r + 1]
  PROVE Depth(n) = r
<1>0. Size \in Nat
  BY NodesAreRanks
<1>1. ASSUME NEW m \in (r + 1)..Size PROVE n \notin ChainEnds[m]
  <2>1. r + 1 \in 0..Size
    BY <1>0
  <2>2. ChainEnds[m] \subseteq ChainEnds[r + 1]
    BY <2>1, EndsShrink
  <2> QED BY <2>2
<1>2. ASSUME NEW k \in 0..(Size - 1), n \in ChainEnds[k],
             \A m \in (k + 1)..Size : n \notin ChainEnds[m]
      PROVE k = r
  <2>1. CASE k < r
    <3>1. r \in (k + 1)..Size
      BY <2>1, <1>0
    <3> QED BY <3>1, <1>2
  <2>2. CASE r < k
    <3>1. k \in (r + 1)..Size
      BY <2>2, <1>0
    <3> QED BY <3>1, <1>1, <1>2
  <2> QED BY <2>1, <2>2, <1>0
<1>3. r \in 0..(Size - 1)
  BY <1>0
<1> QED BY <1>1, <1>2, <1>3 DEF Depth, Size

(* A node that ends no chain of length r lies in a layer below r.          *)
LEMMA DepthBelow ==
  ASSUME preds \in Graphs, NEW r \in 0..Size, NEW n \in Nodes \ ChainEnds[r]
  PROVE /\ Depth(n) \in Nat /\ Depth(n) < r
        /\ n \in ChainEnds[Depth(n)] \ ChainEnds[Depth(n) + 1]
<1>0. Size \in Nat /\ ChainEnds[0] = Nodes
  BY NodesAreRanks, Ends
<1> DEFINE T == {k \in 0..r : n \notin ChainEnds[k]}
<1>1. PICK k \in T : \A j \in T : k <= j
  <2>1. T \in SUBSET Nat /\ T # {}
    BY <1>0
  <2> HIDE DEF T
  <2> QED BY <2>1, LeastNatural
<1>2. k # 0 /\ k \in Nat /\ k <= r /\ k - 1 \in Nat /\ k - 1 < Size
  BY <1>0
<1>3. n \in ChainEnds[k - 1]
  <2>1. k - 1 \in 0..r /\ ~(k <= k - 1)
    BY <1>0, <1>2
  <2> QED BY <2>1, <1>1
<1>4. (k - 1) + 1 = k
  BY <1>2
<1>5. n \in ChainEnds[k - 1] \ ChainEnds[(k - 1) + 1]
  BY <1>3, <1>4
<1>6. Depth(n) = k - 1
  BY <1>2, <1>5, DepthIs
<1> QED BY <1>2, <1>5, <1>6, <1>0

-----------------------------------------------------------------------------
(* The filter over nodes.keys() gives each node of a set once, by rank.    *)
LEMMA RegisteredLists ==
  ASSUME preds \in Graphs, NEW M \in SUBSET Nodes
  PROVE /\ Registered(M) \in Seq(Nodes)
        /\ \A n : n \in M <=> \E i \in 1..Len(Registered(M)) : Registered(M)[i] = n
        /\ \A i, j \in 1..Len(Registered(M)) : i < j => Registered(M)[i] < Registered(M)[j]
<1> DEFINE Put(u, k) == IF k \in M THEN Append(u, k) ELSE u
           V == Seq(Nodes)
           step == [k \in Nat |-> [u \in V |-> Put(u, k)]]
<1>0. Size \in Nat /\ Nodes = 1..Size
  BY NodesAreRanks
<1>1. step \in [Nat -> [V -> V]] /\ <<>> \in V
  <2>1. ASSUME NEW k \in Nat, NEW u \in V PROVE (Put(u, k)) \in V
    BY <2>1
  <2> QED BY <2>1
<1>2. PICK f \in [0..Size -> V] : Iterates(f, <<>>, step, Size)
  <2> HIDE DEF V, step
  <2> QED BY <1>0, <1>1, Recursion
<1>3. ASSUME NEW k \in 1..Size PROVE /\ k - 1 \in 0..Size /\ f[k - 1] \in V
                                     /\ f[k] = Put(f[k - 1], k)
  <2>1. k - 1 \in 0..Size /\ k \in Nat
    BY <1>0
  <2> QED BY <1>2, <2>1 DEF Iterates
<1>4. f = [k \in 0..Size |-> IF k = 0 THEN <<>> ELSE Put(f[k - 1], k)]
  <2>1. ASSUME NEW k \in 0..Size PROVE f[k] = IF k = 0 THEN <<>> ELSE Put(f[k - 1], k)
    <3>1. CASE k = 0
      BY <3>1, <1>2 DEF Iterates
    <3>2. CASE k # 0
      <4>1. k \in 1..Size
        BY <3>2, <1>0
      <4> QED BY <4>1, <3>2, <1>3
    <3> QED BY <3>1, <3>2
  <2> QED BY <2>1
<1>5. PICK g : /\ g = [k \in 0..Size |-> IF k = 0 THEN <<>> ELSE Put(g[k - 1], k)]
               /\ Registered(M) = g[Size]
  BY <1>4 DEF Registered, Size
<1> DEFINE Lists(u, k) == /\ u \in Seq(Nodes)
                          /\ \A n : n \in M /\ n <= k <=> \E i \in 1..Len(u) : u[i] = n
                          /\ \A i, j \in 1..Len(u) : i < j => u[i] < u[j]
           P == {k \in Nat : k <= Size => Lists(g[k], k)}
<1>6. 0 \in P
  <2>1. g[0] = <<>>
    BY <1>5, <1>0
  <2>2. Lists(<<>>, 0)
    <3>1. Len(<<>>) = 0 /\ 1..0 = {} /\ <<>> \in Seq(Nodes)
      OBVIOUS
    <3>2. \A n \in M : ~(n <= 0)
      BY <1>0
    <3> QED BY <3>1, <3>2
  <2> HIDE DEF Lists
  <2> QED BY <2>1, <2>2
<1>7. ASSUME NEW k \in P PROVE k + 1 \in P
  <2>0. k \in Nat
    OBVIOUS
  <2>1. SUFFICES ASSUME k + 1 <= Size PROVE Lists(g[k + 1], k + 1)
    BY <2>0
  <2>2. Lists(g[k], k)
    BY <2>0, <2>1, <1>0
  <2>3. g[k + 1] = IF k + 1 \in M THEN Append(g[k], k + 1) ELSE g[k]
    <3>1. k + 1 \in 0..Size /\ k + 1 # 0 /\ (k + 1) - 1 = k
      BY <2>0, <2>1, <1>0
    <3> QED BY <3>1, <1>5
  <2> DEFINE u == g[k]
  <2>4. ASSUME NEW v, v = u, Lists(v, k), k + 1 \in M
        PROVE  Lists(Append(v, k + 1), k + 1)
    <3> DEFINE w == Append(v, k + 1)
    <3>1. v \in Seq(Nodes) /\ Len(v) \in Nat /\ k + 1 \in Nodes
      BY <2>4
    <3>2. /\ w \in Seq(Nodes) /\ Len(w) = Len(v) + 1 /\ w[Len(v) + 1] = k + 1
          /\ \A i \in 1..Len(v) : w[i] = v[i]
      BY <3>1
    <3> HIDE DEF w
    <3>3. ASSUME NEW n PROVE n \in M /\ n <= k + 1 <=> \E i \in 1..Len(w) : w[i] = n
      <4>1. ASSUME n \in M, n <= k + 1 PROVE \E i \in 1..Len(w) : w[i] = n
        <5>1. CASE n = k + 1
          BY <5>1, <3>1, <3>2
        <5>2. CASE n # k + 1
          <6>1. n <= k
            BY <4>1, <5>2, <1>0, <2>0
          <6>2. PICK i \in 1..Len(v) : v[i] = n
            BY <6>1, <4>1, <2>4
          <6>3. i \in 1..Len(w)
            BY <3>1, <3>2
          <6> QED BY <6>2, <6>3, <3>2
        <5> QED BY <5>1, <5>2
      <4>2. ASSUME NEW i \in 1..Len(w), w[i] = n PROVE n \in M /\ n <= k + 1
        <5>1. CASE i = Len(v) + 1
          BY <5>1, <4>2, <3>2, <2>4, <2>0
        <5>2. CASE i # Len(v) + 1
          <6>1. i \in 1..Len(v)
            BY <5>2, <3>1, <3>2
          <6>2. n \in M /\ n <= k
            BY <6>1, <4>2, <3>2, <2>4
          <6> QED BY <6>2, <1>0, <2>0
        <5> QED BY <5>1, <5>2
      <4> QED BY <4>1, <4>2
    <3>4. ASSUME NEW i \in 1..Len(w), NEW j \in 1..Len(w), i < j PROVE w[i] < w[j]
      <4>1. i \in 1..Len(v)
        BY <3>1, <3>2, <3>4
      <4>2. CASE j = Len(v) + 1
        <5>1. v[i] \in M /\ v[i] <= k
          BY <4>1, <2>4
        <5>2. w[i] = v[i] /\ w[j] = k + 1
          BY <4>1, <4>2, <3>2
        <5>3. v[i] \in Nat
          <6>1. M \subseteq Nat
            BY <1>0
          <6> QED BY ONLY <5>1, <6>1
        <5>4. v[i] < k + 1
          BY <5>1, <5>3, <2>0
        <5> QED BY ONLY <5>2, <5>4
      <4>3. CASE j # Len(v) + 1
        <5>1. j \in 1..Len(v)
          BY <4>3, <3>1, <3>2
        <5> QED BY <5>1, <4>1, <3>2, <3>4, <2>4
      <4> QED BY <4>2, <4>3
    <3> QED BY <3>2, <3>3, <3>4 DEF w
  <2>5. CASE k + 1 \in M
    <3> HIDE DEF Lists
    <3> QED BY <2>2, <2>3, <2>4, <2>5
  <2>6. CASE k + 1 \notin M
    <3>1. \A n \in M : n <= k <=> n <= k + 1
      BY <2>6, <1>0, <2>0
    <3>2. g[k + 1] = g[k]
      BY <2>3, <2>6
    <3>3. Lists(g[k], k + 1)
      BY <2>2, <3>1
    <3> HIDE DEF Lists
    <3> QED BY <3>2, <3>3
  <2> QED BY <2>5, <2>6
<1>8. P = Nat
  <2>1. P \in SUBSET Nat
    OBVIOUS
  <2> HIDE DEF P
  <2> QED BY <1>6, <1>7, <2>1, SetInduction
<1>9. Lists(g[Size], Size)
  <2> HIDE DEF Lists
  <2>1. \A k \in Nat : k <= Size => Lists(g[k], k)
    BY <1>8
  <2> QED BY <2>1, <1>0
<1>10. \A n \in M : n <= Size
  BY <1>0
<1> QED BY <1>5, <1>9, <1>10
-----------------------------------------------------------------------------
(* After r rounds all layers below r are done.  Each took a node away, so  *)
(* that there are no more rounds than nodes.                               *)
Peeled(r, done) ==
    /\ done = Nodes \ ChainEnds[r]
    /\ Cardinality(ChainEnds[r]) <= Size - r

(* A round runs the whole of the next layer.                               *)
RunsRound(r) == ready = {} \/ (r < Size /\ ready = ChainEnds[r] \ ChainEnds[r + 1])

(* Precedes, said of the layers without their numbers.                     *)
Before(m, n) ==
    /\ \A s \in 0..Size : m \in ChainEnds[s] => n \in ChainEnds[s]
    /\ (\A s \in 0..Size : n \in ChainEnds[s] => m \in ChainEnds[s]) => m < n

(* The strengthening under which OrderIsCanonical is inductive: rounds run *)
(* the layers of the graph from below, and the state lists what is         *)
(* completed by layer and, in a layer, by rank.                            *)
MergeInv ==
    /\ preds \in Graphs
    /\ outcome \in {"pending", "resolved", "rejected"}
    /\ state \in Seq(Nodes)
    /\ \A n : n \in completed <=> \E i \in 1..Len(state) : state[i] = n
    /\ \A i, j \in 1..Len(state) : i < j => Before(state[i], state[j])
    /\ \E r \in 0..Size : Peeled(r, completed) /\ RunsRound(r)

(* Whatever is left to do, the filter of invoke finds the next layer.      *)
LEMMA ReadyIsALayer ==
  ASSUME preds \in Graphs, NEW r \in 0..Size, NEW done, Peeled(r, done), done # Nodes
  PROVE r < Size /\ Ready(done) = ChainEnds[r] \ ChainEnds[r + 1]
<1>0. Size \in Nat /\ IsFiniteSet(Nodes) /\ ChainEnds \in [0..Size -> SUBSET Nodes]
  BY NodesAreRanks, Ends
<1>1. r < Size
  <2> SUFFICES ASSUME r = Size PROVE FALSE
    BY <1>0
  <2>1. ChainEnds[r] \subseteq Nodes /\ Cardinality(ChainEnds[r]) <= 0
    BY <1>0 DEF Peeled
  <2>2. IsFiniteSet(ChainEnds[r]) /\ Cardinality(ChainEnds[r]) \in Nat
    BY <1>0, <2>1, FS_Subset, FS_CardinalityType
  <2>3. ChainEnds[r] = {}
    BY <2>1, <2>2, FS_EmptySet
  <2> QED BY <2>3 DEF Peeled
<1>2. r + 1 \in 1..Size /\ (r + 1) - 1 = r
  BY <1>0, <1>1
<1>3. ChainEnds[r + 1] = Above(ChainEnds[r])
  BY <1>2, Ends
<1>4. \A n \in Nodes : preds[n] \subseteq Nodes \cup {0} /\ 0 \notin Nodes
  BY GraphsAssumption, NodesAreRanks DEF Nodes
<1>5. ChainEnds[r] \subseteq Nodes
  BY <1>0
<1>6. ASSUME NEW n \in Nodes
      PROVE preds[n] \subseteq Nodes \ ChainEnds[r] <=> preds[n] \cap (ChainEnds[r] \cup {0}) = {}
  BY <1>4, <1>5
<1> QED BY <1>1, <1>3, <1>5, <1>6 DEF Above, Ready, Peeled

(* When a round is merged, one layer more is done.                         *)
LEMMA NextLayer ==
  ASSUME preds \in Graphs, NEW r \in 0..Size, Peeled(r, completed), RunsRound(r)
  PROVE \E s \in 0..Size : Peeled(s, completed \cup ready)
<1>0. Size \in Nat /\ IsFiniteSet(Nodes) /\ ChainEnds \in [0..Size -> SUBSET Nodes]
  BY NodesAreRanks, Ends
<1>1. CASE ready = {}
  <2>1. completed \cup ready = completed
    BY <1>1
  <2> QED BY <2>1
<1>2. CASE ready # {}
  <2>1. r < Size /\ ready = ChainEnds[r] \ ChainEnds[r + 1]
    BY <1>2 DEF RunsRound
  <2>2. r + 1 \in 0..Size /\ r + 1 \in r..Size
    BY <1>0, <2>1
  <2>3. ChainEnds[r + 1] \subseteq ChainEnds[r] /\ ChainEnds[r] \subseteq Nodes
    BY <1>0, <2>2, EndsShrink
  <2>4. completed \cup ready = Nodes \ ChainEnds[r + 1]
    BY <2>1, <2>3 DEF Peeled
  <2>5. IsFiniteSet(ChainEnds[r]) /\ ChainEnds[r + 1] # ChainEnds[r]
    BY <1>0, <1>2, <2>1, <2>3, FS_Subset
  <2>6. /\ Cardinality(ChainEnds[r + 1]) < Cardinality(ChainEnds[r])
        /\ Cardinality(ChainEnds[r]) \in Nat /\ Cardinality(ChainEnds[r + 1]) \in Nat
    BY <2>3, <2>5, FS_Subset, FS_CardinalityType
  <2>7. Cardinality(ChainEnds[r + 1]) <= Size - (r + 1)
    BY <1>0, <2>6 DEF Peeled
  <2> QED BY <2>2, <2>4, <2>7 DEF Peeled
<1> QED BY <1>1, <1>2

(* The merge puts the updates of a round behind those of the rounds below. *)
LEMMA MergeAppends ==
  ASSUME MergeInv
  PROVE LET new == state \o Registered(ready)
        IN  /\ new \in Seq(Nodes)
            /\ \A n : n \in completed \cup ready <=> \E i \in 1..Len(new) : new[i] = n
            /\ \A i, j \in 1..Len(new) : i < j => Before(new[i], new[j])
<1> DEFINE round == Registered(ready)
           new == state \o round
<1>0. /\ Size \in Nat /\ Nodes = 1..Size /\ ChainEnds \in [0..Size -> SUBSET Nodes]
      /\ preds \in Graphs
  BY NodesAreRanks, Ends DEF MergeInv
<1>1. PICK r \in 0..Size : Peeled(r, completed) /\ RunsRound(r)
  BY DEF MergeInv
<1>2. ready \in SUBSET Nodes
  BY <1>0, <1>1 DEF RunsRound
<1>3. /\ round \in Seq(Nodes)
      /\ \A n : n \in ready <=> \E i \in 1..Len(round) : round[i] = n
      /\ \A i, j \in 1..Len(round) : i < j => round[i] < round[j]
  BY <1>0, <1>2, RegisteredLists
<1>4. /\ state \in Seq(Nodes)
      /\ \A n : n \in completed <=> \E i \in 1..Len(state) : state[i] = n
      /\ \A i, j \in 1..Len(state) : i < j => Before(state[i], state[j])
  BY DEF MergeInv
<1> HIDE DEF round
<1>5. /\ new \in Seq(Nodes) /\ Len(state) \in Nat /\ Len(round) \in Nat
      /\ Len(new) = Len(state) + Len(round)
      /\ \A i \in 1..Len(state) : new[i] = state[i]
      /\ \A i \in 1..Len(round) : new[Len(state) + i] = round[i]
  BY <1>3, <1>4
<1> HIDE DEF new
<1>6. ASSUME NEW i \in 1..Len(new), i > Len(state)
      PROVE  i - Len(state) \in 1..Len(round) /\ new[i] = round[i - Len(state)] /\ new[i] \in ready
  <2>1. i - Len(state) \in 1..Len(round) /\ Len(state) + (i - Len(state)) = i
    BY <1>5, <1>6
  <2>2. new[Len(state) + (i - Len(state))] = round[i - Len(state)]
    BY <1>5, <2>1
  <2> QED BY <1>3, <2>1, <2>2
<1>7. ASSUME NEW i \in 1..Len(new), ~(i > Len(state))
      PROVE  i \in 1..Len(state) /\ new[i] = state[i] /\ new[i] \in completed
  <2>1. i \in 1..Len(state)
    BY <1>5, <1>7
  <2> QED BY <1>4, <1>5, <2>1
<1>8. ASSUME NEW n
      PROVE  n \in completed \cup ready <=> \E i \in 1..Len(new) : new[i] = n
  <2>1. ASSUME n \in completed PROVE \E i \in 1..Len(new) : new[i] = n
    <3>1. PICK i \in 1..Len(state) : state[i] = n
      BY <1>4, <2>1
    <3>2. i \in 1..Len(new) /\ new[i] = n
      BY <1>5, <3>1
    <3> QED BY <3>2
  <2>2. ASSUME n \in ready PROVE \E i \in 1..Len(new) : new[i] = n
    <3>1. PICK i \in 1..Len(round) : round[i] = n
      BY <1>3, <2>2
    <3>2. Len(state) + i \in 1..Len(new) /\ new[Len(state) + i] = n
      BY <1>5, <3>1
    <3> QED BY <3>2
  <2> QED BY <2>1, <2>2, <1>6, <1>7
<1>9. ASSUME NEW s \in 0..Size, NEW t \in 0..Size, s <= t
      PROVE  ChainEnds[t] \subseteq ChainEnds[s]
  <2>1. t \in s..Size
    BY <1>9, <1>0
  <2> QED BY <1>0, <2>1, EndsShrink
<1>10. ASSUME NEW m \in completed, NEW n \in ready PROVE Before(m, n)
  <2>1. m \notin ChainEnds[r] /\ n \in ChainEnds[r]
    BY <1>1 DEF Peeled, RunsRound
  <2>2. ASSUME NEW s \in 0..Size, m \in ChainEnds[s] PROVE n \in ChainEnds[s]
    <3>1. s <= r
      <4>1. ~(r <= s)
        BY <2>1, <2>2, <1>9
      <4> QED BY <4>1, <1>0
    <3> QED BY <3>1, <2>1, <1>9
  <2> QED BY <2>1, <2>2 DEF Before
<1>11. ASSUME NEW m \in ready, NEW n \in ready, m < n PROVE Before(m, n)
  <2>1. r < Size /\ m \notin ChainEnds[r + 1] /\ n \in ChainEnds[r]
    BY <1>1, <1>11 DEF RunsRound
  <2>2. ASSUME NEW s \in 0..Size, m \in ChainEnds[s] PROVE n \in ChainEnds[s]
    <3>1. r + 1 \in 0..Size
      BY <2>1, <1>0
    <3>2. s <= r
      <4>1. ~(r + 1 <= s)
        BY <2>1, <2>2, <1>9, <3>1
      <4> QED BY <4>1, <1>0
    <3> QED BY <3>2, <2>1, <1>9
  <2> QED BY <2>2, <1>11 DEF Before
<1>12. ASSUME NEW i \in 1..Len(new), NEW j \in 1..Len(new), i < j
      PROVE  Before(new[i], new[j])
  <2>0. i \in Nat /\ j \in Nat
    OBVIOUS
  <2>1. CASE ~(j > Len(state))
    <3>1. ~(i > Len(state))
      BY <2>0, <2>1, <1>5, <1>12
    <3> QED BY <3>1, <2>1, <1>4, <1>7, <1>12
  <2>2. CASE j > Len(state) /\ ~(i > Len(state))
    BY <2>2, <1>6, <1>7, <1>10
  <2>3. CASE j > Len(state) /\ i > Len(state)
    <3>1. /\ i - Len(state) \in 1..Len(round) /\ j - Len(state) \in 1..Len(round)
          /\ i - Len(state) < j - Len(state)
      BY <2>0, <2>3, <1>5, <1>6, <1>12
    <3>2. new[i] < new[j]
      BY <3>1, <2>3, <1>3, <1>6
    <3> QED BY <3>2, <2>3, <1>6, <1>11
  <2> QED BY <2>1, <2>2, <2>3
<1> QED BY <1>5, <1>8, <1>12 DEF new, round

(* Nothing is done before the first round.                                 *)
LEMMA MergeInit == InvokeInit => MergeInv
<1> SUFFICES ASSUME InvokeInit PROVE MergeInv
  OBVIOUS
<1>1. preds \in Graphs /\ state = <<>> /\ completed = {} /\ ready = {} /\ outcome = "pending"
  BY DEF InvokeInit
<1>2. Size \in Nat /\ ChainEnds[0] = Nodes
  BY <1>1, NodesAreRanks, Ends
<1>3. Peeled(0, completed) /\ RunsRound(0) /\ 0 \in 0..Size
  BY <1>1, <1>2 DEF Peeled, RunsRound, Size
<1>4. state \in Seq(Nodes) /\ Len(state) = 0 /\ 1..0 = {}
  BY <1>1
<1> QED BY <1>1, <1>3, <1>4 DEF MergeInv

(* Rounds and the end of the loop merge a layer; the return or the throw of*)
(* a node changes nothing that the order depends on.                       *)
LEMMA MergeStep ==
  ASSUME MergeInv, [PipelineNext]_pipelineVars PROVE MergeInv'
<1>1. ASSUME Round \/ Settle PROVE MergeInv'
  <2>1. /\ preds' = preds /\ state' = state \o Registered(ready)
        /\ completed' = completed \cup ready
    BY <1>1 DEF Round, Settle
  <2>2. Nodes' = Nodes /\ Size' = Size /\ ChainEnds' = ChainEnds
    BY <2>1 DEF Above, Nodes, Size, ChainEnds
  <2>3. PICK s \in 0..Size : Peeled(s, completed \cup ready)
    BY NextLayer DEF MergeInv
  <2>4. ready' = {} \/ (completed' # Nodes /\ ready' = Ready(completed'))
    <3>1. CASE Settle
      BY <3>1 DEF Settle
    <3>2. CASE Round
      <4>1. completed' # Nodes /\ ready' = Ready(completed')
        BY <3>2 DEF Round
      <4> QED BY <4>1
    <3> QED BY <3>1, <3>2, <1>1
  <2>5. ready' = {} \/ (s < Size /\ ready' = ChainEnds[s] \ ChainEnds[s + 1])
    <3> DEFINE done == completed'
    <3>1. Peeled(s, done)
      BY <2>1, <2>3
    <3>2. ready' = {} \/ (done # Nodes /\ ready' = Ready(done))
      BY <2>4
    <3> HIDE DEF done
    <3> QED BY <3>1, <3>2, ReadyIsALayer DEF MergeInv
  <2>6. /\ state' \in Seq(Nodes)
        /\ \A n : n \in completed' <=> \E i \in 1..Len(state') : state'[i] = n
        /\ \A i, j \in 1..Len(state') : i < j => Before(state'[i], state'[j])
    BY <2>1, MergeAppends
  <2>7. \A i, j \in 1..Len(state') : i < j => Before(state[i], state[j])'
    BY <2>2, <2>6 DEF Before
  <2>8. (Peeled(s, completed) /\ RunsRound(s))'
    BY <2>1, <2>2, <2>3, <2>5 DEF Peeled, RunsRound
  <2>9. outcome' \in {"pending", "resolved", "rejected"}
    BY <1>1 DEF Round, Settle, MergeInv
  <2> QED BY <2>1, <2>2, <2>6, <2>7, <2>8, <2>9 DEF MergeInv
<1>2. ASSUME UNCHANGED <<preds, state, completed, ready>>,
             outcome' \in {"pending", "resolved", "rejected"}
      PROVE  MergeInv'
  <2>1. Nodes' = Nodes /\ Size' = Size /\ ChainEnds' = ChainEnds
    BY <1>2 DEF Above, Nodes, Size, ChainEnds
  <2>2. PICK r \in 0..Size : Peeled(r, completed) /\ RunsRound(r)
    BY DEF MergeInv
  <2>3. (Peeled(r, completed) /\ RunsRound(r))'
    BY <1>2, <2>1, <2>2 DEF Peeled, RunsRound
  <2>4. \A i, j \in 1..Len(state) : i < j => Before(state[i], state[j])'
    BY <1>2, <2>1 DEF MergeInv, Before
  <2> QED BY <1>2, <2>1, <2>3, <2>4 DEF MergeInv
<1>3. CASE \E n \in Nodes : Return(n) \/ Throw(n)
  BY <1>2, <1>3 DEF Return, Throw, MergeInv
<1>4. CASE UNCHANGED pipelineVars
  BY <1>2, <1>4 DEF pipelineVars, MergeInv
<1> QED BY <1>1, <1>3, <1>4 DEF PipelineNext

(* The order by layers is the order by depth and rank.                     *)
LEMMA MergeIsCanonical == MergeInv => OrderIsCanonical
<1> SUFFICES ASSUME MergeInv PROVE OrderIsCanonical
  OBVIOUS
<1>0. Size \in Nat /\ preds \in Graphs /\ ChainEnds \in [0..Size -> SUBSET Nodes]
  BY NodesAreRanks, Ends DEF MergeInv
<1>1. PICK r \in 0..Size : Peeled(r, completed) /\ RunsRound(r)
  BY DEF MergeInv
<1>2. DOMAIN state = 1..Len(state) /\ \A i \in 1..Len(state) : state[i] \in completed
  BY DEF MergeInv
<1>3. ASSUME NEW n \in completed
      PROVE  /\ Depth(n) \in Nat /\ Depth(n) < r
             /\ n \in ChainEnds[Depth(n)] \ ChainEnds[Depth(n) + 1]
  BY <1>0, <1>1, DepthBelow DEF Peeled
<1>4. ASSUME NEW s \in 0..Size, NEW t \in 0..Size, s <= t
      PROVE  ChainEnds[t] \subseteq ChainEnds[s]
  <2>1. t \in s..Size
    BY <1>4, <1>0
  <2> QED BY <1>0, <2>1, EndsShrink
<1>5. ASSUME NEW m \in completed, NEW n \in completed, Before(m, n) PROVE Precedes(m, n)
  <2> DEFINE d == Depth(m)
             e == Depth(n)
  <2>1. /\ d \in 0..Size /\ e \in 0..Size /\ e + 1 \in 0..Size
        /\ m \in ChainEnds[d] /\ n \in ChainEnds[e] /\ n \notin ChainEnds[e + 1]
    BY <1>0, <1>3
  <2> HIDE DEF d, e
  <2>2. n \in ChainEnds[d]
    BY <1>5, <2>1 DEF Before
  <2>3. ~(e + 1 <= d)
    BY <1>4, <2>1, <2>2
  <2>4. CASE d < e
    BY <2>4 DEF Precedes, d, e
  <2>5. CASE d = e
    <3>1. ASSUME NEW s \in 0..Size, n \in ChainEnds[s] PROVE m \in ChainEnds[s]
      <4>1. s <= e
        <5>1. ~(e + 1 <= s)
          BY <1>4, <2>1, <3>1
        <5> QED BY <5>1, <2>1
      <4> QED BY <4>1, <2>1, <2>5, <1>4
    <3>2. m < n
      BY <1>5, <3>1 DEF Before
    <3> QED BY <2>5, <3>2 DEF Precedes, d, e
  <2> QED BY <2>1, <2>3, <2>4, <2>5
<1>6. \A i, j \in DOMAIN state : i < j => Precedes(state[i], state[j])
  BY <1>2, <1>5 DEF MergeInv
<1>7. ASSUME NEW n \in ready PROVE n \notin ChainEnds[Size] /\ Depth(n) = r
  <2>1. r < Size /\ n \in ChainEnds[r] \ ChainEnds[r + 1]
    BY <1>1 DEF RunsRound
  <2>2. r + 1 \in 0..Size /\ Size \in 0..Size /\ r + 1 <= Size /\ r \in Nat
    BY <1>0, <2>1
  <2>3. ChainEnds[Size] \subseteq ChainEnds[r + 1]
    BY <1>4, <2>2
  <2> QED BY <1>0, <2>1, <2>2, <2>3, DepthIs
<1>8. ASSUME NEW n \in completed PROVE n \notin ChainEnds[Size]
  <2>1. n \notin ChainEnds[r]
    BY <1>1 DEF Peeled
  <2>2. Size \in 0..Size /\ r <= Size
    BY <1>0
  <2> QED BY <1>4, <2>1, <2>2
<1>9. ASSUME NEW n \in ready, NEW i \in DOMAIN state PROVE Precedes(state[i], n)
  BY <1>2, <1>3, <1>7 DEF Precedes
<1> QED BY <1>6, <1>7, <1>8, <1>9 DEF OrderIsCanonical, Stuck, Size

(* The updates are merged in an order that the graph alone decides, for    *)
(* every graph that can be compiled and every order in which the nodes of  *)
(* a round return (the filter, Promise.all and the merge of invoke).       *)
THEOREM OrderHolds == PipelineSpec => []OrderIsCanonical
BY MergeInit, MergeStep, MergeIsCanonical, PTL DEF PipelineSpec

(* invoke resolves only with the update of every node merged, and never for*)
(* a graph with a cycle or a missing node, of any size.                    *)
THEOREM WholeHolds == PipelineSpec => []ResolvedIsWhole
<1>1. ASSUME MergeInv, RoundInv PROVE ResolvedIsWhole
  <2> SUFFICES ASSUME outcome = "resolved" PROVE ResolvedIsWhole
    BY DEF ResolvedIsWhole
  <2>1. completed = Nodes /\ pending = {}
    BY <1>1 DEF RoundInv
  <2>2. {state[i] : i \in DOMAIN state} = Nodes
    <3>1. DOMAIN state = 1..Len(state)
      BY <1>1 DEF MergeInv
    <3> QED BY <1>1, <2>1, <3>1 DEF MergeInv
  <2>3. Stuck = {}
    <3>1. OrderIsCanonical /\ preds \in Graphs
      BY <1>1, MergeIsCanonical DEF MergeInv
    <3>2. ChainEnds \in [0..Size -> SUBSET Nodes] /\ Size \in 0..Size
      BY <3>1, Ends, NodesAreRanks
    <3>3. Stuck \subseteq Nodes
      BY <3>2 DEF Stuck, Size
    <3> QED BY <2>1, <3>1, <3>3 DEF OrderIsCanonical
  <2> QED BY <2>1, <2>2, <2>3 DEF ResolvedIsWhole
<1> QED BY <1>1, MergeInit, MergeStep, PipelineInit, PipelineStep, PTL DEF PipelineSpec

(* An invocation keeps the types of its variables.                         *)
THEOREM InvocationTypeCorrect == PipelineSpec => []PipelineTypeOK
<1>1. ASSUME MergeInv, RoundInv PROVE PipelineTypeOK
  BY <1>1 DEF MergeInv, RoundInv, DependenciesFirst, PipelineTypeOK
<1> QED BY <1>1, MergeInit, MergeStep, PipelineInit, PipelineStep, PTL DEF PipelineSpec

(***************************************************************************)
(* The run of a scanner: its subprocess, its staging directory and its     *)
(* cache.                                                                  *)
(***************************************************************************)

(* Every callback keeps the types of the subprocess call. *)
LEMMA ProcessOperations ==
    ASSUME ProcessTypeOK, aborted' \in BOOLEAN
    PROVE  /\ Call => ProcessTypeOK'
           /\ Fail => ProcessTypeOK'
           /\ ChildExits => ProcessTypeOK'
           /\ HelpersExit => ProcessTypeOK'
           /\ Close => ProcessTypeOK'
           /\ Forget => ProcessTypeOK'
           /\ UNCHANGED processVars => ProcessTypeOK'
  <1> USE DEF ProcessTypeOK, Alive, Codes, Settled
  <1>1. ASSUME Call PROVE ProcessTypeOK'
    BY <1>1 DEF Call, Killed
  <1>2. ASSUME Fail PROVE ProcessTypeOK'
    BY <1>2 DEF Fail, Killed
  <1>3. ASSUME ChildExits PROVE ProcessTypeOK'
    BY <1>3 DEF ChildExits
  <1>4. ASSUME HelpersExit PROVE ProcessTypeOK'
    BY <1>4 DEF HelpersExit
  <1>5. ASSUME Close PROVE ProcessTypeOK'
    BY <1>5 DEF Close
  <1>6. ASSUME Forget PROVE ProcessTypeOK'
    BY <1>6 DEF Forget
  <1>7. ASSUME UNCHANGED processVars PROVE ProcessTypeOK'
    BY <1>7 DEF processVars
  <1> QED
    BY <1>1, <1>2, <1>3, <1>4, <1>5, <1>6, <1>7

(* Every operation on the directory keeps at most one content per key. *)
LEMMA CacheOperations ==
    ASSUME CacheTypeOK
    PROVE  /\ \A k \in Keys, v \in Values : Rename(k, v) => CacheTypeOK'
           /\ PruneScannerCache => CacheTypeOK'
           /\ \A k \in Keys : OtherUnlink(k) => CacheTypeOK'
           /\ \A k \in Keys : Damage(k) => CacheTypeOK'
           /\ UNCHANGED entries => CacheTypeOK'
  <1> USE DEF CacheTypeOK, AtMostOne
  <1>1. ASSUME NEW k \in Keys, NEW v \in Values, Rename(k, v)
        PROVE  CacheTypeOK'
    <2>1. v \in Contents
      BY DEF Values, Contents
    <2> QED
      BY <1>1, <2>1 DEF Rename, Identity
  <1>2. ASSUME PruneScannerCache PROVE CacheTypeOK'
    BY <1>2 DEF PruneScannerCache
  <1>3. ASSUME NEW k \in Keys, OtherUnlink(k) PROVE CacheTypeOK'
    BY <1>3 DEF OtherUnlink
  <1>4. ASSUME NEW k \in Keys, Damage(k) PROVE CacheTypeOK'
    <2>1. [key |-> k, status |-> "damaged", ended |-> "badly"] \in Contents
      BY DEF Contents
    <2> QED
      BY <1>4, <2>1 DEF Damage
  <1>5. ASSUME UNCHANGED entries PROVE CacheTypeOK'
    BY <1>5
  <1> QED
    BY <1>1, <1>2, <1>3, <1>4, <1>5

(* A file of the directory, and what readEntry finds in it, is a value. *)
LEMMA ReadEntryType ==
    ASSUME CacheTypeOK, NEW k \in Keys, NEW v \in ReadEntry(k)
    PROVE  v \in Values /\ v.key = k
  <1>1. v \in entries[k] /\ v.status # "damaged" /\ v.key = k
    BY DEF ReadEntry, Identity
  <1>2. v \in Contents
    BY <1>1 DEF CacheTypeOK, AtMostOne
  <1> QED
    BY <1>1, <1>2 DEF Contents, Values, Statuses

(* A value of the cache is a result of a scan.                             *)
LEMMA ValueType ==
    ASSUME NEW k \in Keys, NEW s \in Statuses, NEW e \in {"well", "badly"}
    PROVE  Value(k, s, e) \in Values
  BY DEF Value, Values

(* When a scan answers, its result, its call and its job keep their types.  *)
LEMMA Answers ==
    ASSUME result \in AtMostOne(Values), Answer
    PROVE  /\ returned' \in AtMostOne(Returns)
           /\ job' \in AtMostOne(Jobs)
           /\ result' \in AtMostOne(Values)
           /\ identified' \in BOOLEAN
  <1>1. job' = {} /\ result' = {} /\ identified' = FALSE
    BY DEF Answer
  <1>2. CASE result = {}
    <2>1. returned' = {}
      BY <1>2 DEF Answer
    <2> QED
      BY <1>1, <2>1 DEF AtMostOne
  <1>3. CASE \E v \in Values : result = {v}
    <2>1. PICK v \in Values : result = {v}
      BY <1>3
    <2>2. returned' = {[value |-> v, replayed |-> FALSE]}
      BY <2>1 DEF Answer
    <2>3. [value |-> v, replayed |-> FALSE] \in Returns
      BY DEF Returns
    <2> QED
      BY <1>1, <2>2, <2>3 DEF AtMostOne
  <1> QED
    BY <1>2, <1>3 DEF AtMostOne

-----------------------------------------------------------------------------
(* Type correctness. *)
LEMMA TypeInit == Init => TypeOK
  BY DEF Init, TypeOK, ProcessInit, CacheInit, ProcessTypeOK, CacheTypeOK,
         AtMostOne, Codes, Settled, Alive

(* Every step keeps the types.                                             *)
LEMMA TypeNext == TypeOK /\ [Next]_vars => TypeOK'
  <1> SUFFICES ASSUME TypeOK, [Next]_vars PROVE TypeOK'
    OBVIOUS
  <1> USE DEF TypeOK
  <1>A. aborted \in BOOLEAN
    BY DEF ProcessTypeOK
  <1>J. \A j \in job : j \in Jobs /\ j.key \in Keys /\ j.key.scanner \in Scanners
    BY DEF AtMostOne, Jobs, Keys
  <1>R. \A v \in result : v \in Values
    BY DEF AtMostOne
  <1>1. ASSUME NEW v \in Versions, Start(v) PROVE TypeOK'
    BY <1>1, <1>A, ProcessOperations, CacheOperations DEF Start, Goto
  <1>2. ASSUME NEW s \in Scanners, NEW tree \in Trees, Begin(s, tree)
        PROVE  TypeOK'
    <2>1. [key |-> [digest |-> tree.digest, scanner |-> s, version |-> build],
           truncated |-> tree.truncated] \in Jobs
      BY TreesAssumption DEF Jobs, Keys
    <2>2. job' \in AtMostOne(Jobs) /\ returned' \in AtMostOne(Returns)
      BY <1>2, <2>1 DEF Begin, AtMostOne
    <2> QED
      BY <1>2, <2>2, <1>A, ProcessOperations, CacheOperations DEF Begin, Scanning
  <1>3. ASSUME EndAudit PROVE TypeOK'
    BY <1>3, ProcessOperations, CacheOperations DEF EndAudit, runVars
  <1>4. ASSUME Hit PROVE TypeOK'
    <2>1. PICK j \in job : \E v \in ReadEntry(j.key) :
            returned' = {[value |-> v, replayed |-> TRUE]}
      BY <1>4 DEF Hit
    <2>2. PICK v \in ReadEntry(j.key) : returned' = {[value |-> v, replayed |-> TRUE]}
      BY <2>1
    <2>3. [value |-> v, replayed |-> TRUE] \in Returns
      BY <1>J, <2>2, ReadEntryType DEF Returns
    <2>4. returned' \in AtMostOne(Returns) /\ job' \in AtMostOne(Jobs)
      BY <1>4, <2>2, <2>3 DEF Hit, AtMostOne
    <2> QED
      BY <1>4, <2>4, <1>A, ProcessOperations, CacheOperations DEF Hit, Goto
  <1>5. ASSUME Analyse PROVE TypeOK'
    <2>1. PICK j \in job, status \in {"completed", "partial"} :
            result' = {Value(j.key, status, "well")}
      BY <1>5 DEF Analyse
    <2>2. result' \in AtMostOne(Values)
      BY <2>1, <1>J, ValueType DEF AtMostOne, Statuses
    <2> QED
      BY <1>5, <2>2, <1>A, ProcessOperations, CacheOperations DEF Analyse, Goto, Storing
  <1>6. ASSUME Skip PROVE TypeOK'
    <2>1. PICK j \in job : result' = {Value(j.key, "skipped", "well")}
      BY <1>6 DEF Skip
    <2>2. result' \in AtMostOne(Values)
      BY <2>1, <1>J, ValueType DEF AtMostOne, Statuses
    <2> QED
      BY <1>6, <2>2, <1>A, ProcessOperations, CacheOperations DEF Skip, Goto, Storing
  <1>7. ASSUME Miss PROVE TypeOK'
    BY <1>7, <1>A, ProcessOperations, CacheOperations DEF Miss, Goto, Scanning
  <1>8. ASSUME MakeThrows PROVE TypeOK'
    BY <1>8, <1>A, ProcessOperations, CacheOperations DEF MakeThrows, Goto, AtMostOne
  <1>9. ASSUME Stage PROVE TypeOK'
    BY <1>9, <1>A, <1>J, ProcessOperations, CacheOperations DEF Stage, Goto, Scanning
  <1>10. ASSUME StageThrows PROVE TypeOK'
    <2>1. PICK j \in job : /\ stages' = stages \cup {j.key.scanner}
                           /\ result' = {Value(j.key, "failed", "badly")}
      BY <1>10 DEF StageThrows
    <2>2. result' \in AtMostOne(Values) /\ stages' \in SUBSET Scanners
      BY <2>1, <1>J, ValueType DEF AtMostOne, Statuses
    <2> QED
      BY <1>10, <2>2, <1>A, ProcessOperations, CacheOperations DEF StageThrows, Scanning
  <1>11. ASSUME Probed PROVE TypeOK'
    BY <1>11, <1>A, ProcessOperations, CacheOperations DEF Probed, Goto, Scanning
  <1>12. ASSUME Scanned PROVE TypeOK'
    <2>1. PICK j \in job, status \in {"completed", "partial"} :
            result' = {Value(j.key, status, "well")}
      BY <1>12 DEF Scanned
    <2>2. result' \in AtMostOne(Values)
      BY <2>1, <1>J, ValueType DEF AtMostOne, Statuses
    <2> QED
      BY <1>12, <2>2, <1>A, ProcessOperations, CacheOperations DEF Scanned, Goto, Scanning
  <1>13. ASSUME ScanThrows PROVE TypeOK'
    <2>1. PICK j \in job : result' = {Value(j.key, "failed", "badly")}
      BY <1>13 DEF ScanThrows
    <2>2. result' \in AtMostOne(Values)
      BY <2>1, <1>J, ValueType DEF AtMostOne, Statuses
    <2> QED
      BY <1>13, <2>2, <1>A, ProcessOperations, CacheOperations DEF ScanThrows, Goto, Scanning
  <1>14. ASSUME Clean PROVE TypeOK'
    <2>1. PICK j \in job :
            /\ stages' = stages \ {j.key.scanner}
            /\ \/ pc' = "idle" /\ Answer
               \/ pc' = "storing" /\ UNCHANGED <<job, result, identified, returned>>
      BY <1>14 DEF Clean
    <2> QED
      BY <1>14, <2>1, <1>A, Answers, ProcessOperations, CacheOperations DEF Clean, Storing
  <1>15. ASSUME Write PROVE TypeOK'
    BY <1>15, <1>A, ProcessOperations, CacheOperations DEF Write, Goto, Storing
  <1>16. ASSUME Publish PROVE TypeOK'
    BY <1>16, <1>A, <1>J, <1>R, ProcessOperations, CacheOperations DEF Publish, Goto, Storing
  <1>17. ASSUME Prune PROVE TypeOK'
    BY <1>17, <1>A, Answers, ProcessOperations, CacheOperations DEF Prune, Goto
  <1>18. ASSUME WriteFails PROVE TypeOK'
    BY <1>18, <1>A, Answers, ProcessOperations, CacheOperations DEF WriteFails
  <1>19. ASSUME Abort PROVE TypeOK'
    BY <1>19, ProcessOperations, CacheOperations DEF Abort, runVars
  <1>20. ASSUME ProcessStep PROVE TypeOK'
    BY <1>20, <1>A, ProcessOperations, CacheOperations
       DEF ProcessStep, SpawnError, OutputLimit, Timeout, runVars
  <1>21. ASSUME Crash PROVE TypeOK'
    BY <1>21, ProcessOperations, CacheOperations DEF Crash, AtMostOne
  <1>22. ASSUME NEW k \in Keys, OthersStore(k) PROVE TypeOK'
    <2>1. PICK status \in Statuses :
            Rename(k, Value(k, status, IF status = "failed" THEN "badly" ELSE "well"))
      BY <1>22 DEF OthersStore
    <2>2. CacheTypeOK'
      BY <2>1, ValueType, CacheOperations
    <2> QED
      BY <1>22, <2>2, <1>A, ProcessOperations DEF OthersStore, runVars
  <1>23. ASSUME NEW k \in Keys, OthersRemove(k) PROVE TypeOK'
    BY <1>23, <1>A, ProcessOperations, CacheOperations DEF OthersRemove, runVars
  <1>24. ASSUME UNCHANGED vars PROVE TypeOK'
    BY <1>24, <1>A, ProcessOperations, CacheOperations DEF vars, runVars
  <1> QED
    BY <1>1, <1>2, <1>3, <1>4, <1>5, <1>6, <1>7, <1>8, <1>9, <1>10, <1>11, <1>12,
       <1>13, <1>14, <1>15, <1>16, <1>17, <1>18, <1>19, <1>20, <1>21, <1>22, <1>23,
       <1>24 DEF Next, Progress

(* TypeOK: the variables of the scan, of its subprocess call and of the     *)
(* cache directory keep their types; no file ever holds two entries.       *)
THEOREM TypeCorrect == Spec => []TypeOK
  BY TypeInit, TypeNext, PTL DEF Spec

-----------------------------------------------------------------------------
(* Every step leaves a settled call without process and timer.             *)
LEMMA QuietNext == SettledIsQuiet /\ [Next]_vars => SettledIsQuiet'
  <1> SUFFICES ASSUME SettledIsQuiet, [Next]_vars PROVE SettledIsQuiet'
    OBVIOUS
  <1> USE DEF SettledIsQuiet, Settled, Alive
  <1>1. CASE UNCHANGED processVars
    BY <1>1 DEF processVars
  <1>2. CASE Call
    BY <1>2 DEF Call, Killed
  <1>3. CASE Fail
    BY <1>3 DEF Fail, Killed
  <1>4. CASE ChildExits
    BY <1>4 DEF ChildExits
  <1>5. CASE HelpersExit
    BY <1>5 DEF HelpersExit
  <1>6. CASE Close
    BY <1>6 DEF Close
  <1>7. CASE Forget
    BY <1>7 DEF Forget
  <1>8. CASE ProcessStep
    BY <1>3, <1>4, <1>5, <1>6, <1>8 DEF ProcessStep, SpawnError, OutputLimit, Timeout
  <1>9. CASE Abort
    BY <1>1, <1>3, <1>9 DEF Abort
  <1>10. CASE Stage \/ Probed
    BY <1>2, <1>10 DEF Stage, Probed
  <1>11. CASE StageThrows \/ Scanned \/ ScanThrows \/ Crash
    BY <1>7, <1>11 DEF StageThrows, Scanned, ScanThrows, Crash
  <1>12. ASSUME NEW v \in Versions, Start(v) PROVE SettledIsQuiet'
    BY <1>1, <1>12 DEF Start
  <1>13. ASSUME NEW s \in Scanners, NEW tree \in Trees, Begin(s, tree)
         PROVE  SettledIsQuiet'
    BY <1>1, <1>13 DEF Begin
  <1>14. ASSUME NEW k \in Keys, OthersStore(k) \/ OthersRemove(k)
         PROVE  SettledIsQuiet'
    BY <1>1, <1>14 DEF OthersStore, OthersRemove
  <1>15. CASE EndAudit
    BY <1>1, <1>15 DEF EndAudit
  <1>16. CASE \/ Hit \/ Analyse \/ Skip \/ Miss \/ MakeThrows \/ Clean
             \/ Write \/ Publish \/ Prune \/ WriteFails \/ UNCHANGED vars
    BY <1>1, <1>16 DEF Hit, Analyse, Skip, Miss, MakeThrows, Clean, Write, Publish,
                       Prune, WriteFails, vars
  <1> HIDE DEF SettledIsQuiet, Settled, Alive
  <1>17. CASE Progress
    BY <1>10, <1>11, <1>16, <1>17 DEF Progress
  <1>18. CASE UNCHANGED vars
    BY <1>16, <1>18
  <1>19. CASE Next
    BY <1>8, <1>9, <1>11, <1>12, <1>17, <1>19, <1>13, <1>14, <1>15 DEF Next
  <1> QED
    BY <1>18, <1>19

(* SettledIsQuiet: whatever settles a call of runScannerProcess, neither a  *)
(* process of its group nor its timer is left.                             *)
THEOREM CallsEndQuietly == Spec => []SettledIsQuiet
  <1>1. Init => SettledIsQuiet
    BY DEF Init, ProcessInit, SettledIsQuiet, Settled
  <1> QED
    BY <1>1, QuietNext, PTL DEF Spec

-----------------------------------------------------------------------------
(* What is stored, kept or removed by one process or another was earned.   *)
LEMMA EarnedEntries ==
    ASSUME CacheTypeOK, \A k \in Keys : \A v \in entries[k] : Earned(v)
    PROVE  /\ \A k \in Keys : \A v : Earned(v) /\ Rename(k, v)
                => \A l \in Keys : \A w \in entries'[l] : Earned(w)
           /\ PruneScannerCache => \A l \in Keys : \A w \in entries'[l] : Earned(w)
           /\ \A k \in Keys : OtherUnlink(k) \/ Damage(k)
                => \A l \in Keys : \A w \in entries'[l] : Earned(w)
  <1> USE DEF CacheTypeOK
  <1>1. ASSUME NEW k \in Keys, NEW v, Earned(v), Rename(k, v),
               NEW l \in Keys, NEW w \in entries'[l]
        PROVE  Earned(w)
    BY <1>1 DEF Rename, Identity
  <1>2. ASSUME PruneScannerCache, NEW l \in Keys, NEW w \in entries'[l]
        PROVE  Earned(w)
    BY <1>2 DEF PruneScannerCache
  <1>3. ASSUME NEW k \in Keys, OtherUnlink(k), NEW l \in Keys, NEW w \in entries'[l]
        PROVE  Earned(w)
    BY <1>3 DEF OtherUnlink
  <1>4. ASSUME NEW k \in Keys, Damage(k), NEW l \in Keys, NEW w \in entries'[l]
        PROVE  Earned(w)
    BY <1>4 DEF Damage, Earned
  <1> QED
    BY <1>1, <1>2, <1>3, <1>4

(* No step makes a result that was not earned.                             *)
LEMMA EarnedNext == TypeOK /\ CompletedIsEarned /\ [Next]_vars => CompletedIsEarned'
  <1> SUFFICES ASSUME TypeOK, CompletedIsEarned, [Next]_vars PROVE CompletedIsEarned'
    OBVIOUS
  <1> USE DEF CompletedIsEarned
  <1>T. CacheTypeOK /\ job \in AtMostOne(Jobs)
    BY DEF TypeOK
  <1>J. \A j \in job : j.key \in Keys
    BY <1>T DEF AtMostOne, Jobs
  <1>A. ASSUME Answer
        PROVE  /\ \A v \in result' : Earned(v)
               /\ \A r \in returned' : Earned(r.value)
    BY <1>A DEF Answer
  <1>1. CASE \/ Analyse \/ Skip \/ StageThrows \/ Scanned \/ ScanThrows
    BY <1>1 DEF Analyse, Skip, StageThrows, Scanned, ScanThrows, Value, Earned
  <1>2. CASE Hit
    <2>1. PICK j \in job : \E v \in ReadEntry(j.key) :
            returned' = {[value |-> v, replayed |-> TRUE]}
      BY <1>2 DEF Hit
    <2>2. PICK v \in ReadEntry(j.key) : returned' = {[value |-> v, replayed |-> TRUE]}
      BY <2>1
    <2>3. Earned(v)
      BY <2>2, <1>J DEF ReadEntry, Identity
    <2>4. \A r \in returned' : Earned(r.value)
      BY <2>2, <2>3
    <2>5. UNCHANGED <<entries, result>>
      BY <1>2 DEF Hit
    <2> QED
      BY <2>4, <2>5
  <1>3. CASE Clean
    <2>1. UNCHANGED entries /\ (Answer \/ UNCHANGED <<result, returned>>)
      BY <1>3 DEF Clean
    <2> QED
      BY <2>1, <1>A
  <1>4. CASE Publish
    <2>1. PICK j \in job, v \in result : Rename(j.key, v)
      BY <1>4 DEF Publish
    <2>2. \A l \in Keys : \A w \in entries'[l] : Earned(w)
      BY <2>1, <1>J, <1>T, EarnedEntries
    <2> QED
      BY <1>4, <2>2 DEF Publish
  <1>5. CASE Prune
    BY <1>5, <1>A, <1>T, EarnedEntries DEF Prune
  <1>6. CASE WriteFails
    BY <1>6, <1>A DEF WriteFails
  <1>7. CASE Crash \/ \E s \in Scanners, tree \in Trees : Begin(s, tree)
    BY <1>7 DEF Crash, Begin
  <1>8. CASE \E k \in Keys : OthersStore(k)
    <2>1. PICK k \in Keys, s \in Statuses :
            Rename(k, Value(k, s, IF s = "failed" THEN "badly" ELSE "well"))
      BY <1>8 DEF OthersStore
    <2>2. Earned(Value(k, s, IF s = "failed" THEN "badly" ELSE "well"))
      BY DEF Earned, Value
    <2>3. \A l \in Keys : \A w \in entries'[l] : Earned(w)
      BY <2>1, <2>2, <1>T, EarnedEntries
    <2> QED
      BY <1>8, <2>3 DEF OthersStore, runVars
  <1>9. CASE \E k \in Keys : OthersRemove(k)
    BY <1>9, <1>T, EarnedEntries DEF OthersRemove, runVars
  <1>10. CASE \/ \E v \in Versions : Start(v)
              \/ EndAudit \/ Miss \/ MakeThrows \/ Stage \/ Probed \/ Write
              \/ Abort \/ ProcessStep \/ UNCHANGED vars
    BY <1>10 DEF Start, EndAudit, Miss, MakeThrows, Stage, Probed, Write, Abort,
                 ProcessStep, vars, runVars
  <1> HIDE DEF CompletedIsEarned
  <1> QED
    BY <1>1, <1>2, <1>3, <1>4, <1>5, <1>6, <1>7, <1>8, <1>9, <1>10
       DEF Next, Progress

(* CompletedIsEarned: no failure, timeout, abort or crash of a scanner, in  *)
(* this process or in one that shares the cache, looks like a result.      *)
THEOREM ResultsAreEarned == Spec => []CompletedIsEarned
  <1>1. Init => CompletedIsEarned
    BY DEF Init, CacheInit, CompletedIsEarned
  <1> QED
    BY <1>1, EarnedNext, TypeCorrect, PTL DEF Spec

-----------------------------------------------------------------------------
(* Staging directories, and what is read from the cache. *)
LEMMA InvNext == TypeOK /\ IInv /\ [Next]_vars => IInv'
  <1> SUFFICES ASSUME TypeOK, IInv, [Next]_vars PROVE IInv'
    OBVIOUS
  <1> USE DEF IInv
  <1>J. \A i, j \in job : i = j
    BY DEF TypeOK, AtMostOne
  <1>P. pc \in {"idle", "reading", "staging"} \cup Storing => stages = {}
    BY DEF Storing
  <1>1. ASSUME NEW v \in Versions, Start(v) PROVE IInv'
    BY <1>1 DEF Start, Goto
  <1>2. ASSUME NEW s \in Scanners, NEW tree \in Trees, Begin(s, tree)
        PROVE  IInv'
    BY <1>2, <1>P DEF Begin
  <1>3. CASE Stage
    BY <1>3, <1>P DEF Stage, Goto
  <1>4. CASE StageThrows
    BY <1>4, <1>P, <1>J DEF StageThrows
  <1>5. CASE Clean
    BY <1>5, <1>J DEF Clean, Answer
  <1>6. CASE Probed \/ Scanned \/ ScanThrows
    BY <1>6 DEF Probed, Scanned, ScanThrows, Goto
  <1>7. CASE Hit \/ Analyse \/ Skip \/ Miss \/ MakeThrows \/ Write \/ Publish
    BY <1>7, <1>P DEF Hit, Analyse, Skip, Miss, MakeThrows, Write, Publish, Goto
  <1>8. CASE Prune \/ WriteFails
    BY <1>8, <1>P DEF Prune, WriteFails, Goto
  <1>9. CASE Crash
    BY <1>9 DEF Crash
  <1>10. CASE EndAudit \/ Abort \/ ProcessStep \/ UNCHANGED vars
    BY <1>10 DEF EndAudit, Abort, ProcessStep, runVars, vars
  <1>11. ASSUME NEW k \in Keys, OthersStore(k) \/ OthersRemove(k) PROVE IInv'
    BY <1>11 DEF OthersStore, OthersRemove, runVars
  <1> HIDE DEF IInv
  <1> QED
    BY <1>1, <1>2, <1>3, <1>4, <1>5, <1>6, <1>7, <1>8, <1>9, <1>10, <1>11
       DEF Next, Progress

(* IInv: a staging directory is there only while its scan works in it, and  *)
(* external scanners never look into the cache.                            *)
THEOREM InductiveInvariant == Spec => []IInv
  <1>1. Init => IInv
    BY DEF Init, IInv
  <1> QED
    BY <1>1, InvNext, TypeCorrect, PTL DEF Spec

(* StagingIsRemoved: between two scans the staging area is empty, however   *)
(* the scans before ended.                                                 *)
THEOREM StagesAreRemoved == Spec => []StagingIsRemoved
  <1>1. IInv => StagingIsRemoved
    BY DEF IInv, StagingIsRemoved, Storing
  <1> QED
    BY <1>1, InductiveInvariant, PTL

(* HitsAreOwn: what the cache replays is of the same files, scanner and     *)
(* version, whatever others store, remove or damage.                       *)
THEOREM ReplaysAreOwn == Spec => HitsAreOwn
  <1>1. TypeOK /\ IInv /\ [Next]_vars
          => \/ UNCHANGED vars
             \/ \A r \in returned' \ returned : r.replayed =>
                  /\ \E j \in job : r.value.key = j.key
                  /\ r.value.key.scanner \notin External
    <2> SUFFICES ASSUME TypeOK, IInv, Next,
                        NEW r \in returned' \ returned, r.replayed
                 PROVE  /\ \E j \in job : r.value.key = j.key
                        /\ r.value.key.scanner \notin External
      OBVIOUS
    <2>1. CASE Hit
      <3>1. PICK j \in job : \E v \in ReadEntry(j.key) :
              returned' = {[value |-> v, replayed |-> TRUE]}
        BY <2>1 DEF Hit
      <3>2. PICK v \in ReadEntry(j.key) :
              returned' = {[value |-> v, replayed |-> TRUE]}
        BY <3>1
      <3>3. j.key \in Keys /\ CacheTypeOK
        BY DEF TypeOK, AtMostOne, Jobs
      <3>4. r.value = v /\ v.key = j.key
        BY <3>2, <3>3, ReadEntryType
      <3>5. j.key.scanner \notin External
        BY <2>1 DEF IInv, Hit, Goto
      <3> QED
        BY <3>4, <3>5
    <2>2. ASSUME Answer PROVE FALSE
      BY <2>2 DEF Answer
    <2>3. ASSUME returned' = returned \/ returned' = {} PROVE FALSE
      BY <2>3
    <2>4. CASE Clean \/ Prune \/ WriteFails
      BY <2>2, <2>3, <2>4 DEF Clean, Prune, WriteFails
    <2>5. ASSUME NEW v \in Versions, Start(v) PROVE FALSE
      BY <2>3, <2>5 DEF Start
    <2>6. ASSUME NEW s \in Scanners, NEW tree \in Trees, Begin(s, tree) PROVE FALSE
      BY <2>3, <2>6 DEF Begin
    <2>7. ASSUME NEW k \in Keys, OthersStore(k) \/ OthersRemove(k) PROVE FALSE
      BY <2>3, <2>7 DEF OthersStore, OthersRemove, runVars
    <2>8. CASE \/ EndAudit \/ Abort \/ ProcessStep \/ Crash \/ Analyse \/ Skip
              \/ Miss \/ MakeThrows \/ Stage \/ StageThrows \/ Probed \/ Scanned
              \/ ScanThrows \/ Write \/ Publish
      BY <2>3, <2>8 DEF EndAudit, Abort, ProcessStep, Crash, Analyse, Skip, Miss,
           MakeThrows, Stage, StageThrows, Probed, Scanned, ScanThrows, Write, Publish,
           runVars
    <2> QED
      BY <2>1, <2>4, <2>5, <2>6, <2>7, <2>8 DEF Next, Progress
  <1> QED
    BY <1>1, TypeCorrect, InductiveInvariant, PTL DEF Spec, HitsAreOwn
=============================================================================
