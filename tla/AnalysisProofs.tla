---------------------------- MODULE AnalysisProofs ----------------------------
(***************************************************************************)
(* Theorems about what an audit concludes from a project.                  *)
(*                                                                         *)
(* CallGraph, for every map of calls and every limit of hops: SearchInv    *)
(* relates the breadth-first search with its parents to Met, the sets that *)
(* the other search of the map grows; and what the rules about entry       *)
(* points and the controls of the checklist read of the map is the same.   *)
(*                                                                         *)
(* AuditAnalysis, for every project: SeenInv, RunInv and ReportInv relate  *)
(* what was merged to what each node saw, to the run of each scanner, and  *)
(* to the report with its checklist.  Before it come lemmas about the      *)
(* lists of the analysers, flattened or folded up to a limit.              *)
(*                                                                         *)
(* SourceTaint, for every program: TaintInv relates the search for request *)
(* data to the pairs that calls lead to: what a function passes on is      *)
(* between what one run of it does and what any number of runs may.        *)
(***************************************************************************)
EXTENDS CallGraph, AuditAnalysis, SourceTaint, FiniteSetTheorems, WellFoundedInduction, TLAPS

(* What induction rests on: the order of the naturals is well founded.     *)
LEMMA LeastNatural ==
  ASSUME NEW T \in SUBSET Nat, T # {} PROVE \E x \in T : \A y \in T : x <= y
<1> DEFINE R == {ss \in Nat \X Nat : ss[1] < ss[2]}
<1>1. IsWellFoundedOn(R, Nat)
  BY NatLessThanWellFounded DEF OpToRel
<1>2. PICK x \in T : \A y \in T : ~(<<y, x>> \in R)
  <2> HIDE DEF R
  <2> QED BY <1>1, WFMin
<1>3. ASSUME NEW y \in T PROVE x <= y
  <2>1. x \in Nat /\ y \in Nat
    OBVIOUS
  <2>2. CASE y < x
    <3>1. <<y, x>> \in R
      BY <2>1, <2>2
    <3> QED BY <1>2, <3>1
  <2> QED BY <2>1, <2>2
<1> QED BY <1>3

(* Induction, over the set of the numbers that have a property.            *)
LEMMA SetInduction ==
  ASSUME NEW P \in SUBSET Nat, 0 \in P, \A n \in P : n + 1 \in P PROVE P = Nat
<1> DEFINE T == Nat \ P
<1> SUFFICES ASSUME T # {} PROVE FALSE
  OBVIOUS
<1>1. PICK x \in T : \A y \in T : x <= y
  <2>1. T \in SUBSET Nat
    OBVIOUS
  <2> HIDE DEF T
  <2> QED BY <2>1, LeastNatural
<1>2. x # 0 /\ x - 1 \in Nat
  OBVIOUS
<1>3. x - 1 \in P
  BY <1>1, <1>2
<1>4. (x - 1) + 1 \in P
  BY <1>3
<1> QED BY <1>4

(* f is what a recursive function computes that starts from b.             *)
Iterates(f, b, step, N) == f[0] = b /\ \A k \in 1..N : f[k] = step[k][f[k - 1]]

(* Such a function exists, which must be known before the values of a      *)
(* recursive definition are.                                               *)
LEMMA Recursion ==
  ASSUME NEW S, NEW b \in S, NEW step \in [Nat -> [S -> S]], NEW N \in Nat
  PROVE  \E f \in [0..N -> S] : Iterates(f, b, step, N)
<1> DEFINE Rec(f, m) == \A k \in 0..m : f[k] = IF k = 0 THEN b ELSE step[k][f[k - 1]]
           P == {m \in Nat : \E f \in [0..m -> S] : Rec(f, m)}
<1>1. 0 \in P
  <2>1. Rec([k \in 0..0 |-> b], 0)
    OBVIOUS
  <2>2. [k \in 0..0 |-> b] \in [0..0 -> S]
    OBVIOUS
  <2> HIDE DEF Rec
  <2> QED BY <2>1, <2>2
<1>2. ASSUME NEW m \in P PROVE m + 1 \in P
  <2>1. PICK f \in [0..m -> S] : Rec(f, m)
    OBVIOUS
  <2> DEFINE g == [k \in 0..(m + 1) |-> IF k = m + 1 THEN step[m + 1][f[m]] ELSE f[k]]
  <2>0. m \in Nat /\ m \in 0..m /\ m + 1 \in Nat /\ f[m] \in S
    OBVIOUS
  <2>2. g \in [0..(m + 1) -> S]
    <3>1. ASSUME NEW k \in 0..(m + 1)
          PROVE  (IF k = m + 1 THEN step[m + 1][f[m]] ELSE f[k]) \in S
      <4>1. CASE k = m + 1
        BY <4>1, <2>0
      <4>2. CASE k # m + 1
        <5>1. k \in 0..m
          BY <4>2, <2>0
        <5> QED BY <5>1, <4>2
      <4> QED BY <4>1, <4>2
    <3> QED BY <3>1
  <2>3. Rec(g, m + 1)
    <3> SUFFICES ASSUME NEW k \in 0..(m + 1)
                 PROVE  g[k] = IF k = 0 THEN b ELSE step[k][g[k - 1]]
      OBVIOUS
    <3>1. CASE k = m + 1
      <4>1. g[k] = step[m + 1][f[m]] /\ g[k - 1] = f[m]
        BY <3>1, <2>0
      <4>2. k # 0 /\ k = m + 1 /\ (m + 1) - 1 = m
        BY <3>1, <2>0
      <4> HIDE DEF g
      <4> QED BY <4>1, <4>2
    <3>2. CASE k # m + 1
      <4>1. k \in 0..m /\ (k # 0 => k - 1 \in 0..m)
        BY <3>2, <2>0
      <4>2. g[k] = f[k] /\ (k # 0 => g[k - 1] = f[k - 1])
        BY <4>1, <3>2, <2>0
      <4>3. f[k] = IF k = 0 THEN b ELSE step[k][f[k - 1]]
        BY <4>1, <2>1
      <4> HIDE DEF g
      <4> QED BY <4>2, <4>3
    <3> QED BY <3>1, <3>2
  <2> HIDE DEF g, Rec
  <2> QED BY <2>0, <2>2, <2>3
<1>3. P = Nat
  <2> HIDE DEF P
  <2>1. P \in SUBSET Nat
    BY DEF P
  <2> QED BY <1>1, <1>2, <2>1, SetInduction
<1>4. PICK f \in [0..N -> S] : Rec(f, N)
  BY <1>3
<1>5. f[0] = b
  <2>1. 0 \in 0..N
    OBVIOUS
  <2> QED BY <1>4, <2>1
<1>6. ASSUME NEW k \in 1..N PROVE f[k] = step[k][f[k - 1]]
  <2>1. k \in 0..N /\ k # 0
    OBVIOUS
  <2> QED BY <1>4, <2>1
<1> QED BY <1>5, <1>6 DEF Iterates

-----------------------------------------------------------------------------
Roots == EntrypointRoots(from)

Calls == ToSet(graph.calls)

M == Met(graph, from)

(* What any number of hops could meet.                                     *)
Symbols == Roots \cup {c.target : c \in Calls}

(* The definition of Met, unfolded once.                                   *)
LEMMA MetUnfolds ==
  /\ M[0] = Roots
  /\ \A d \in 1..MaxCallDepth : M[d] = M[d - 1] \cup Targets(graph, M[d - 1])
<1> DEFINE step == [d \in Nat |-> [X \in SUBSET Symbols |-> X \cup Targets(graph, X)]]
<1>0. MaxCallDepth \in Nat
  BY CallDepthAssumption
<1>1. step \in [Nat -> [SUBSET Symbols -> SUBSET Symbols]]
  BY DEF Targets, CallsFrom, Symbols, Calls
<1>2. PICK f \in [0..MaxCallDepth -> SUBSET Symbols] : Iterates(f, Roots, step, MaxCallDepth)
  <2>1. Roots \in SUBSET Symbols
    BY DEF Symbols
  <2> HIDE DEF step
  <2> QED BY <1>0, <1>1, <2>1, Recursion
<1>3. f = [d \in 0..MaxCallDepth |->
            IF d = 0 THEN Roots ELSE f[d - 1] \cup Targets(graph, f[d - 1])]
  <2>1. ASSUME NEW d \in 0..MaxCallDepth, d # 0
        PROVE  step[d][f[d - 1]] = f[d - 1] \cup Targets(graph, f[d - 1])
    <3>1. d \in Nat /\ d - 1 \in 0..MaxCallDepth /\ f[d - 1] \in SUBSET Symbols
      BY <2>1, <1>0
    <3> QED BY <3>1
  <2>2. ASSUME NEW d \in 0..MaxCallDepth
        PROVE  f[d] = IF d = 0 THEN Roots ELSE f[d - 1] \cup Targets(graph, f[d - 1])
    <3>1. CASE d = 0
      BY <1>2, <3>1 DEF Iterates
    <3>2. CASE d # 0
      <4>1. d \in 1..MaxCallDepth
        BY <3>2, <1>0
      <4> HIDE DEF step
      <4>2. f[d] = step[d][f[d - 1]]
        BY <4>1, <1>2 DEF Iterates
      <4> QED BY <4>2, <3>2, <2>1
    <3> QED BY <3>1, <3>2
  <2> QED BY <2>2
<1>4. M = [d \in 0..MaxCallDepth |->
            IF d = 0 THEN Roots ELSE M[d - 1] \cup Targets(graph, M[d - 1])]
  BY <1>3 DEF M, Met, Roots
<1> DEFINE E == M
<1> HIDE DEF E
<1>5. E = [d \in 0..MaxCallDepth |->
            IF d = 0 THEN Roots ELSE E[d - 1] \cup Targets(graph, E[d - 1])]
  BY <1>4 DEF E
<1>6. \A d \in 0..MaxCallDepth :
        E[d] = IF d = 0 THEN Roots ELSE E[d - 1] \cup Targets(graph, E[d - 1])
  BY <1>5
<1>7. 0 \in 0..MaxCallDepth /\ \A d \in 1..MaxCallDepth : d \in 0..MaxCallDepth /\ d # 0
  BY <1>0
<1>8. E[0] = Roots
  BY <1>6, <1>7
<1>9. \A d \in 1..MaxCallDepth : E[d] = E[d - 1] \cup Targets(graph, E[d - 1])
  BY <1>6, <1>7
<1> QED BY <1>8, <1>9 DEF E

(* What was met stays met.                                                 *)
LEMMA MetGrows ==
  ASSUME NEW c \in 0..MaxCallDepth, NEW d \in c..MaxCallDepth PROVE M[c] \subseteq M[d]
<1>0. MaxCallDepth \in Nat /\ c \in Nat /\ d \in Nat /\ d - c \in Nat /\ c + (d - c) = d
  BY CallDepthAssumption
<1> DEFINE P == {k \in Nat : c + k <= MaxCallDepth => M[c] \subseteq M[c + k]}
<1>1. 0 \in P
  BY <1>0
<1>2. ASSUME NEW k \in P PROVE k + 1 \in P
  <2>0. k \in Nat
    OBVIOUS
  <2>1. SUFFICES ASSUME c + (k + 1) <= MaxCallDepth PROVE M[c] \subseteq M[c + (k + 1)]
    BY <2>0
  <2>2. /\ c + (k + 1) \in 1..MaxCallDepth /\ (c + (k + 1)) - 1 = c + k
        /\ c + k <= MaxCallDepth
    BY <1>0, <2>0, <2>1
  <2>3. M[c + (k + 1)] = M[c + k] \cup Targets(graph, M[c + k])
    <3>1. \A j \in 1..MaxCallDepth : M[j] = M[j - 1] \cup Targets(graph, M[j - 1])
      BY MetUnfolds
    <3> QED BY ONLY <2>2, <3>1
  <2>4. M[c] \subseteq M[c + k]
    BY <2>2
  <2> QED BY <2>3, <2>4
<1>3. P = Nat
  <2>1. P \in SUBSET Nat
    OBVIOUS
  <2> HIDE DEF P
  <2> QED BY <1>1, <1>2, <2>1, SetInduction
<1>4. \A k \in Nat : c + k <= MaxCallDepth => M[c] \subseteq M[c + k]
  BY <1>3
<1>5. M[c] \subseteq M[c + (d - c)]
  BY <1>0, <1>4
<1> QED BY ONLY <1>0, <1>5

(* Once a hop meets nothing new, none will.                                *)
LEMMA MetStops ==
  ASSUME NEW c \in 0..MaxCallDepth, Targets(graph, M[c]) \subseteq M[c]
  PROVE  M[MaxCallDepth] = M[c]
<1>0. MaxCallDepth \in Nat /\ c \in Nat /\ MaxCallDepth - c \in Nat
      /\ c + (MaxCallDepth - c) = MaxCallDepth
  BY CallDepthAssumption
<1> DEFINE P == {k \in Nat : c + k <= MaxCallDepth => M[c + k] = M[c]}
<1>1. 0 \in P
  BY <1>0
<1>2. ASSUME NEW k \in P PROVE k + 1 \in P
  <2>0. k \in Nat
    OBVIOUS
  <2>1. SUFFICES ASSUME c + (k + 1) <= MaxCallDepth PROVE M[c + (k + 1)] = M[c]
    BY <2>0
  <2>2. /\ c + (k + 1) \in 1..MaxCallDepth /\ (c + (k + 1)) - 1 = c + k
        /\ c + k <= MaxCallDepth
    BY <1>0, <2>0, <2>1
  <2>3. M[c + (k + 1)] = M[c + k] \cup Targets(graph, M[c + k])
    <3>1. \A j \in 1..MaxCallDepth : M[j] = M[j - 1] \cup Targets(graph, M[j - 1])
      BY MetUnfolds
    <3> QED BY ONLY <2>2, <3>1
  <2>4. M[c + k] = M[c]
    BY <2>2
  <2> QED BY <2>3, <2>4
<1>3. P = Nat
  <2>1. P \in SUBSET Nat
    OBVIOUS
  <2> HIDE DEF P
  <2> QED BY <1>1, <1>2, <2>1, SetInduction
<1>4. \A k \in Nat : c + k <= MaxCallDepth => M[c + k] = M[c]
  BY <1>3
<1>5. M[c + (MaxCallDepth - c)] = M[c]
  BY <1>0, <1>4
<1> QED BY ONLY <1>0, <1>5

(* No chain is shorter than the hops in which its end is met.              *)
LEMMA ChainsAreMet ==
  ASSUME NEW n \in 1..MaxCallDepth, NEW calls \in [1..n -> Calls],
         calls[1].caller \in Roots, \A k \in 2..n : calls[k].caller = calls[k - 1].target
  PROVE  calls[n].target \in M[n]
<1>0. MaxCallDepth \in Nat /\ n \in Nat
  BY CallDepthAssumption
<1> DEFINE P == {k \in Nat : k + 1 <= n => calls[k + 1].target \in M[k + 1]}
<1>1. ASSUME NEW k \in 1..n, calls[k].caller \in M[k - 1] PROVE calls[k].target \in M[k]
  <2>1. calls[k] \in CallsFrom(graph, M[k - 1])
    BY <1>1 DEF CallsFrom, Calls
  <2>2. k \in 1..MaxCallDepth
    BY <1>0
  <2>3. M[k] = M[k - 1] \cup Targets(graph, M[k - 1])
    BY <2>2, MetUnfolds
  <2> QED BY <2>1, <2>3 DEF Targets
<1>2. 0 \in P
  <2>1. 1 \in 1..n /\ 1 - 1 = 0 /\ 0 + 1 = 1
    BY <1>0
  <2>2. calls[1].caller \in M[1 - 1]
    BY <2>1, MetUnfolds
  <2>3. calls[1].target \in M[1]
    BY <1>1, <2>1, <2>2
  <2> QED BY <2>1, <2>3
<1>3. ASSUME NEW k \in P PROVE k + 1 \in P
  <2>0. k \in Nat
    OBVIOUS
  <2>1. SUFFICES ASSUME (k + 1) + 1 <= n PROVE calls[(k + 1) + 1].target \in M[(k + 1) + 1]
    BY <2>0
  <2>2. /\ (k + 1) + 1 \in 1..n /\ (k + 1) + 1 \in 2..n /\ ((k + 1) + 1) - 1 = k + 1
        /\ k + 1 <= n
    BY <1>0, <2>0, <2>1
  <2>3. calls[k + 1].target \in M[k + 1]
    BY <2>2
  <2>4. calls[(k + 1) + 1].caller = calls[((k + 1) + 1) - 1].target
    BY ONLY <2>2, \A j \in 2..n : calls[j].caller = calls[j - 1].target
  <2>5. calls[(k + 1) + 1].caller \in M[((k + 1) + 1) - 1]
    BY ONLY <2>2, <2>3, <2>4
  <2> QED BY <1>1, <2>2, <2>5
<1>4. P = Nat
  <2>1. P \in SUBSET Nat
    OBVIOUS
  <2> HIDE DEF P
  <2> QED BY <1>2, <1>3, <2>1, SetInduction
<1>5. \A k \in Nat : k + 1 <= n => calls[k + 1].target \in M[k + 1]
  BY <1>4
<1>6. n - 1 \in Nat /\ (n - 1) + 1 = n /\ (n - 1) + 1 <= n
  BY <1>0
<1>7. calls[(n - 1) + 1].target \in M[(n - 1) + 1]
  BY ONLY <1>5, <1>6
<1> QED BY ONLY <1>6, <1>7

-----------------------------------------------------------------------------
(* A symbol that hop k was the first to meet.                              *)
First(t, k) == t \in M[k] /\ (k > 0 => t \notin M[k - 1])

(* Every symbol that was met by a call was so in the hop after its caller. *)
ParentsAreEarlier(calledBy, d) ==
    /\ DOMAIN calledBy = M[d] \ Roots
    /\ \A s \in DOMAIN calledBy :
        /\ calledBy[s] \in Calls /\ calledBy[s].target = s
        /\ \E k \in 1..d : First(s, k) /\ First(calledBy[s].caller, k - 1)

(* k calls that lead from a root to a symbol.                              *)
Leads(calls, t, k) ==
    /\ calls \in Seq(Calls) /\ Len(calls) = k
    /\ k > 0 => calls[1].caller \in Roots /\ calls[k].target = t
    /\ \A i \in 2..k : calls[i].caller = calls[i - 1].target

(* The definition of Chains, unfolded once.                                *)
LEMMA ChainsUnfold ==
  ASSUME NEW d \in 0..MaxCallDepth, NEW calledBy, ParentsAreEarlier(calledBy, d)
  PROVE  /\ \A t \in M[d] : Chains(calledBy)[0][t] = <<>>
         /\ \A n \in 1..MaxCallDepth : \A t \in M[d] :
                Chains(calledBy)[n][t] =
                    IF t \in Roots THEN <<>>
                    ELSE Append(Chains(calledBy)[n - 1][calledBy[t].caller], calledBy[t])
<1> DEFINE X == DOMAIN calledBy \cup Roots
           V == [X -> Seq(Calls)]
           Walk(h) == [t \in X |-> IF t \notin DOMAIN calledBy THEN <<>>
                                   ELSE Append(h[calledBy[t].caller], calledBy[t])]
           step == [n \in Nat |-> [h \in V |-> Walk(h)]]
           base == [t \in X |-> <<>>]
<1>0. MaxCallDepth \in Nat /\ d \in Nat
  BY CallDepthAssumption
<1>1. X = M[d] /\ \A t \in M[d] : t \notin DOMAIN calledBy <=> t \in Roots
  <2>1. 0 \in 0..MaxCallDepth /\ d \in 0..MaxCallDepth
    BY <1>0
  <2>2. Roots \subseteq M[d]
    BY <2>1, MetUnfolds, MetGrows
  <2> QED BY <2>2 DEF ParentsAreEarlier
<1>2. ASSUME NEW t \in DOMAIN calledBy PROVE calledBy[t] \in Calls /\ calledBy[t].caller \in X
  <2>1. PICK k \in 1..d : First(calledBy[t].caller, k - 1)
    BY DEF ParentsAreEarlier
  <2>2. k - 1 \in 0..MaxCallDepth /\ d \in (k - 1)..MaxCallDepth
    BY <1>0
  <2>3. M[k - 1] \subseteq M[d]
    BY <2>2, MetGrows
  <2> QED BY <2>1, <2>3, <1>1 DEF First, ParentsAreEarlier
<1>3. step \in [Nat -> [V -> V]] /\ base \in V
  <2>1. ASSUME NEW h \in V, NEW t \in X
        PROVE (IF t \notin DOMAIN calledBy THEN <<>>
               ELSE Append(h[calledBy[t].caller], calledBy[t])) \in Seq(Calls)
    <3>1. CASE t \notin DOMAIN calledBy
      BY <3>1
    <3>2. CASE t \in DOMAIN calledBy
      <4>1. calledBy[t] \in Calls /\ h[calledBy[t].caller] \in Seq(Calls)
        BY <1>2, <3>2
      <4> QED BY <4>1, <3>2
    <3> QED BY <3>1, <3>2
  <2>2. ASSUME NEW h \in V PROVE Walk(h) \in V
    BY <2>1
  <2>3. base \in V
    OBVIOUS
  <2> HIDE DEF Walk, V, base
  <2> QED BY <2>2, <2>3
<1>4. PICK f \in [0..MaxCallDepth -> V] : Iterates(f, base, step, MaxCallDepth)
  <2> HIDE DEF V, step, base
  <2> QED BY <1>0, <1>3, Recursion
<1> DEFINE Link(g, n) == [t \in X |-> IF n = 0 \/ t \notin DOMAIN calledBy THEN <<>>
                                    ELSE Append(g[n - 1][calledBy[t].caller], calledBy[t])]
<1>5. f = [n \in 0..MaxCallDepth |-> Link(f, n)]
  <2>1. ASSUME NEW n \in 0..MaxCallDepth PROVE f[n] = Link(f, n)
    <3>1. CASE n = 0
      <4>1. f[n] = base
        BY <1>4, <3>1 DEF Iterates
      <4> QED BY <4>1, <3>1
    <3>2. CASE n # 0
      <4>1. n \in 1..MaxCallDepth /\ n \in Nat /\ n - 1 \in 0..MaxCallDepth
        BY <3>2, <1>0
      <4>2. f[n] = step[n][f[n - 1]] /\ f[n - 1] \in V
        <5> HIDE DEF step, V
        <5> QED BY <4>1, <1>4 DEF Iterates
      <4>3. f[n] = Walk(f[n - 1])
        <5> HIDE DEF Walk, V
        <5> QED BY <4>1, <4>2
      <4> QED BY <4>3, <3>2
    <3> QED BY <3>1, <3>2
  <2> HIDE DEF Link
  <2> QED BY <2>1
<1>6. Chains(calledBy) = [n \in 0..MaxCallDepth |-> Link(Chains(calledBy), n)]
  BY <1>5 DEF Chains, Roots
<1> DEFINE C == Chains(calledBy)
<1> HIDE DEF C, Link
<1>7. C = [n \in 0..MaxCallDepth |-> Link(C, n)]
  BY <1>6 DEF C
<1>8. \A n \in 0..MaxCallDepth : C[n] = Link(C, n)
  BY <1>7
<1>9. ASSUME NEW t \in M[d] PROVE C[0][t] = <<>>
  <2>1. 0 \in 0..MaxCallDepth
    BY <1>0
  <2>2. C[0] = Link(C, 0)
    BY <1>8, <2>1
  <2> QED BY <2>2, <1>1 DEF Link
<1>10. ASSUME NEW n \in 1..MaxCallDepth, NEW t \in M[d]
       PROVE C[n][t] = IF t \in Roots THEN <<>>
                       ELSE Append(C[n - 1][calledBy[t].caller], calledBy[t])
  <2>1. n \in 0..MaxCallDepth /\ n # 0
    BY <1>0
  <2>2. C[n] = Link(C, n)
    BY <1>8, <2>1
  <2>3. C[n][t] = IF n = 0 \/ t \notin DOMAIN calledBy THEN <<>>
                  ELSE Append(C[n - 1][calledBy[t].caller], calledBy[t])
    BY <2>2, <1>1 DEF Link
  <2> QED BY <2>1, <2>3, <1>1
<1> QED BY <1>9, <1>10 DEF C

(* A call from the end of a chain makes it longer.                         *)
LEMMA LeadsOn ==
  ASSUME NEW q, NEW t, NEW k \in Nat, Leads(q, t, k), NEW c \in Calls, c.caller = t,
         k = 0 => t \in Roots
  PROVE  Leads(Append(q, c), c.target, k + 1)
<1> DEFINE w == Append(q, c)
<1>1. /\ w \in Seq(Calls) /\ Len(w) = k + 1 /\ w[k + 1] = c
      /\ \A i \in 1..k : w[i] = q[i]
  BY DEF Leads
<1> HIDE DEF w
<1>2. w[1].caller \in Roots /\ w[k + 1].target = c.target
  <2>1. CASE k = 0
    BY <1>1, <2>1
  <2>2. CASE k # 0
    <3>1. k > 0 /\ 1 \in 1..k
      BY <2>2
    <3> QED BY <1>1, <3>1 DEF Leads
  <2> QED BY <2>1, <2>2
<1>3. ASSUME NEW i \in 2..(k + 1) PROVE w[i].caller = w[i - 1].target
  <2>0. i - 1 \in 1..k
    OBVIOUS
  <2>1. CASE i = k + 1
    <3>1. k > 0 /\ i - 1 = k /\ k \in 1..k
      BY <2>1
    <3>2. w[i] = c /\ w[k] = q[k] /\ q[k].target = t
      BY <1>1, <2>1, <3>1 DEF Leads
    <3> QED BY ONLY <3>1, <3>2, c.caller = t
  <2>2. CASE i # k + 1
    <3>1. i \in 2..k /\ i \in 1..k
      BY <2>2
    <3>2. q[i].caller = q[i - 1].target
      BY <3>1 DEF Leads
    <3> QED BY ONLY <1>1, <2>0, <3>1, <3>2
  <2> QED BY <2>1, <2>2
<1> QED BY <1>1, <1>2, <1>3 DEF Leads, w

(* The parents lead back to a root in as many calls as there were hops.    *)
LEMMA ChainsLead ==
  ASSUME NEW d \in 0..MaxCallDepth, NEW calledBy, ParentsAreEarlier(calledBy, d),
         NEW t \in M[d], First(t, d)
  PROVE  Leads(ChainTo(t, calledBy), t, d)
<1> DEFINE C == Chains(calledBy)
           Led(n) == \A u \in M[d] : \A k \in 0..d :
                        k <= n /\ First(u, k) => Leads(C[n][u], u, k)
           P == {n \in Nat : n <= MaxCallDepth => Led(n)}
<1>0. MaxCallDepth \in Nat /\ d \in Nat
  BY CallDepthAssumption
<1>1. /\ \A u \in M[d] : C[0][u] = <<>>
      /\ \A n \in 1..MaxCallDepth : \A u \in M[d] :
            C[n][u] = IF u \in Roots THEN <<>>
                      ELSE Append(C[n - 1][calledBy[u].caller], calledBy[u])
  BY ChainsUnfold
<1> HIDE DEF C
<1>2. \A u : Leads(<<>>, u, 0)
  <2>1. <<>> \in Seq(Calls) /\ Len(<<>>) = 0 /\ 2..0 = {}
    OBVIOUS
  <2> QED BY <2>1 DEF Leads
<1>3. 0 \in P
  <2>1. \A k \in 0..d : k <= 0 => k = 0
    BY <1>0
  <2> QED BY <1>1, <1>2, <2>1
<1>4. ASSUME NEW n \in P PROVE n + 1 \in P
  <2>0. n \in Nat
    OBVIOUS
  <2>1. SUFFICES ASSUME n + 1 <= MaxCallDepth, NEW u \in M[d], NEW k \in 0..d,
                        k <= n + 1, First(u, k)
                 PROVE  Leads(C[n + 1][u], u, k)
    BY <2>0
  <2>2. C[n + 1][u] = IF u \in Roots THEN <<>>
                      ELSE Append(C[n][calledBy[u].caller], calledBy[u])
    <3>1. n + 1 \in 1..MaxCallDepth /\ (n + 1) - 1 = n
      BY <1>0, <2>0, <2>1
    <3> QED BY ONLY <1>1, <3>1, u \in M[d]
  <2>3. ASSUME NEW i \in 0..d, NEW j \in 0..d, First(u, i), i < j PROVE ~First(u, j)
    <3>1. j > 0 /\ i \in 0..MaxCallDepth /\ j - 1 \in i..MaxCallDepth
      BY <1>0, <2>3
    <3>2. M[i] \subseteq M[j - 1]
      BY <3>1, MetGrows
    <3> QED BY <2>3, <3>1, <3>2 DEF First
  <2>4. u \in Roots <=> First(u, 0)
    BY MetUnfolds DEF First
  <2>5. CASE k = 0
    BY <1>2, <2>1, <2>2, <2>4, <2>5
  <2>6. CASE k # 0
    <3>1. u \in DOMAIN calledBy /\ u \notin Roots
      <4>1. 0 \in 0..d /\ 0 < k
        BY <1>0, <2>6
      <4>2. u \notin Roots
        BY <2>1, <2>3, <2>4, <4>1
      <4> QED BY <4>2 DEF ParentsAreEarlier
    <3> DEFINE c == calledBy[u]
    <3>2. c \in Calls /\ c.target = u
      BY <3>1 DEF ParentsAreEarlier
    <3>3. First(c.caller, k - 1)
      <4>1. PICK j \in 1..d : First(u, j) /\ First(c.caller, j - 1)
        BY <3>1 DEF ParentsAreEarlier
      <4>2. j \in 0..d /\ ~(j < k) /\ ~(k < j)
        BY <1>0, <2>1, <2>3, <4>1
      <4>3. j = k
        BY <1>0, <4>2
      <4> QED BY <4>1, <4>3
    <3>4. k - 1 \in 0..d /\ k - 1 <= n /\ k - 1 \in 0..MaxCallDepth /\ d \in (k - 1)..MaxCallDepth
      BY <1>0, <2>0, <2>1, <2>6
    <3>5. c.caller \in M[d]
      BY <3>3, <3>4, MetGrows DEF First
    <3>6. Led(n)
      BY <1>0, <2>0, <2>1
    <3>7. Leads(C[n][c.caller], c.caller, k - 1)
      BY <3>3, <3>4, <3>5, <3>6
    <3>8. k - 1 = 0 => c.caller \in Roots
      BY <3>3, MetUnfolds DEF First
    <3>9. k - 1 \in Nat /\ (k - 1) + 1 = k
      BY <1>0, <2>6
    <3> HIDE DEF c
    <3>10. Leads(Append(C[n][c.caller], c), c.target, (k - 1) + 1)
      BY <3>2, <3>7, <3>8, <3>9, LeadsOn
    <3>11. C[n + 1][u] = Append(C[n][c.caller], c)
      BY <2>2, <3>1 DEF c
    <3> QED BY ONLY <3>2, <3>9, <3>10, <3>11
  <2> QED BY <2>5, <2>6
<1>5. P = Nat
  <2>1. P \in SUBSET Nat
    OBVIOUS
  <2> HIDE DEF P
  <2> QED BY <1>3, <1>4, <2>1, SetInduction
<1>6. Led(MaxCallDepth)
  BY <1>0, <1>5
<1>7. d \in 0..d /\ d <= MaxCallDepth
  BY <1>0
<1> QED BY <1>6, <1>7 DEF ChainTo, C

-----------------------------------------------------------------------------
Answered ==
    \/ fact.owner \in Roots /\ path = <<>>
    \/ fact.owner \notin M[MaxCallDepth] /\ path = <<>>
    \/ \E k \in 1..MaxCallDepth : First(fact.owner, k) /\ Leads(path, fact.owner, k)

(* The strengthening under which PathsAreReal is inductive: the search has *)
(* met what the other search meets in as many hops, its frontier is what   *)
(* the last hop met first, and the parents lead back hop by hop.           *)
SearchInv ==
    /\ candidates \in Candidates
    /\ depth \in 0..MaxCallDepth
    /\ visited = M[depth]
    /\ frontier = {s \in M[depth] : First(s, depth)}
    /\ ParentsAreEarlier(parent, depth)
    /\ searching => fact.owner \notin visited /\ path = <<>>
    /\ ~searching => Answered

(* Before the first hop the roots are met.                                 *)
LEMMA SearchInit == GraphInit => SearchInv
<1> SUFFICES ASSUME GraphInit PROVE SearchInv
  OBVIOUS
<1>1. /\ visited = Roots /\ frontier = Roots /\ depth = 0 /\ path = <<>>
      /\ DOMAIN parent = {} /\ searching = (fact.owner \notin visited) /\ candidates \in Candidates
  BY DEF GraphInit, Roots
<1>2. M[0] = Roots /\ 0 \in 0..MaxCallDepth
  BY MetUnfolds, CallDepthAssumption
<1>3. ParentsAreEarlier(parent, 0)
  BY <1>1, <1>2 DEF ParentsAreEarlier
<1>4. frontier = {s \in M[0] : First(s, 0)}
  BY <1>1, <1>2 DEF First
<1>5. /\ searching => fact.owner \notin visited /\ path = <<>>
      /\ ~searching => Answered
  BY <1>1 DEF Answered
<1> QED BY <1>1, <1>2, <1>3, <1>4, <1>5 DEF SearchInv

(* A hop meets what the other search meets in one hop more; a search that  *)
(* ends without a chain has met all that there is to meet.                 *)
LEMMA SearchStep == ASSUME SearchInv, [GraphNext]_graphVars PROVE SearchInv'
<1>0. MaxCallDepth \in Nat /\ depth \in Nat
  BY CallDepthAssumption DEF SearchInv
<1>1. /\ graph' = graph /\ from' = from /\ fact' = fact
      /\ M' = M /\ Roots' = Roots /\ Calls' = Calls
  <2>1. graph' = graph /\ from' = from /\ fact' = fact
    BY DEF GraphNext, Widen, FindNothing, graphVars
  <2> QED BY <2>1 DEF M, Met, Roots, Calls, Targets, CallsFrom, EntrypointRoots
<1>2. CASE Widen
  <2> DEFINE calls == {c \in CallsFrom(graph, frontier) : c.target \notin visited}
             called == {c.target : c \in calls}
  <2>1. PICK calledBy \in {g \in [called -> calls] : \A s \in called : g[s].target = s} :
          /\ parent' = [s \in DOMAIN parent \cup called |->
                          IF s \in called THEN calledBy[s] ELSE parent[s]]
          /\ visited' = visited \cup called
          /\ frontier' = called
          /\ path' = IF fact.owner \in called THEN ChainTo(fact.owner, parent') ELSE <<>>
          /\ searching' = (fact.owner \notin called)
    BY <1>2 DEF Widen
  <2>2. /\ searching /\ depth' = depth + 1 /\ candidates' = candidates
        /\ depth + 1 \in 1..MaxCallDepth /\ depth + 1 \in 0..MaxCallDepth /\ (depth + 1) - 1 = depth
    BY <1>0, <1>2 DEF Widen, MayWiden
  <2>3. M[depth + 1] = M[depth] \cup Targets(graph, M[depth])
    <3>1. \A j \in 1..MaxCallDepth : M[j] = M[j - 1] \cup Targets(graph, M[j - 1])
      BY MetUnfolds
    <3> QED BY ONLY <2>2, <3>1
  <2>4. called = M[depth + 1] \ M[depth]
    <3>1. called \subseteq M[depth + 1] \ M[depth]
      BY <2>3 DEF SearchInv, Targets, CallsFrom
    <3>2. ASSUME NEW c \in CallsFrom(graph, M[depth]), c.target \notin M[depth]
          PROVE  c.target \in called
      <4>1. c.caller \in M[depth] /\ c \in Calls
        BY <3>2 DEF CallsFrom, Calls
      <4>2. c.caller \in frontier
        <5> SUFFICES ASSUME depth > 0, c.caller \in M[depth - 1] PROVE FALSE
          BY <4>1 DEF SearchInv, First
        <5>1. depth \in 1..MaxCallDepth
          BY <1>0 DEF SearchInv
        <5>2. M[depth] = M[depth - 1] \cup Targets(graph, M[depth - 1])
          BY <5>1, MetUnfolds
        <5>3. c.target \in Targets(graph, M[depth - 1])
          BY <4>1 DEF Targets, CallsFrom, Calls
        <5> QED BY <3>2, <5>2, <5>3
      <4> QED BY <3>2, <4>1, <4>2 DEF SearchInv, CallsFrom, Calls
    <3> QED BY <2>3, <3>1, <3>2 DEF Targets
  <2>5. ASSUME NEW s \in called
        PROVE  /\ calledBy[s] \in Calls /\ calledBy[s].target = s
               /\ First(s, depth + 1) /\ First(calledBy[s].caller, depth)
    <3>1. calledBy[s] \in calls /\ calledBy[s].target = s
      BY <2>1, <2>5
    <3>2. calledBy[s] \in Calls /\ calledBy[s].caller \in frontier
      BY <3>1 DEF CallsFrom, Calls
    <3>3. s \in M[depth + 1] /\ s \notin M[depth]
      <4> HIDE DEF called
      <4> QED BY <2>4, <2>5
    <3> QED BY <2>2, <3>1, <3>2, <3>3 DEF SearchInv, First
  <2> HIDE DEF called, calls
  <2>6. Roots \subseteq M[depth] /\ M[depth] \subseteq M[depth + 1]
    <3>1. 0 \in 0..MaxCallDepth /\ depth \in 0..MaxCallDepth
      BY <1>0 DEF SearchInv
    <3> QED BY <3>1, <2>3, MetGrows, MetUnfolds
  <2>7. ParentsAreEarlier(parent', depth + 1)
    <3>1. DOMAIN parent' = M[depth + 1] \ Roots
      BY <2>1, <2>4, <2>6 DEF SearchInv, ParentsAreEarlier
    <3>2. ASSUME NEW s \in DOMAIN parent'
          PROVE  /\ parent'[s] \in Calls /\ parent'[s].target = s
                 /\ \E k \in 1..(depth + 1) : First(s, k) /\ First(parent'[s].caller, k - 1)
      <4>1. CASE s \in called
        <5>1. parent'[s] = calledBy[s] /\ depth + 1 \in 1..(depth + 1)
          BY <1>0, <2>1, <4>1
        <5> QED BY <2>2, <2>5, <4>1, <5>1
      <4>2. CASE s \notin called
        <5>1. s \in DOMAIN parent /\ parent'[s] = parent[s]
          BY <2>1, <4>2
        <5>2. PICK k \in 1..depth : First(s, k) /\ First(parent[s].caller, k - 1)
          BY <5>1 DEF SearchInv, ParentsAreEarlier
        <5>3. k \in 1..(depth + 1)
          BY <1>0
        <5> QED BY <5>1, <5>2, <5>3 DEF SearchInv, ParentsAreEarlier
      <4> QED BY <4>1, <4>2
    <3> QED BY <3>1, <3>2 DEF ParentsAreEarlier
  <2>8. ParentsAreEarlier(parent, depth)'
    BY <1>1, <2>2, <2>7 DEF ParentsAreEarlier, First
  <2>9. frontier' = {s \in M[depth + 1] : First(s, depth + 1)} /\ visited' = M[depth + 1]
    BY <1>0, <2>1, <2>2, <2>4, <2>6 DEF SearchInv, First
  <2>10. (searching => fact.owner \notin visited /\ path = <<>>)'
    BY <1>1, <2>1, <2>2, <2>4, <2>9 DEF SearchInv
  <2>11. ASSUME fact.owner \in called
         PROVE First(fact.owner, depth + 1) /\ Leads(path', fact.owner, depth + 1)
    <3>1. First(fact.owner, depth + 1) /\ fact.owner \in M[depth + 1]
      BY <2>5, <2>11 DEF First
    <3>2. path' = ChainTo(fact.owner, parent')
      BY <2>1, <2>11
    <3> DEFINE p == parent'
    <3>3. ParentsAreEarlier(p, depth + 1)
      BY <2>7
    <3> HIDE DEF p
    <3>4. Leads(ChainTo(fact.owner, p), fact.owner, depth + 1)
      BY <2>2, <3>1, <3>3, ChainsLead
    <3> QED BY <3>1, <3>2, <3>4 DEF p
  <2>12. (~searching => Answered)'
    <3> SUFFICES ASSUME fact.owner \in called PROVE Answered'
      BY <2>1
    <3>1. (\E k \in 1..MaxCallDepth : First(fact.owner, k) /\ Leads(path, fact.owner, k))'
      BY <1>1, <2>2, <2>11 DEF First, Leads
    <3> QED BY <3>1 DEF Answered
  <2>13. (frontier = {s \in M[depth] : First(s, depth)})'
    BY <1>1, <2>2, <2>9 DEF First
  <2> QED BY <1>1, <2>2, <2>8, <2>9, <2>10, <2>12, <2>13 DEF SearchInv
<1>3. CASE FindNothing
  <2>1. /\ UNCHANGED <<visited, frontier, parent, depth, path, candidates>>
        /\ searching /\ searching' = FALSE
        /\ ~(depth < MaxCallDepth /\ frontier # {})
    BY <1>3 DEF FindNothing, MayWiden
  <2>2. fact.owner \notin M[MaxCallDepth] /\ path = <<>>
    <3>1. fact.owner \notin M[depth] /\ path = <<>>
      BY <2>1 DEF SearchInv
    <3>2. CASE depth = MaxCallDepth
      BY <3>1, <3>2
    <3>3. CASE depth # MaxCallDepth
      <4>1. frontier = {} /\ depth \in 0..MaxCallDepth
        BY <1>0, <2>1, <3>3 DEF SearchInv
      <4>2. Targets(graph, M[depth]) \subseteq M[depth]
        <5>1. CASE depth = 0
          <6>1. M[depth] = {}
            BY <4>1, <5>1 DEF SearchInv, First
          <6> QED BY <6>1 DEF Targets, CallsFrom
        <5>2. CASE depth # 0
          <6>1. depth \in 1..MaxCallDepth /\ depth > 0
            BY <1>0, <4>1, <5>2
          <6>2. M[depth] = M[depth - 1] \cup Targets(graph, M[depth - 1])
            BY <6>1, MetUnfolds
          <6>3. M[depth] \subseteq M[depth - 1]
            BY <4>1, <6>1 DEF SearchInv, First
          <6> QED BY <6>2, <6>3 DEF Targets, CallsFrom
        <5> QED BY <5>1, <5>2
      <4>3. M[MaxCallDepth] = M[depth]
        BY <4>1, <4>2, MetStops
      <4> QED BY <3>1, <4>3
    <3> QED BY <3>2, <3>3
  <2>3. Answered'
    BY <1>1, <2>1, <2>2 DEF Answered
  <2> QED BY <1>1, <2>1, <2>3 DEF SearchInv, ParentsAreEarlier, First
<1>4. CASE UNCHANGED graphVars
  <2>1. UNCHANGED <<visited, frontier, parent, depth, path, searching, candidates>>
    BY <1>4 DEF graphVars
  <2> QED BY <1>1, <2>1 DEF SearchInv, ParentsAreEarlier, First, Answered, Leads
<1> QED BY <1>2, <1>3, <1>4 DEF GraphNext

(* What answers the search is a chain that exists, and none is shorter.    *)
LEMMA AnswersAreReal == ASSUME SearchInv, ~searching PROVE PathsAreReal
<1>0. MaxCallDepth \in Nat /\ Answered
  BY CallDepthAssumption DEF SearchInv
<1>1. ReachableSymbols(graph, from) = M[MaxCallDepth]
  BY DEF ReachableSymbols, M
<1>2. Roots \subseteq M[MaxCallDepth]
  <2>1. 0 \in 0..MaxCallDepth /\ MaxCallDepth \in 0..MaxCallDepth
    BY <1>0
  <2> QED BY <2>1, MetUnfolds, MetGrows
<1>3. ASSUME NEW r \in RiskPaths PROVE r.findings # {} /\ \A f \in r.findings : f.open
  <2>1. PICK F \in SUBSET OnPath :
          /\ OnPath # {} /\ r.findings = F
          /\ Cardinality(F) = IF Cardinality(OnPath) > MaxFindingsPerPath
                              THEN MaxFindingsPerPath ELSE Cardinality(OnPath)
    BY DEF RiskPaths
  <2>2. \A f \in OnPath : f.open /\ f \in candidates
    BY DEF OnPath, Eligible
  <2>3. IsFiniteSet(OnPath)
    BY <2>2, CallDepthAssumption, FS_Subset DEF SearchInv
  <2>4. Cardinality(OnPath) \in Nat /\ Cardinality(OnPath) # 0
    BY <2>1, <2>3, FS_CardinalityType, FS_EmptySet
  <2>5. Cardinality(F) # 0
    BY <2>1, <2>4, CallDepthAssumption
  <2>6. F # {}
    BY <2>5, FS_EmptySet
  <2> QED BY <2>1, <2>2, <2>6
<1>4. CASE path = <<>> /\ (fact.owner \in Roots \/ fact.owner \notin M[MaxCallDepth])
  <2>1. Len(path) = 0 /\ DOMAIN path = {} /\ 2..Len(path) = {}
    BY <1>4
  <2>2. IsChain(path)
    BY <1>4, <2>1 DEF IsChain
  <2>3. fact.owner \in M[MaxCallDepth] <=> (path # <<>> \/ fact.owner \in Roots)
    BY <1>2, <1>4
  <2>4. 0..(Len(path) - 1) = {} /\ Len(path) <= MaxCallDepth
    BY <1>0, <2>1
  <2> QED BY <1>1, <1>3, <2>2, <2>3, <2>4 DEF PathsAreReal, Roots
<1>5. ASSUME NEW k \in 1..MaxCallDepth, First(fact.owner, k), Leads(path, fact.owner, k)
      PROVE  PathsAreReal
  <2>1. /\ path \in Seq(Calls) /\ Len(path) = k /\ path # <<>> /\ k \in Nat /\ k > 0
        /\ path[1].caller \in Roots /\ path[k].target = fact.owner
        /\ \A i \in 2..k : path[i].caller = path[i - 1].target
    BY <1>0, <1>5 DEF Leads
  <2>2. IsChain(path)
    BY <2>1 DEF IsChain, Last, Roots, Calls
  <2>3. fact.owner \in M[MaxCallDepth]
    <3>1. k \in 0..MaxCallDepth /\ MaxCallDepth \in k..MaxCallDepth
      BY <1>0
    <3> QED BY <1>5, <3>1, MetGrows DEF First
  <2>4. ASSUME NEW n \in 0..(k - 1), NEW calls \in [1..n -> Calls], n > 0, IsChain(calls)
        PROVE  FALSE
    <3>1. n \in 1..MaxCallDepth /\ n \in 0..MaxCallDepth /\ k - 1 \in n..MaxCallDepth
      BY <1>0, <2>1, <2>4
    <3>2. calls \in Seq(Calls) /\ Len(calls) = n /\ calls # <<>>
      BY <2>4, <3>1
    <3>3. /\ calls[1].caller \in Roots /\ calls[n].target = fact.owner
          /\ \A i \in 2..n : calls[i].caller = calls[i - 1].target
      BY <2>4, <3>2 DEF IsChain, Last, Roots
    <3>4. fact.owner \in M[n]
      BY <3>1, <3>3, ChainsAreMet
    <3>5. M[n] \subseteq M[k - 1]
      BY <3>1, MetGrows
    <3> QED BY <1>5, <2>1, <3>4, <3>5 DEF First
  <2>5. Len(path) <= MaxCallDepth /\ Len(path) - 1 = k - 1
    BY <1>0, <2>1
  <2> QED BY <1>1, <1>3, <2>1, <2>2, <2>3, <2>4, <2>5 DEF PathsAreReal, Calls
<1> QED BY <1>0, <1>4, <1>5 DEF Answered

(* For every map of calls and every limit of hops, what the report shows   *)
(* as a way to a sensitive operation exists in the calls, is as short as   *)
(* any, is found whenever reachableSymbols reaches the operation, and is   *)
(* related to open findings only (callPathToFact, buildRiskCorrelation).   *)
THEOREM PathsHold == GraphSpec => []PathsAreReal
<1>1. SearchInv => PathsAreReal
  BY AnswersAreReal DEF PathsAreReal
<1> QED BY SearchInit, SearchStep, <1>1, PTL DEF GraphSpec

-----------------------------------------------------------------------------
(* The graph of an audit.                                                  *)
Predecessors(n) == {e[1] : e \in {f \in AuditEdges : f[2] = n}}

LEMMA NodesAre ==
  Range(NodeNames) = {"snapshot", "project_profile", "normalize", "prepare_report"} \cup Normalized
<1>1. DOMAIN NodeNames = 1..28
  BY DEF NodeNames
<1>2. ASSUME NEW i \in 1..28
      PROVE  NodeNames[i] \in {"snapshot", "project_profile", "normalize", "prepare_report"}
                                \cup Normalized
  BY DEF NodeNames, Normalized
<1>3. ASSUME NEW n \in {"snapshot", "project_profile", "normalize", "prepare_report"}
                            \cup Normalized
      PROVE  \E i \in 1..28 : NodeNames[i] = n
  BY DEF NodeNames, Normalized
<1> QED BY <1>1, <1>2, <1>3 DEF Range

LEMMA PredecessorsAre ==
  /\ \A n \in OfSnapshot : "snapshot" \in Predecessors(n)
  /\ \A n \in OfProfile : "project_profile" \in Predecessors(n)
  /\ Normalized \subseteq Predecessors("normalize")
  /\ "normalize" \in Predecessors("prepare_report")
<1>1. ASSUME NEW n, NEW m, <<m, n>> \in AuditEdges PROVE m \in Predecessors(n)
  <2>1. <<m, n>>[1] = m /\ <<m, n>>[2] = n
    OBVIOUS
  <2> QED BY <1>1, <2>1 DEF Predecessors
<1>2. \A n \in OfSnapshot : <<"snapshot", n>> \in AuditEdges
  BY DEF AuditEdges
<1>3. \A n \in OfProfile : <<"project_profile", n>> \in AuditEdges
  BY DEF AuditEdges
<1>4. \A n \in Normalized : <<n, "normalize">> \in AuditEdges
  BY DEF AuditEdges
<1>5. <<"normalize", "prepare_report">> \in AuditEdges
  BY DEF AuditEdges
<1> QED BY <1>1, <1>2, <1>3, <1>4, <1>5

(* What a node could read is closed under the predecessors.                *)
SeenInv ==
  /\ done \subseteq Range(NodeNames) /\ DOMAIN seen = done
  /\ \A n \in done : /\ Predecessors(n) \subseteq seen[n] /\ seen[n] \subseteq done
                     /\ \A m \in seen[n] : Predecessors(m) \subseteq seen[n]

LEMMA SeenStep == ASSUME SeenInv, [AnalysisNext]_analysisVars PROVE SeenInv'
<1>1. CASE UNCHANGED analysisVars
  BY <1>1 DEF SeenInv, analysisVars, Predecessors
<1>2. CASE AnalysisRound
  <2>1. /\ done' = done \cup Starting
        /\ seen' = [n \in DOMAIN seen \cup Starting |-> IF n \in Starting THEN done ELSE seen[n]]
    BY <1>2 DEF AnalysisRound
  <2>2. /\ Starting \subseteq Range(NodeNames)
        /\ \A n \in Starting : n \notin done /\ Predecessors(n) \subseteq done
    BY DEF Starting, Predecessors
  <2>3. \A n \in done : Predecessors(n) \subseteq done
    BY DEF SeenInv
  <2>4. DOMAIN seen' = done'
    BY <2>1 DEF SeenInv
  <2>5. ASSUME NEW n \in done'
        PROVE  /\ Predecessors(n) \subseteq seen'[n] /\ seen'[n] \subseteq done'
               /\ \A m \in seen'[n] : Predecessors(m) \subseteq seen'[n]
    <3>1. CASE n \in Starting
      <4>1. seen'[n] = done
        BY <2>1, <3>1
      <4> QED BY <4>1, <2>1, <2>2, <2>3, <3>1
    <3>2. CASE n \notin Starting
      <4>1. n \in done /\ seen'[n] = seen[n]
        BY <2>1, <3>2 DEF SeenInv
      <4> QED BY <4>1, <2>1 DEF SeenInv
    <3> QED BY <3>1, <3>2
  <2>6. done' \subseteq Range(NodeNames)
    BY <2>1, <2>2 DEF SeenInv
  <2> QED BY <2>4, <2>5, <2>6 DEF SeenInv, Predecessors
<1> QED BY <1>1, <1>2 DEF AnalysisNext

LEMMA AllIsSeen == ASSUME SeenInv PROVE NodesSeeWhatTheyRead
<1> SUFFICES ASSUME NEW n \in DOMAIN seen PROVE Reads(n) \subseteq seen[n]
  BY DEF NodesSeeWhatTheyRead
<1>1. /\ Predecessors(n) \subseteq seen[n]
      /\ \A m \in seen[n] : Predecessors(m) \subseteq seen[n]
      /\ n \in Range(NodeNames)
  BY DEF SeenInv
<1>2. n \in OfProfile => {"snapshot", "project_profile"} \subseteq seen[n]
  BY <1>1, PredecessorsAre DEF OfSnapshot
<1>3. Normalized \subseteq seen[n] => Range(NodeNames) \ {"normalize", "prepare_report"} \subseteq seen[n]
  <2>1. "patterns" \in Normalized /\ "patterns" \in OfSnapshot
        /\ "ast_security" \in Normalized /\ "ast_security" \in OfProfile
    BY DEF Normalized, OfSnapshot, OfProfile
  <2> QED BY <2>1, <1>1, PredecessorsAre, NodesAre
<1>4. CASE n \in {"snapshot", "http_probe"}
  <2>1. Reads(n) = {}
    <3>1. n \notin ReadsProfile \cup {"normalize", "prepare_report"}
      BY <1>4 DEF ReadsProfile
    <3> QED BY <1>4, <3>1 DEF Reads
  <2> QED BY <2>1
<1>5. CASE n \in ReadsProfile
  <2>1. n \in OfProfile
    BY <1>5 DEF ReadsProfile, OfProfile
  <2>2. Reads(n) = {"snapshot", "project_profile"}
    BY <1>5 DEF Reads, ReadsProfile
  <2> QED BY <2>1, <2>2, <1>2
<1>6. CASE n = "normalize"
  <2>1. Reads(n) = Range(NodeNames) \ {"normalize", "prepare_report"}
    BY <1>6 DEF Reads, ReadsProfile
  <2> QED BY <2>1, <1>6, <1>1, <1>3, PredecessorsAre
<1>7. CASE n = "prepare_report"
  <2>1. Reads(n) = Range(NodeNames) \ {"prepare_report"}
    BY <1>7 DEF Reads, ReadsProfile
  <2>2. "normalize" \in seen[n]
    BY <1>7, <1>1, PredecessorsAre
  <2> QED BY <2>1, <2>2, <1>1, <1>3, PredecessorsAre
<1>8. CASE n \notin {"snapshot", "http_probe", "normalize", "prepare_report"} \cup ReadsProfile
  <2>1. Reads(n) = {"snapshot"}
    BY <1>8 DEF Reads
  <2>2. n \in OfSnapshot \/ n \in OfProfile
    BY <1>8, <1>1, NodesAre DEF Normalized, OfSnapshot, OfProfile
  <2> QED BY <2>1, <2>2, <1>1, <1>2, PredecessorsAre
<1> QED BY <1>4, <1>5, <1>6, <1>7, <1>8

(* No node reads what is not merged yet, in every round of every audit     *)
(* (buildAuditPipeline, the edges of addEdge).                             *)
THEOREM NodesSeeAll == AnalysisSpec => []NodesSeeWhatTheyRead
<1>1. AnalysisInit => SeenInv
  BY DEF AnalysisInit, SeenInv
<1>2. SeenInv /\ [AnalysisNext]_analysisVars => SeenInv'
  BY SeenStep
<1>3. SeenInv => NodesSeeWhatTheyRead
  BY AllIsSeen
<1> QED BY <1>1, <1>2, <1>3, PTL DEF AnalysisSpec

-----------------------------------------------------------------------------
(* Sequences, as far as the lists of the analysers need them.              *)
LEMMA ElementsOfSequence ==
  ASSUME NEW S, NEW s \in Seq(S) PROVE ToSet(s) \subseteq S /\ s = [k \in 1..Len(s) |-> s[k]]
BY DEF ToSet

LEMMA ConcatElements ==
  ASSUME NEW S, NEW s \in Seq(S), NEW t \in Seq(S)
  PROVE  /\ s \o t \in Seq(S) /\ Len(s \o t) = Len(s) + Len(t)
         /\ ToSet(s \o t) = ToSet(s) \cup ToSet(t)
<1>1. s \o t \in Seq(S) /\ Len(s \o t) = Len(s) + Len(t)
  OBVIOUS
<1>2. ASSUME NEW k \in DOMAIN s PROVE k \in DOMAIN (s \o t) /\ (s \o t)[k] = s[k]
  OBVIOUS
<1>3. ASSUME NEW k \in DOMAIN t
      PROVE  Len(s) + k \in DOMAIN (s \o t) /\ (s \o t)[Len(s) + k] = t[k]
  OBVIOUS
<1>4. ASSUME NEW k \in DOMAIN (s \o t)
      PROVE  \/ k \in DOMAIN s /\ (s \o t)[k] = s[k]
             \/ k - Len(s) \in DOMAIN t /\ (s \o t)[k] = t[k - Len(s)]
  OBVIOUS
<1>5. ToSet(s \o t) \subseteq ToSet(s) \cup ToSet(t)
  BY <1>4 DEF ToSet
<1>6. ToSet(s) \cup ToSet(t) \subseteq ToSet(s \o t)
  BY <1>2, <1>3 DEF ToSet
<1> QED BY <1>1, <1>5, <1>6

LEMMA AppendElements ==
  ASSUME NEW S, NEW s \in Seq(S), NEW x \in S
  PROVE  /\ Append(s, x) \in Seq(S) /\ Len(Append(s, x)) = Len(s) + 1
         /\ ToSet(Append(s, x)) = ToSet(s) \cup {x}
<1>1. Append(s, x) \in Seq(S) /\ Len(Append(s, x)) = Len(s) + 1
  OBVIOUS
<1>2. ASSUME NEW k \in DOMAIN s PROVE k \in DOMAIN Append(s, x) /\ Append(s, x)[k] = s[k]
  OBVIOUS
<1>3. Len(s) + 1 \in DOMAIN Append(s, x) /\ Append(s, x)[Len(s) + 1] = x
  OBVIOUS
<1>4. ASSUME NEW k \in DOMAIN Append(s, x)
      PROVE  \/ k \in DOMAIN s /\ Append(s, x)[k] = s[k]
             \/ Append(s, x)[k] = x
  OBVIOUS
<1>5. ToSet(Append(s, x)) \subseteq ToSet(s) \cup {x}
  BY <1>4 DEF ToSet
<1>6. ToSet(s) \cup {x} \subseteq ToSet(Append(s, x))
  BY <1>2, <1>3 DEF ToSet
<1> QED BY <1>1, <1>5, <1>6

(* What is cut, and when nothing is.                                       *)
LEMMA FirstOfFacts ==
  ASSUME NEW S, NEW s \in Seq(S), NEW n \in Nat
  PROVE  /\ FirstOf(s, n) \in Seq(S)
         /\ ToSet(FirstOf(s, n)) \subseteq ToSet(s)
         /\ Len(FirstOf(s, n)) <= n /\ Len(FirstOf(s, n)) <= Len(s)
         /\ Len(FirstOf(s, n)) < n => FirstOf(s, n) = s
         /\ Len(s) <= n => FirstOf(s, n) = s
         /\ n < Len(s) => Len(FirstOf(s, n)) = n
         /\ \A k \in DOMAIN FirstOf(s, n) : k \in DOMAIN s /\ FirstOf(s, n)[k] = s[k]
<1> DEFINE m == IF n < Len(s) THEN n ELSE Len(s)
<1>1. m \in 0..Len(s) /\ m <= n /\ (m < n => m = Len(s)) /\ (Len(s) <= n => m = Len(s))
      /\ (n < Len(s) => m = n)
  OBVIOUS
<1>2. FirstOf(s, n) = SubSeq(s, 1, m)
  BY DEF FirstOf
<1> HIDE DEF m
<1>3. /\ SubSeq(s, 1, m) \in Seq(S) /\ Len(SubSeq(s, 1, m)) = m
      /\ \A k \in 1..m : SubSeq(s, 1, m)[k] = s[k]
  BY <1>1
<1>4. m = Len(s) => SubSeq(s, 1, m) = s
  BY <1>3
<1>5. DOMAIN SubSeq(s, 1, m) = 1..m /\ 1..m \subseteq DOMAIN s
  BY <1>1, <1>3
<1>6. ToSet(SubSeq(s, 1, m)) \subseteq ToSet(s)
  BY <1>3, <1>5 DEF ToSet
<1> QED BY <1>1, <1>2, <1>3, <1>4, <1>5, <1>6

(* A flattened sequence has what its sequences have, and is no shorter.    *)
Joined(a, b) == a \o b
JoinedHolds(c, k, a) == TRUE
Flat == INSTANCE FoldTheorems WITH Op <- Joined, Holds <- JoinedHolds

LEMMA FlattenFacts ==
  ASSUME NEW S, NEW s \in Seq(Seq(S))
  PROVE  /\ FlattenSeq(s) \in Seq(S)
         /\ ToSet(FlattenSeq(s)) = UNION {ToSet(s[k]) : k \in DOMAIN s}
         /\ \A k \in DOMAIN s : Len(s[k]) <= Len(FlattenSeq(s))
<1>1. CASE Len(s) = 0
  <2>1. FlattenSeq(s) = s /\ s = <<>> /\ DOMAIN s = {}
    BY <1>1 DEF FlattenSeq
  <2> QED BY <2>1 DEF ToSet
<1>2. CASE Len(s) # 0
  <2> DEFINE N == Len(s)
             Rec(f) == f = [i \in 1..N |-> IF i = 1 THEN s[i] ELSE f[i - 1] \o s[i]]
             F == CHOOSE f : Rec(f)
             In(k) == UNION {ToSet(s[j]) : j \in 1..k}
             P == {n \in Nat : n + 1 \in 1..N =>
                     /\ F[n + 1] \in Seq(S) /\ ToSet(F[n + 1]) = In(n + 1)
                     /\ \A j \in 1..(n + 1) : Len(s[j]) <= Len(F[n + 1])}
  <2>1. N \in Nat \ {0} /\ DOMAIN s = 1..N /\ \A k \in 1..N : s[k] \in Seq(S)
    BY <1>2
  <2>2. FlattenSeq(s) = F[N]
    BY <1>2 DEF FlattenSeq
  <2>3. \E f : Rec(f)
    <3>1. PICK h : /\ h[0] = <<>>
                   /\ \A k \in 1..N : h[k] = Joined(h[k - 1], s[k])
                   /\ h[N] = Flat!FoldLeft(Joined, <<>>, s)
      <4>1. N \in Nat /\ DOMAIN s = 1..N
        BY <2>1
      <4> HIDE DEF N
      <4> QED BY <4>1, Flat!FoldSteps
    <3> DEFINE g == [i \in 1..N |-> h[i]]
    <3>2. ASSUME NEW i \in 1..N PROVE h[i] = IF i = 1 THEN s[i] ELSE g[i - 1] \o s[i]
      <4>1. CASE i = 1
        <5>1. h[1] = <<>> \o s[1]
          <6>1. h[1] = Joined(h[0], s[1])
            <7>1. 1 \in 1..N /\ 1 - 1 = 0
              BY <2>1
            <7> QED BY <3>1, <7>1
          <6> QED BY <3>1, <6>1 DEF Joined
        <5>2. <<>> \o s[1] = s[1]
          BY <2>1
        <5> QED BY <4>1, <5>1, <5>2
      <4>2. CASE i # 1
        <5>1. i - 1 \in 1..N
          BY <4>2, <2>1
        <5> QED BY <3>1, <4>2, <5>1 DEF Joined
      <4> QED BY <4>1, <4>2
    <3>3. Rec(g)
      BY <3>2
    <3> QED BY <3>3
  <2>4. Rec(F)
    BY <2>3
  <2>5. \A i \in 1..N : F[i] = IF i = 1 THEN s[i] ELSE F[i - 1] \o s[i]
    BY <2>4
  <2> HIDE DEF F, N
  <2>6. 0 \in P
    <3>1. F[1] = s[1] /\ s[1] \in Seq(S)
      BY <2>1, <2>5
    <3>2. 1..1 = {1}
      OBVIOUS
    <3>3. Len(s[1]) <= Len(s[1])
      BY <3>1
    <3> QED BY <3>1, <3>2, <3>3
  <2>7. ASSUME NEW n \in P PROVE n + 1 \in P
    <3> DEFINE m == n + 1
    <3> SUFFICES ASSUME m + 1 \in 1..N
                 PROVE  /\ F[m + 1] \in Seq(S) /\ ToSet(F[m + 1]) = In(m + 1)
                        /\ \A j \in 1..(m + 1) : Len(s[j]) <= Len(F[m + 1])
      OBVIOUS
    <3>1. n \in Nat /\ m \in 1..N /\ m + 1 # 1 /\ (m + 1) - 1 = m
      BY <2>1
    <3>2. /\ F[m] \in Seq(S) /\ ToSet(F[m]) = In(m)
          /\ \A j \in 1..m : Len(s[j]) <= Len(F[m])
      BY <3>1
    <3>3. F[m + 1] = F[m] \o s[m + 1] /\ s[m + 1] \in Seq(S)
      BY <2>1, <2>5, <3>1
    <3>4. 1..(m + 1) = 1..m \cup {m + 1}
      BY <3>1
    <3> HIDE DEF m
    <3>5. In(m + 1) = In(m) \cup ToSet(s[m + 1])
      BY <3>4
    <3>6. /\ F[m + 1] \in Seq(S) /\ Len(F[m + 1]) = Len(F[m]) + Len(s[m + 1])
          /\ ToSet(F[m + 1]) = ToSet(F[m]) \cup ToSet(s[m + 1])
      BY <3>2, <3>3, ConcatElements
    <3>7. ASSUME NEW j \in 1..(m + 1) PROVE Len(s[j]) <= Len(F[m + 1])
      <4>1. Len(F[m]) \in Nat /\ Len(s[m + 1]) \in Nat
        BY <3>2, <3>3
      <4>2. \A x, y \in Nat : y <= x + y /\ \A z \in Nat : z <= x => z <= x + y
        OBVIOUS
      <4>3. CASE j = m + 1
        BY <3>6, <4>1, <4>2, <4>3
      <4>4. CASE j \in 1..m
        <5>1. Len(s[j]) <= Len(F[m]) /\ Len(s[j]) \in Nat
          <6>1. j \in 1..N
            BY <2>1, <3>1, <4>4
          <6> QED BY <2>1, <3>2, <4>4, <6>1
        <5> QED BY <3>6, <4>1, <4>2, <5>1
      <4> QED BY <3>4, <4>3, <4>4
    <3> QED BY <3>2, <3>5, <3>6, <3>7
  <2>8. P = Nat
    <3> HIDE DEF P
    <3>1. P \in SUBSET Nat
      BY DEF P
    <3> QED BY <2>6, <2>7, <3>1, SetInduction
  <2>9. N - 1 \in Nat /\ (N - 1) + 1 = N /\ N \in 1..N
    BY <2>1
  <2>10. /\ F[N] \in Seq(S) /\ ToSet(F[N]) = In(N)
         /\ \A j \in 1..N : Len(s[j]) <= Len(F[N])
    BY <2>8, <2>9
  <2> QED BY <2>1, <2>2, <2>10
<1> QED BY <1>1, <1>2

(* Lists that are added until the limit is reached.                        *)
UpTo(lists, k) == UNION {ToSet(lists[j]) : j \in 1..k}

AddedSoFar(c, k, a) ==
  /\ a \in Seq(c[1]) /\ ToSet(a) \subseteq UpTo(c[2], k)
  /\ Len(a) < MaxFindings => ToSet(a) = UpTo(c[2], k)

Filled == INSTANCE FoldTheorems WITH Op <- AddUnlessFull, Holds <- AddedSoFar

LEMMA UpToNext ==
  ASSUME NEW lists, NEW k \in Nat \ {0}
  PROVE  UpTo(lists, k) = UpTo(lists, k - 1) \cup ToSet(lists[k])
<1>1. 1..k = 1..(k - 1) \cup {k}
  OBVIOUS
<1> QED BY <1>1 DEF UpTo

LEMMA UntilFullFacts ==
  ASSUME NEW S, NEW lists \in Seq(Seq(S))
  PROVE  /\ UntilFull(lists) \in Seq(S)
         /\ ToSet(UntilFull(lists)) \subseteq UNION {ToSet(lists[k]) : k \in DOMAIN lists}
         /\ Len(UntilFull(lists)) < MaxFindings =>
                ToSet(UntilFull(lists)) = UNION {ToSet(lists[k]) : k \in DOMAIN lists}
<1> DEFINE c == <<S, lists>>
           N == Len(lists)
<1>1. N \in Nat /\ DOMAIN lists = 1..N /\ \A k \in 1..N : lists[k] \in Seq(S)
  OBVIOUS
<1>2. c[1] = S /\ c[2] = lists
  OBVIOUS
<1> HIDE DEF c, N
<1>3. AddedSoFar(c, 0, <<>>)
  <2>1. UpTo(lists, 0) = {}
    BY DEF UpTo
  <2>2. <<>> \in Seq(S) /\ ToSet(<<>>) = {}
    BY DEF ToSet
  <2> QED BY <1>2, <2>1, <2>2 DEF AddedSoFar
<1>4. ASSUME NEW k \in 1..N, NEW a, AddedSoFar(c, k - 1, a)
      PROVE  AddedSoFar(c, k, AddUnlessFull(a, lists[k]))
  <2>1. UpTo(lists, k) = UpTo(lists, k - 1) \cup ToSet(lists[k])
    BY UpToNext
  <2>2. /\ a \in Seq(S) /\ ToSet(a) \subseteq UpTo(lists, k - 1)
        /\ Len(a) < MaxFindings => ToSet(a) = UpTo(lists, k - 1)
    BY <1>2, <1>4 DEF AddedSoFar
  <2>3. CASE Len(a) >= MaxFindings
    <3>1. AddUnlessFull(a, lists[k]) = a
      BY <2>3 DEF AddUnlessFull
    <3>2. ~(Len(a) < MaxFindings)
      BY <2>2, <2>3, AnalyserLimits
    <3> QED BY <1>2, <2>1, <2>2, <3>1, <3>2 DEF AddedSoFar
  <2>4. CASE ~(Len(a) >= MaxFindings)
    <3>1. AddUnlessFull(a, lists[k]) = a \o lists[k]
      BY <2>4 DEF AddUnlessFull
    <3>2. Len(a) < MaxFindings
      BY <2>2, <2>4, AnalyserLimits
    <3>3. a \o lists[k] \in Seq(S) /\ ToSet(a \o lists[k]) = ToSet(a) \cup ToSet(lists[k])
      BY <1>1, <2>2, ConcatElements
    <3> QED BY <1>2, <2>1, <2>2, <3>1, <3>2, <3>3 DEF AddedSoFar
  <2> QED BY <2>3, <2>4
<1>5. AddedSoFar(c, N, Filled!FoldLeft(AddUnlessFull, <<>>, lists))
  BY <1>1, <1>3, <1>4, Filled!FoldHolds
<1>6. Filled!FoldLeft(AddUnlessFull, <<>>, lists) = UntilFull(lists)
  BY DEF UntilFull, Filled!FoldLeft, FoldLeft, Filled!MapThenFoldSet, MapThenFoldSet,
         Filled!Max, Max
<1>7. UpTo(lists, N) = UNION {ToSet(lists[k]) : k \in DOMAIN lists}
  BY <1>1 DEF UpTo
<1> QED BY <1>2, <1>5, <1>6, <1>7 DEF AddedSoFar

(* What an import of Axe has found.                                        *)
Entries == [violation : BOOLEAN, finding : FindingRecords]
Documents == [valid : BOOLEAN, entries : Seq(Entries)]

AllViolate(entries) == \A e \in ToSet(entries) : e.violation

EntriesUpTo(entries, k) == {entries[j].finding : j \in {i \in 1..k : entries[i].violation}}

(* Of one document, c = [found, entries].                                  *)
ViolationsSoFar(c, k, a) ==
  /\ a \in Seq(FindingRecords)
  /\ Len(a) <= Len(c.found) + k
  /\ ToSet(a) = ToSet(c.found) \cup EntriesUpTo(c.entries, k)
  /\ AllViolate(c.entries) => Len(a) = Len(c.found) + k

Imported == INSTANCE FoldTheorems WITH Op <- AddViolation, Holds <- ViolationsSoFar

LEMMA ViolationsFacts ==
  ASSUME NEW found \in Seq(FindingRecords), NEW entries \in Seq(Entries)
  PROVE  ViolationsSoFar([found |-> found, entries |-> entries], Len(entries),
                         FoldLeft(AddViolation, found, entries))
<1> DEFINE c == [found |-> found, entries |-> entries]
           N == Len(entries)
<1>1. N \in Nat /\ DOMAIN entries = 1..N /\ \A k \in 1..N : entries[k] \in Entries
  OBVIOUS
<1>2. c.found = found /\ c.entries = entries
  OBVIOUS
<1> HIDE DEF c, N
<1>3. ViolationsSoFar(c, 0, found)
  <2>1. EntriesUpTo(entries, 0) = {} /\ Len(found) \in Nat
    BY DEF EntriesUpTo
  <2>2. Len(found) <= Len(found) + 0 /\ Len(found) = Len(found) + 0
    BY <2>1
  <2> QED BY <1>2, <2>1, <2>2 DEF ViolationsSoFar
<1>4. ASSUME NEW k \in 1..N, NEW a, ViolationsSoFar(c, k - 1, a)
      PROVE  ViolationsSoFar(c, k, AddViolation(a, entries[k]))
  <2>1. /\ a \in Seq(FindingRecords) /\ Len(a) <= Len(found) + (k - 1)
        /\ ToSet(a) = ToSet(found) \cup EntriesUpTo(entries, k - 1)
        /\ AllViolate(entries) => Len(a) = Len(found) + (k - 1)
    BY <1>2, <1>4 DEF ViolationsSoFar
  <2>2. Len(a) \in Nat /\ Len(found) \in Nat /\ k \in Nat
    BY <1>1, <2>1
  <2>3. 1..k = 1..(k - 1) \cup {k}
    BY <1>1
  <2>4. entries[k] \in ToSet(entries)
    BY <1>1 DEF ToSet
  <2>5. CASE entries[k].violation
    <3>1. AddViolation(a, entries[k]) = Append(a, entries[k].finding)
      BY <2>5 DEF AddViolation
    <3>2. entries[k].finding \in FindingRecords
      BY <1>1 DEF Entries
    <3>3. /\ Append(a, entries[k].finding) \in Seq(FindingRecords)
          /\ Len(Append(a, entries[k].finding)) = Len(a) + 1
          /\ ToSet(Append(a, entries[k].finding)) = ToSet(a) \cup {entries[k].finding}
      BY <2>1, <3>2, AppendElements
    <3>4. EntriesUpTo(entries, k) = EntriesUpTo(entries, k - 1) \cup {entries[k].finding}
      BY <2>3, <2>5 DEF EntriesUpTo
    <3>5. Len(a) + 1 <= Len(found) + k /\ (AllViolate(entries) => Len(a) + 1 = Len(found) + k)
      BY <2>1, <2>2
    <3> QED BY <1>2, <2>1, <3>1, <3>3, <3>4, <3>5 DEF ViolationsSoFar
  <2>6. CASE ~entries[k].violation
    <3>1. AddViolation(a, entries[k]) = a /\ ~AllViolate(entries)
      BY <2>4, <2>6 DEF AddViolation, AllViolate
    <3>2. EntriesUpTo(entries, k) = EntriesUpTo(entries, k - 1)
      BY <2>3, <2>6 DEF EntriesUpTo
    <3>3. Len(a) <= Len(found) + k
      BY <2>1, <2>2
    <3> QED BY <1>2, <2>1, <3>1, <3>2, <3>3 DEF ViolationsSoFar
  <2> QED BY <2>5, <2>6
<1>5. ViolationsSoFar(c, N, Imported!FoldLeft(AddViolation, found, entries))
  BY <1>1, <1>3, <1>4, Imported!FoldHolds
<1>6. Imported!FoldLeft(AddViolation, found, entries) = FoldLeft(AddViolation, found, entries)
  BY DEF Imported!FoldLeft, FoldLeft, Imported!MapThenFoldSet, MapThenFoldSet, Imported!Max, Max
<1> QED BY <1>5, <1>6 DEF c, N

(* Of several documents.                                                   *)
ViolationsUpTo(documents, k) == UNION {ViolationsIn(documents[j].entries) : j \in 1..k}

ImportedSoFar(c, k, a) ==
  /\ a \in Seq(FindingRecords) /\ Len(a) <= MaxFindings
  /\ ToSet(a) \subseteq ViolationsUpTo(c, k)
  /\ (\A d \in DOMAIN c : AllViolate(c[d].entries)) /\ Len(a) < MaxFindings =>
        ToSet(a) = ViolationsUpTo(c, k)

Read == INSTANCE FoldTheorems WITH Op <- Import, Holds <- ImportedSoFar

LEMMA ViolationsInAre ==
  ASSUME NEW entries \in Seq(Entries)
  PROVE  ViolationsIn(entries) = EntriesUpTo(entries, Len(entries))
BY DEF ViolationsIn, EntriesUpTo, ToSet

LEMMA ImportFacts ==
  ASSUME NEW c \in Seq(Documents), NEW k \in 1..Len(c), NEW a, ImportedSoFar(c, k - 1, a)
  PROVE  ImportedSoFar(c, k, Import(a, c[k]))
<1> DEFINE room == MaxFindings - Len(a)
           entries == c[k].entries
           looked == FirstOf(entries, room)
           found == FoldLeft(AddViolation, a, looked)
<1>1. /\ a \in Seq(FindingRecords) /\ Len(a) <= MaxFindings
      /\ ToSet(a) \subseteq ViolationsUpTo(c, k - 1)
      /\ (\A d \in DOMAIN c : AllViolate(c[d].entries)) /\ Len(a) < MaxFindings =>
            ToSet(a) = ViolationsUpTo(c, k - 1)
  BY DEF ImportedSoFar
<1>2. room \in Nat /\ Len(a) \in Nat /\ room + Len(a) = MaxFindings
  BY <1>1, AnalyserLimits
<1>3. entries \in Seq(Entries)
  <2>1. c[k] \in Documents
    OBVIOUS
  <2> QED BY <2>1 DEF Documents
<1>4. Import(a, c[k]) = found
  BY DEF Import
<1>5. k \in Nat \ {0} /\ 1..k = 1..(k - 1) \cup {k} /\ k \in DOMAIN c
  OBVIOUS
<1>6. ViolationsUpTo(c, k) = ViolationsUpTo(c, k - 1) \cup ViolationsIn(entries)
  BY <1>5 DEF ViolationsUpTo
<1> HIDE DEF room, entries
<1>7. /\ looked \in Seq(Entries) /\ ToSet(looked) \subseteq ToSet(entries)
      /\ Len(looked) <= room /\ (Len(looked) < room => looked = entries)
      /\ (Len(entries) <= room => looked = entries) /\ (room < Len(entries) => Len(looked) = room)
  BY <1>2, <1>3, FirstOfFacts
<1> HIDE DEF looked
<1>8. ViolationsSoFar([found |-> a, entries |-> looked], Len(looked), found)
  BY <1>1, <1>7, ViolationsFacts
<1> HIDE DEF found
<1>9. /\ found \in Seq(FindingRecords) /\ Len(found) <= Len(a) + Len(looked)
      /\ ToSet(found) = ToSet(a) \cup ViolationsIn(looked)
      /\ AllViolate(looked) => Len(found) = Len(a) + Len(looked)
  BY <1>7, <1>8, ViolationsInAre DEF ViolationsSoFar
<1>10. Len(found) \in Nat /\ Len(looked) \in Nat /\ Len(entries) \in Nat
  BY <1>3, <1>7, <1>9
<1>11. Len(found) <= MaxFindings
  BY <1>2, <1>7, <1>9, <1>10
<1>12. ViolationsIn(looked) \subseteq ViolationsIn(entries)
  BY <1>7 DEF ViolationsIn
<1>13. ASSUME \A d \in DOMAIN c : AllViolate(c[d].entries), Len(found) < MaxFindings
       PROVE  ToSet(found) = ViolationsUpTo(c, k)
  <2>1. AllViolate(entries)
    BY <1>5, <1>13 DEF entries
  <2>2. AllViolate(looked)
    BY <2>1, <1>7 DEF AllViolate
  <2>3. Len(a) + Len(looked) < MaxFindings
    BY <2>2, <1>9, <1>13
  <2>4. Len(looked) < room /\ Len(a) < MaxFindings
    BY <2>3, <1>2, <1>10, AnalyserLimits
  <2>5. ToSet(a) = ViolationsUpTo(c, k - 1) /\ looked = entries
    BY <2>4, <1>1, <1>7, <1>13
  <2> QED BY <2>5, <1>6, <1>9
<1>14. ToSet(found) \subseteq ViolationsUpTo(c, k)
  BY <1>1, <1>6, <1>9, <1>12
<1> QED BY <1>4, <1>9, <1>11, <1>13, <1>14 DEF ImportedSoFar

LEMMA AxeFacts ==
  ASSUME NEW documents \in Seq(Documents)
  PROVE  LET answer == AxeResults(documents)
             there == UNION {ViolationsIn(documents[d].entries) : d \in DOMAIN documents}
         IN  /\ answer.status \in Statuses /\ answer.list \in Seq(FindingRecords)
             /\ ToSet(answer.list) \subseteq there
             /\ answer.status = "completed"
                  /\ (\A d \in DOMAIN documents : AllViolate(documents[d].entries)) =>
                     there \subseteq ToSet(answer.list)
<1> DEFINE read == FirstOf(documents, MaxDocuments)
           found == FoldLeft(Import, <<>>, read)
           N == Len(read)
           answer == AxeResults(documents)
           there == UNION {ViolationsIn(documents[d].entries) : d \in DOMAIN documents}
           Whole == \A d \in DOMAIN documents : AllViolate(documents[d].entries)
<1>1. /\ read \in Seq(Documents) /\ (Len(read) < MaxDocuments => read = documents)
      /\ \A k \in DOMAIN read : k \in DOMAIN documents /\ read[k] = documents[k]
  BY FirstOfFacts, AnalyserLimits
<1>2. answer = IF documents = <<>> THEN Unfound
               ELSE IF \E d \in DOMAIN read : ~read[d].valid THEN [status |-> "failed", list |-> <<>>]
               ELSE Outcome(Len(found) >= MaxFindings \/ Len(read) >= MaxDocuments, found)
  BY DEF AxeResults
<1> HIDE DEF read, answer
<1>3. N \in Nat /\ DOMAIN read = 1..N /\ N = Len(read)
  BY <1>1
<1>4. ImportedSoFar(read, 0, <<>>)
  <2>1. ViolationsUpTo(read, 0) = {} /\ ToSet(<<>>) = {} /\ <<>> \in Seq(FindingRecords)
    BY DEF ViolationsUpTo, ToSet
  <2>2. Len(<<>>) = 0 /\ 0 <= MaxFindings
    BY AnalyserLimits
  <2> QED BY <2>1, <2>2 DEF ImportedSoFar
<1>5. ASSUME NEW k \in 1..N, NEW a, ImportedSoFar(read, k - 1, a)
      PROVE  ImportedSoFar(read, k, Import(a, read[k]))
  BY <1>1, <1>3, <1>5, ImportFacts
<1> HIDE DEF N
<1>6. ImportedSoFar(read, N, Read!FoldLeft(Import, <<>>, read))
  BY <1>3, <1>4, <1>5, Read!FoldHolds
<1>7. Read!FoldLeft(Import, <<>>, read) = found
  BY DEF Read!FoldLeft, FoldLeft, Read!MapThenFoldSet, MapThenFoldSet, Read!Max, Max
<1> HIDE DEF found
<1>8. ViolationsUpTo(read, N) \subseteq there
  BY <1>1, <1>3 DEF ViolationsUpTo
<1>9. /\ found \in Seq(FindingRecords) /\ ToSet(found) \subseteq there /\ Len(found) \in Nat
      /\ (\A d \in DOMAIN read : AllViolate(read[d].entries)) /\ Len(found) < MaxFindings =>
            ToSet(found) = ViolationsUpTo(read, N)
  BY <1>6, <1>7, <1>8 DEF ImportedSoFar
<1>10. ToSet(<<>>) = {} /\ <<>> \in Seq(FindingRecords)
  BY DEF ToSet
<1>11. CASE documents = <<>>
  <2>1. answer = Unfound
    BY <1>2, <1>11
  <2> HIDE DEF there, Whole
  <2>2. answer.status = "skipped" /\ answer.list = <<>>
    BY <2>1 DEF Unfound
  <2> QED BY <2>2, <1>10 DEF Statuses, answer, there
<1>12. CASE documents # <<>> /\ \E d \in DOMAIN read : ~read[d].valid
  <2>1. answer = [status |-> "failed", list |-> <<>>]
    BY <1>2, <1>12
  <2> HIDE DEF there, Whole
  <2> QED BY <2>1, <1>10 DEF Statuses, answer, there
<1>13. CASE documents # <<>> /\ ~(\E d \in DOMAIN read : ~read[d].valid)
  <2>1. answer = Outcome(Len(found) >= MaxFindings \/ Len(read) >= MaxDocuments, found)
    BY <1>2, <1>13
  <2>2. answer.list = found /\ answer.status \in Statuses
    BY <2>1 DEF Outcome, Statuses
  <2>3. ASSUME answer.status = "completed", Whole PROVE there \subseteq ToSet(answer.list)
    <3>1. ~(Len(found) >= MaxFindings) /\ ~(Len(read) >= MaxDocuments)
      BY <2>1, <2>3 DEF Outcome
    <3>2. Len(found) < MaxFindings /\ read = documents
      BY <3>1, <1>1, <1>3, <1>9, AnalyserLimits
    <3>3. ToSet(found) = ViolationsUpTo(read, N)
      BY <3>2, <1>9, <2>3
    <3>4. ViolationsUpTo(read, N) = there
      BY <3>2, <1>3 DEF ViolationsUpTo
    <3> QED BY <3>3, <3>4, <2>2
  <2> HIDE DEF there, Whole
  <2>4. ToSet(answer.list) \subseteq there /\ answer.list \in Seq(FindingRecords)
    BY <2>2, <1>9
  <2> QED BY <2>2, <2>3, <2>4 DEF answer, there, Whole
<1> QED BY <1>11, <1>12, <1>13

-----------------------------------------------------------------------------
(* What an analyser answers: a run and findings of their types; and, if it *)
(* says that it reached the end, all there was to find, unless it is one   *)
(* of the cuts that are not told of.                                       *)
Tells(answer, there, unspoken) ==
  /\ answer.status \in Statuses /\ answer.list \in Seq(FindingRecords)
  /\ answer.status = "completed" /\ ~unspoken => there \subseteq ToSet(answer.list)

List == Seq(FindingRecords)
Files == Seq([parsed : BOOLEAN, list : List, deeper : List])

AllIn(lists) == UNION {ToSet(lists[k]) : k \in DOMAIN lists}

LEMMA ListConcat ==
  ASSUME NEW s \in List, NEW t \in List
  PROVE  /\ s \o t \in List /\ Len(s \o t) = Len(s) + Len(t)
         /\ ToSet(s \o t) = ToSet(s) \cup ToSet(t)
BY ConcatElements DEF List

LEMMA OutcomeFacts ==
  ASSUME NEW partial, NEW list, NEW there, NEW unspoken,
         list \in List, ~partial /\ ~unspoken => there \subseteq ToSet(list)
  PROVE  Tells(Outcome(partial, list), there, unspoken)
BY DEF Tells, Outcome, Statuses, List

LEMMA UnfoundTells == ASSUME NEW there, NEW unspoken PROVE Tells(Unfound, there, unspoken)
BY DEF Tells, Unfound, Statuses

LEMMA BoundedFacts ==
  ASSUME NEW list \in List
  PROVE  /\ Bounded(list) \in List /\ Len(Bounded(list)) \in Nat
         /\ Len(Bounded(list)) <= MaxFindings
         /\ ~(Len(Bounded(list)) >= MaxFindings) => Bounded(list) = list
         /\ Len(list) \in Nat /\ (~(Len(list) > MaxFindings) => Bounded(list) = list)
         /\ Len(Bounded(list)) <= Len(list)
<1>1. /\ Bounded(list) \in Seq(FindingRecords) /\ Len(Bounded(list)) <= MaxFindings
      /\ Len(Bounded(list)) <= Len(list)
      /\ Len(Bounded(list)) < MaxFindings => Bounded(list) = list
      /\ Len(list) <= MaxFindings => Bounded(list) = list
  BY FirstOfFacts, AnalyserLimits DEF Bounded, List
<1>2. Len(list) \in Nat /\ Len(Bounded(list)) \in Nat
  BY <1>1 DEF List
<1> QED BY <1>1, <1>2, AnalyserLimits DEF List

LEMMA FilesFacts ==
  ASSUME NEW files \in Files
  PROVE  /\ DOMAIN files = 1..Len(files) /\ Len(files) \in Nat
         /\ \A f \in DOMAIN files : files[f].list \in List
<1> DEFINE Record == [parsed : BOOLEAN, list : List, deeper : List]
<1>1. files \in Seq(Record)
  BY DEF Files
<1>2. \A r \in Record : r.list \in List
  OBVIOUS
<1> HIDE DEF Record
<1>3. DOMAIN files = 1..Len(files) /\ Len(files) \in Nat /\ \A f \in DOMAIN files : files[f] \in Record
  BY <1>1
<1> QED BY <1>2, <1>3

LEMMA ListsFacts ==
  ASSUME NEW files \in Files
  PROVE  Lists(files) \in Seq(List) /\ AllIn(Lists(files)) = ListedIn(files)
<1>1. DOMAIN files = 1..Len(files) /\ Len(files) \in Nat
      /\ \A f \in DOMAIN files : files[f].list \in List
  BY FilesFacts
<1>2. /\ Lists(files) = [f \in 1..Len(files) |-> files[f].list]
      /\ \A f \in 1..Len(files) : files[f].list \in List
  BY <1>1 DEF Lists
<1>3. Lists(files) \in Seq(List)
  BY <1>1, <1>2
<1> QED BY <1>1, <1>2, <1>3 DEF AllIn, ListedIn

(* Each list of some files cut to the limit.                               *)
LEMMA CutListsFacts ==
  ASSUME NEW files \in Files
  PROVE  LET cut == [f \in DOMAIN files |-> Bounded(files[f].list)]
         IN  /\ cut \in Seq(List) /\ FlattenSeq(cut) \in List
             /\ Len(FlattenSeq(cut)) < MaxFindings => ToSet(FlattenSeq(cut)) = ListedIn(files)
<1> DEFINE cut == [f \in DOMAIN files |-> Bounded(files[f].list)]
<1>1. DOMAIN files = 1..Len(files) /\ Len(files) \in Nat
      /\ \A f \in DOMAIN files : files[f].list \in List
  BY FilesFacts
<1>2. \A f \in 1..Len(files) : Bounded(files[f].list) \in List
  BY <1>1, BoundedFacts
<1>3. cut \in Seq(List) /\ DOMAIN cut = DOMAIN files
  BY <1>1, <1>2
<1>4. \A f \in DOMAIN files : cut[f] = Bounded(files[f].list)
  OBVIOUS
<1> HIDE DEF cut
<1>5. /\ FlattenSeq(cut) \in Seq(FindingRecords)
      /\ ToSet(FlattenSeq(cut)) = UNION {ToSet(cut[k]) : k \in DOMAIN cut}
      /\ \A k \in DOMAIN cut : Len(cut[k]) <= Len(FlattenSeq(cut))
  BY <1>3, FlattenFacts DEF List
<1>6. ASSUME Len(FlattenSeq(cut)) < MaxFindings
      PROVE  ToSet(FlattenSeq(cut)) = ListedIn(files)
  <2>1. ASSUME NEW f \in DOMAIN files PROVE cut[f] = files[f].list
    <3>1. Len(cut[f]) <= Len(FlattenSeq(cut)) /\ Len(cut[f]) \in Nat
      BY <1>1, <1>3, <1>4, <1>5, BoundedFacts
    <3>2. Len(FlattenSeq(cut)) \in Nat
      BY <1>5
    <3>3. ~(Len(cut[f]) >= MaxFindings)
      BY <3>1, <3>2, <1>6, AnalyserLimits
    <3> QED BY <3>3, <1>1, <1>4, BoundedFacts
  <2> QED BY <2>1, <1>3, <1>5 DEF ListedIn
<1>7. FlattenSeq(cut) \in List
  BY <1>5 DEF List
<1> QED BY <1>3, <1>6, <1>7 DEF cut

LEMMA PatternsTell ==
  ASSUME NEW files \in Files, NEW cut PROVE Tells(Patterns(files, cut), ListedIn(files), FALSE)
<1> DEFINE all == FlattenSeq(Lists(files))
           found == Bounded(all)
<1>1. all \in List /\ ToSet(all) = ListedIn(files)
  BY ListsFacts, FlattenFacts DEF List, AllIn
<1> HIDE DEF all
<1>2. found \in List /\ (~(Len(found) >= MaxFindings) => found = all)
  BY <1>1, BoundedFacts
<1>3. Patterns(files, cut) = Outcome(Len(found) >= MaxFindings \/ cut, found)
  BY DEF Patterns, all
<1> HIDE DEF found
<1> QED BY <1>1, <1>2, <1>3, OutcomeFacts

LEMMA PostureTells ==
  ASSUME NEW list \in List, NEW cut PROVE Tells(Posture(list, cut), ToSet(list), FALSE)
<1> DEFINE found == Bounded(list)
<1>1. found \in List /\ (~(Len(found) >= MaxFindings) => found = list)
  BY BoundedFacts
<1>2. Posture(list, cut) = Outcome(Len(found) >= MaxFindings \/ cut, found)
  BY DEF Posture
<1> HIDE DEF found
<1> QED BY <1>1, <1>2, OutcomeFacts

LEMMA SupplyChainTells ==
  ASSUME NEW list \in List, NEW manifests, NEW cut
  PROVE  Tells(SupplyChain(list, manifests, cut), ToSet(list), FALSE)
<1> DEFINE found == Bounded(list)
           many == Len(list) > Len(found)
<1>1. found \in List /\ Len(found) \in Nat /\ Len(list) \in Nat /\ Len(found) <= Len(list)
      /\ Len(found) <= MaxFindings /\ (Len(found) < MaxFindings => found = list)
      /\ (Len(list) <= MaxFindings => found = list)
  BY BoundedFacts, AnalyserLimits
<1>2. ~many => found = list
  BY <1>1, AnalyserLimits
<1>3. SupplyChain(list, manifests, cut) =
        IF many \/ cut THEN Outcome(TRUE, found)
        ELSE IF manifests THEN Outcome(FALSE, found) ELSE [Unfound EXCEPT !.list = found]
  BY DEF SupplyChain
<1> HIDE DEF found, many
<1>4. Tells(Outcome(TRUE, found), ToSet(list), FALSE)
  BY <1>1, OutcomeFacts
<1>5. ~many => Tells(Outcome(FALSE, found), ToSet(list), FALSE)
  BY <1>1, <1>2, OutcomeFacts
<1>6. Tells([Unfound EXCEPT !.list = found], ToSet(list), FALSE)
  BY <1>1 DEF Tells, Unfound, Statuses, List
<1> QED BY <1>3, <1>4, <1>5, <1>6

LEMMA WebPostureTells ==
  ASSUME NEW roots \in Seq(List), NEW cut
  PROVE  Tells(WebPosture(roots, cut), AllIn(roots), FALSE)
<1>1. FlattenSeq(roots) \in List /\ ToSet(FlattenSeq(roots)) = AllIn(roots)
  BY FlattenFacts DEF List, AllIn
<1>2. Tells(Outcome(cut, FlattenSeq(roots)), AllIn(roots), FALSE)
  BY <1>1, OutcomeFacts
<1> QED BY <1>2, UnfoundTells DEF WebPosture

LEMMA ReviewTells ==
  ASSUME NEW files \in Files, NEW cut PROVE Tells(Review(files, cut), ListedIn(files), FALSE)
<1> DEFINE read == [f \in DOMAIN files |-> IF files[f].parsed THEN files[f].list ELSE <<>>]
           all == FlattenSeq(read)
           found == Bounded(all)
           unparsed == \E f \in DOMAIN files : ~files[f].parsed
<1>1. DOMAIN files = 1..Len(files) /\ Len(files) \in Nat
      /\ \A f \in DOMAIN files : files[f].list \in List
  BY FilesFacts
<1>2. \A f \in DOMAIN files : (IF files[f].parsed THEN files[f].list ELSE <<>>) \in List
  BY <1>1 DEF List
<1>3. read \in Seq(List) /\ DOMAIN read = DOMAIN files
  BY <1>1, <1>2
<1>4. ~unparsed => AllIn(read) = ListedIn(files)
  BY DEF AllIn, ListedIn
<1>5. Review(files, cut) =
        IF files = <<>> THEN Unfound
        ELSE Outcome(cut \/ unparsed \/ Len(found) >= MaxFindings, found)
  BY DEF Review
<1> HIDE DEF read, unparsed
<1>6. all \in List /\ ToSet(all) = AllIn(read)
  BY <1>3, FlattenFacts DEF List, AllIn
<1> HIDE DEF all
<1>7. found \in List /\ (~(Len(found) >= MaxFindings) => found = all)
  BY <1>6, BoundedFacts
<1> HIDE DEF found
<1>8. Tells(Outcome(cut \/ unparsed \/ Len(found) >= MaxFindings, found), ListedIn(files), FALSE)
  BY <1>4, <1>6, <1>7, OutcomeFacts
<1> QED BY <1>5, <1>8, UnfoundTells

LEMMA AstSecurityTells ==
  ASSUME NEW entrypoints \in Seq(List), NEW files \in Files, NEW flows \in List,
         NEW destinations \in List, NEW mapped
  PROVE  Tells(AstSecurity(entrypoints, files, flows, destinations, mapped),
               AllIn(entrypoints) \cup ListedIn(files) \cup ToSet(flows) \cup ToSet(destinations),
               FALSE)
<1> DEFINE a == UntilFull(entrypoints)
           b == UntilFull(Lists(files))
           e == Bounded(b)
           d == Bounded(flows)
           ae == a \o e
           aed == ae \o d
           found == aed \o destinations
           all == AllIn(entrypoints) \cup ListedIn(files) \cup ToSet(flows) \cup ToSet(destinations)
<1>1. a \in List /\ (Len(a) < MaxFindings => ToSet(a) = AllIn(entrypoints))
  BY UntilFullFacts DEF List, AllIn
<1>2. b \in List /\ (Len(b) < MaxFindings => ToSet(b) = ListedIn(files))
  BY ListsFacts, UntilFullFacts DEF List, AllIn
<1>3. AstSecurity(entrypoints, files, flows, destinations, mapped) =
        IF mapped = "unsupported" THEN Unfound
        ELSE Outcome(mapped = "partial" \/ Len(found) >= MaxFindings, Bounded(found))
  BY DEF AstSecurity
<1> HIDE DEF a, b
<1>4. e \in List /\ Len(e) \in Nat /\ (~(Len(e) >= MaxFindings) => e = b)
  BY <1>2, BoundedFacts
<1>5. d \in List /\ Len(d) \in Nat /\ (~(Len(d) >= MaxFindings) => d = flows)
  BY BoundedFacts
<1> HIDE DEF e, d
<1>6. ae \in List /\ Len(ae) = Len(a) + Len(e) /\ ToSet(ae) = ToSet(a) \cup ToSet(e)
  BY <1>1, <1>4, ListConcat
<1> HIDE DEF ae
<1>7. aed \in List /\ Len(aed) = Len(ae) + Len(d) /\ ToSet(aed) = ToSet(ae) \cup ToSet(d)
  BY <1>5, <1>6, ListConcat
<1> HIDE DEF aed
<1>8. /\ found \in List /\ Len(found) = Len(a) + Len(e) + Len(d) + Len(destinations)
      /\ ToSet(found) = ToSet(a) \cup ToSet(e) \cup ToSet(d) \cup ToSet(destinations)
  <2>1. /\ found \in List /\ Len(found) = Len(aed) + Len(destinations)
        /\ ToSet(found) = ToSet(aed) \cup ToSet(destinations)
    BY <1>7, ListConcat
  <2> QED BY <2>1, <1>6, <1>7
<1>9. Len(a) \in Nat /\ Len(destinations) \in Nat
  BY <1>1 DEF List
<1> HIDE DEF found
<1>10. Bounded(found) \in List /\ (~(Len(Bounded(found)) >= MaxFindings) => Bounded(found) = found)
       /\ (~(Len(found) > MaxFindings) => Bounded(found) = found)
  BY <1>8, BoundedFacts
<1>11. ASSUME ~(Len(found) >= MaxFindings) PROVE all \subseteq ToSet(Bounded(found))
  <2>1. /\ Len(a) < MaxFindings /\ ~(Len(e) >= MaxFindings) /\ ~(Len(d) >= MaxFindings)
        /\ ~(Len(found) > MaxFindings)
    BY <1>4, <1>5, <1>8, <1>9, <1>11, AnalyserLimits
  <2>2. Len(b) < MaxFindings
    BY <2>1, <1>2, <1>4, AnalyserLimits DEF List
  <2> QED BY <2>1, <2>2, <1>1, <1>2, <1>4, <1>5, <1>8, <1>10
<1> HIDE DEF all
<1>12. Tells(Outcome(mapped = "partial" \/ Len(found) >= MaxFindings, Bounded(found)), all, FALSE)
  BY <1>10, <1>11, OutcomeFacts
<1>13. Tells(AstSecurity(entrypoints, files, flows, destinations, mapped), all, FALSE)
  BY <1>3, <1>12, UnfoundTells
<1> QED BY <1>13 DEF all

LEMMA SaasSecurityTells ==
  ASSUME NEW files \in Files, NEW mapped, NEW cut
  PROVE  Tells(SaasSecurity(files, mapped, cut), ListedIn(files) \cup DeeperIn(files),
               DeeperIn(files) # {})
<1> DEFINE read == FirstOf(files, MaxSaasFiles)
           all == FlattenSeq([f \in DOMAIN read |-> Bounded(read[f].list)])
           found == Bounded(all)
           partial == mapped = "partial" \/ cut \/ Len(read) >= MaxSaasFiles
                        \/ Len(found) >= MaxFindings
<1>1. read \in Files /\ Len(read) \in Nat /\ (Len(read) < MaxSaasFiles => read = files)
  <2> DEFINE Record == [parsed : BOOLEAN, list : List, deeper : List]
  <2>1. files \in Seq(Record) /\ MaxSaasFiles \in Nat
    BY AnalyserLimits DEF Files
  <2> HIDE DEF Record
  <2>2. read \in Seq(Record) /\ (Len(read) < MaxSaasFiles => read = files)
    BY <2>1, FirstOfFacts
  <2>3. Len(read) \in Nat
    BY <2>2
  <2> HIDE DEF read
  <2> QED BY <2>2, <2>3 DEF Files, Record
<1>2. SaasSecurity(files, mapped, cut) =
        IF mapped = "unsupported" THEN Unfound ELSE Outcome(partial, found)
  BY DEF SaasSecurity
<1> HIDE DEF read
<1>3. all \in List /\ (Len(all) < MaxFindings => ToSet(all) = ListedIn(read))
  BY <1>1, CutListsFacts
<1> HIDE DEF all
<1>4. /\ found \in List /\ Len(found) \in Nat
      /\ ~(Len(found) >= MaxFindings) => found = all
  BY <1>3, BoundedFacts
<1> HIDE DEF found
<1>5. ASSUME ~partial PROVE ListedIn(files) \subseteq ToSet(found)
  <2>1. ~(Len(read) >= MaxSaasFiles) /\ ~(Len(found) >= MaxFindings)
    BY <1>5
  <2>2. read = files /\ Len(all) < MaxFindings /\ found = all
    BY <2>1, <1>1, <1>4, AnalyserLimits
  <2> QED BY <2>2, <1>3
<1> HIDE DEF partial
<1>6. Tells(Outcome(partial, found), ListedIn(files) \cup DeeperIn(files), DeeperIn(files) # {})
  BY <1>4, <1>5, OutcomeFacts
<1> QED BY <1>2, <1>6, UnfoundTells

(* The two that do not tell of a list that fills the limit exactly.        *)
LEMMA ExactTells ==
  ASSUME NEW found \in List, NEW all, NEW partial,
         Len(found) < MaxFindings => all \subseteq ToSet(found),
         ~partial => ~(Len(found) > MaxFindings)
  PROVE  Tells(Outcome(partial, Bounded(found)), all, Len(Bounded(found)) = MaxFindings)
<1>1. /\ Bounded(found) \in List /\ Len(Bounded(found)) \in Nat /\ Len(found) \in Nat
      /\ Len(Bounded(found)) <= MaxFindings
      /\ ~(Len(found) > MaxFindings) => Bounded(found) = found
  BY BoundedFacts
<1>2. ASSUME ~partial, ~(Len(Bounded(found)) = MaxFindings) PROVE all \subseteq ToSet(Bounded(found))
  <2>1. Bounded(found) = found
    BY <1>1, <1>2
  <2>2. Len(found) < MaxFindings
    BY <1>1, <1>2, <2>1, AnalyserLimits
  <2> QED BY <2>1, <2>2
<1> QED BY <1>1, <1>2, OutcomeFacts

LEMMA ReactSecurityTells ==
  ASSUME NEW files \in Files, NEW elements \in Seq(List), NEW jsx, NEW cut
  PROVE  Tells(ReactSecurity(jsx, files, elements, cut), ListedIn(files) \cup AllIn(elements),
               Len(ReactSecurity(jsx, files, elements, cut).list) = MaxFindings)
<1> DEFINE a == FlattenSeq([f \in DOMAIN files |-> Bounded(files[f].list)])
           b == UntilFull(elements)
           found == a \o b
           answer == ReactSecurity(jsx, files, elements, cut)
           partial == cut \/ Len(found) > MaxFindings
           all == ListedIn(files) \cup AllIn(elements)
<1>1. a \in List /\ (Len(a) < MaxFindings => ToSet(a) = ListedIn(files))
  BY CutListsFacts
<1>2. b \in List /\ (Len(b) < MaxFindings => ToSet(b) = AllIn(elements))
  BY UntilFullFacts DEF List, AllIn
<1>3. answer = IF ~jsx THEN Unfound ELSE Outcome(partial, Bounded(found))
  BY DEF ReactSecurity
<1> HIDE DEF a, b, answer
<1>4. found \in List /\ Len(found) = Len(a) + Len(b) /\ ToSet(found) = ToSet(a) \cup ToSet(b)
  BY <1>1, <1>2, ListConcat
<1>5. Len(a) \in Nat /\ Len(b) \in Nat
  BY <1>1, <1>2 DEF List
<1> HIDE DEF found
<1>6. ASSUME Len(found) < MaxFindings PROVE all \subseteq ToSet(found)
  <2>1. Len(a) < MaxFindings /\ Len(b) < MaxFindings
    BY <1>4, <1>5, <1>6, AnalyserLimits
  <2> QED BY <2>1, <1>1, <1>2, <1>4
<1>7. ~partial => ~(Len(found) > MaxFindings)
  OBVIOUS
<1> HIDE DEF partial, all
<1>8. Tells(Outcome(partial, Bounded(found)), all, Len(Bounded(found)) = MaxFindings)
  BY <1>4, <1>6, <1>7, ExactTells
<1>9. Outcome(partial, Bounded(found)).list = Bounded(found)
  BY DEF Outcome
<1>10. Tells(answer, all, Len(answer.list) = MaxFindings)
  <2>1. CASE ~jsx
    BY <1>3, <2>1, UnfoundTells
  <2>2. CASE ~~jsx
    <3>1. answer = Outcome(partial, Bounded(found))
      BY <1>3, <2>2
    <3> QED BY <1>8, <1>9, <3>1
  <2> QED BY <2>1, <2>2
<1> QED BY <1>10 DEF answer, all

LEMMA NextSecurityTells ==
  ASSUME NEW entrypoints \in Seq(List), NEW nodes \in Seq(List), NEW next, NEW mapped, NEW cut,
         NEW other, NEW list, list = NextSecurity(entrypoints, nodes, next, other, cut).list
  PROVE  Tells(NextSecurity(entrypoints, nodes, next, mapped, cut),
               AllIn(entrypoints) \cup AllIn(nodes), Len(list) = MaxFindings)
<1> DEFINE a == UntilFull(entrypoints)
           b == UntilFull(nodes)
           found == a \o b
           answer == NextSecurity(entrypoints, nodes, next, mapped, cut)
           partial == mapped = "partial" \/ cut \/ Len(found) > MaxFindings
           otherwise == other = "partial" \/ cut \/ Len(found) > MaxFindings
           all == AllIn(entrypoints) \cup AllIn(nodes)
<1>1. a \in List /\ (Len(a) < MaxFindings => ToSet(a) = AllIn(entrypoints))
  BY UntilFullFacts DEF List, AllIn
<1>2. b \in List /\ (Len(b) < MaxFindings => ToSet(b) = AllIn(nodes))
  BY UntilFullFacts DEF List, AllIn
<1>3. /\ answer = IF ~next THEN Unfound ELSE Outcome(partial, Bounded(found))
      /\ list = (IF ~next THEN Unfound ELSE Outcome(otherwise, Bounded(found))).list
  BY DEF NextSecurity
<1> HIDE DEF a, b, answer
<1>4. found \in List /\ Len(found) = Len(a) + Len(b) /\ ToSet(found) = ToSet(a) \cup ToSet(b)
  BY <1>1, <1>2, ListConcat
<1>5. Len(a) \in Nat /\ Len(b) \in Nat
  BY <1>1, <1>2 DEF List
<1> HIDE DEF found
<1>6. ASSUME Len(found) < MaxFindings PROVE all \subseteq ToSet(found)
  <2>1. Len(a) < MaxFindings /\ Len(b) < MaxFindings
    BY <1>4, <1>5, <1>6, AnalyserLimits
  <2> QED BY <2>1, <1>1, <1>2, <1>4
<1>7. ~partial => ~(Len(found) > MaxFindings)
  OBVIOUS
<1> HIDE DEF partial, otherwise, all
<1>8. Tells(Outcome(partial, Bounded(found)), all, Len(Bounded(found)) = MaxFindings)
  BY <1>4, <1>6, <1>7, ExactTells
<1>9. Outcome(otherwise, Bounded(found)).list = Bounded(found)
  BY DEF Outcome
<1>10. Tells(answer, all, Len(list) = MaxFindings)
  <2>1. CASE ~next
    BY <1>3, <2>1, UnfoundTells
  <2>2. CASE ~~next
    <3>1. answer = Outcome(partial, Bounded(found)) /\ list = Outcome(otherwise, Bounded(found)).list
      BY <1>3, <2>2
    <3> QED BY <1>8, <1>9, <3>1
  <2> QED BY <2>1, <2>2
<1> QED BY <1>10 DEF answer, all

-----------------------------------------------------------------------------
(* What any of the scanners answers, on whatever profile it was given.     *)
LEMMA CaseFacts ==
  ASSUME case \in Cases
  PROVE  LET r == case.raised
         IN  /\ r.patterns \in Files /\ r.posture \in List /\ r.boundaries \in Seq(List)
             /\ r.functions \in Files /\ r.flows \in List /\ r.destinations \in List
             /\ r.saas \in Files /\ r.clients \in Files /\ r.elements \in Seq(List)
             /\ r.routes \in Seq(List) /\ r.nodes \in Seq(List) /\ r.markup \in Files
             /\ r.axe \in Seq(Documents) /\ r.roots \in Seq(List) /\ r.personal \in Files
             /\ r.calls \in Files /\ r.manifests \in List /\ r.names \in List
             /\ case.contracts \in Statuses
             /\ \A s \in External : /\ case.outside[s].status \in Statuses
                                    /\ case.outside[s].list \in List
<1>1. /\ case.raised \in RaisedRecords /\ case.contracts \in Statuses
      /\ case.outside \in [External -> [status : Statuses, list : Seq(FindingRecords)]]
  BY CasesAssumption
<1>2. RaisedRecords =
        [patterns : Files, posture : List, boundaries : Seq(List), functions : Files,
         flows : List, destinations : List, saas : Files, clients : Files,
         elements : Seq(List), routes : Seq(List), nodes : Seq(List), markup : Files,
         axe : Seq(Documents), roots : Seq(List), personal : Files, calls : Files,
         manifests : List, names : List]
  BY DEF RaisedRecords, Files, List, Documents, Entries
<1> QED BY <1>1, <1>2 DEF List

LEMMA InIsAllIn == ASSUME NEW lists PROVE UNION {ToSet(lists[l]) : l \in DOMAIN lists} = AllIn(lists)
BY DEF AllIn

LEMMA ScansTell ==
  ASSUME case \in Cases, NEW s \in Scanners, NEW mapped
  PROVE  Tells(Scan(s, mapped), Findable(s), Unspoken(s))
<1> DEFINE r == case.raised
           cut == case.truncated
<1>0. /\ r.patterns \in Files /\ r.posture \in List /\ r.boundaries \in Seq(List)
      /\ r.functions \in Files /\ r.flows \in List /\ r.destinations \in List
      /\ r.saas \in Files /\ r.clients \in Files /\ r.elements \in Seq(List)
      /\ r.routes \in Seq(List) /\ r.nodes \in Seq(List) /\ r.markup \in Files
      /\ r.axe \in Seq(Documents) /\ r.roots \in Seq(List) /\ r.personal \in Files
      /\ r.calls \in Files /\ r.manifests \in List /\ r.names \in List
      /\ case.contracts \in Statuses
      /\ \A x \in External : case.outside[x].status \in Statuses /\ case.outside[x].list \in List
  BY CaseFacts
<1>1. CASE s = "builtin"
  <2>1. /\ Scan(s, mapped) = Patterns(r.patterns, cut) /\ Findable(s) = ListedIn(r.patterns)
        /\ Unspoken(s) = FALSE
    BY <1>1 DEF Scan, Findable, Unspoken, External
  <2> QED BY <2>1, <1>0, PatternsTell
<1>2. CASE s = "posture"
  <2>1. /\ Scan(s, mapped) = Posture(r.posture, cut) /\ Findable(s) = ToSet(r.posture)
        /\ Unspoken(s) = FALSE
    BY <1>2 DEF Scan, Findable, Unspoken, External
  <2> QED BY <2>1, <1>0, PostureTells
<1>3. CASE s = "ast-security"
  <2>1. /\ Scan(s, mapped) =
                AstSecurity(r.boundaries, r.functions, r.flows, r.destinations, mapped)
        /\ Findable(s) = AllIn(r.boundaries) \cup ListedIn(r.functions)
                            \cup ToSet(r.flows) \cup ToSet(r.destinations)
        /\ Unspoken(s) = FALSE
    BY <1>3 DEF Scan, Findable, Unspoken, External, AllIn
  <2> QED BY <2>1, <1>0, AstSecurityTells
<1>4. CASE s = "saas-security"
  <2>1. /\ Scan(s, mapped) = SaasSecurity(r.saas, mapped, cut)
        /\ Findable(s) = ListedIn(r.saas) \cup DeeperIn(r.saas)
        /\ Unspoken(s) = (DeeperIn(r.saas) # {})
    BY <1>4 DEF Scan, Findable, Unspoken, External
  <2> QED BY <2>1, <1>0, SaasSecurityTells
<1>5. CASE s = "react-security"
  <2>1. /\ Scan(s, mapped) = ReactSecurity(case.jsx, r.clients, r.elements, cut)
        /\ Scan(s, profile) = ReactSecurity(case.jsx, r.clients, r.elements, cut)
        /\ Findable(s) = ListedIn(r.clients) \cup AllIn(r.elements)
    BY <1>5 DEF Scan, Findable, External, AllIn
  <2>2. Unspoken(s) = (Len(Scan(s, profile).list) = MaxFindings)
    BY <1>5 DEF Unspoken
  <2>3. Tells(ReactSecurity(case.jsx, r.clients, r.elements, cut),
              ListedIn(r.clients) \cup AllIn(r.elements),
              Len(ReactSecurity(case.jsx, r.clients, r.elements, cut).list) = MaxFindings)
    BY <1>0, ReactSecurityTells
  <2> HIDE DEF r, cut
  <2> QED BY <2>1, <2>2, <2>3 DEF Tells
<1>6. CASE s = "next-security"
  <2>1. /\ Scan(s, mapped) = NextSecurity(r.routes, r.nodes, case.next, mapped, cut)
        /\ Scan(s, profile) = NextSecurity(r.routes, r.nodes, case.next, profile, cut)
        /\ Findable(s) = AllIn(r.routes) \cup AllIn(r.nodes)
    BY <1>6 DEF Scan, Findable, External, AllIn
  <2>2. Unspoken(s) = (Len(Scan(s, profile).list) = MaxFindings)
    BY <1>6 DEF Unspoken
  <2>3. Tells(NextSecurity(r.routes, r.nodes, case.next, mapped, cut),
              AllIn(r.routes) \cup AllIn(r.nodes), Len(Scan(s, profile).list) = MaxFindings)
    BY <2>1, <1>0, NextSecurityTells
  <2> HIDE DEF r, cut
  <2> QED BY <2>1, <2>2, <2>3 DEF Tells
<1>7. CASE s \in {"accessibility-static", "privacy-static", "reliability-static"}
  <2>1. ASSUME s = "accessibility-static" PROVE Tells(Scan(s, mapped), Findable(s), Unspoken(s))
    <3>1. /\ Scan(s, mapped) = Review(r.markup, cut) /\ Findable(s) = ListedIn(r.markup)
          /\ Unspoken(s) = FALSE
      BY <2>1 DEF Scan, Findable, Unspoken, External, AccessibilityStatic
    <3> QED BY <3>1, <1>0, ReviewTells
  <2>2. ASSUME s = "privacy-static" PROVE Tells(Scan(s, mapped), Findable(s), Unspoken(s))
    <3>1. /\ Scan(s, mapped) = Review(r.personal, cut) /\ Findable(s) = ListedIn(r.personal)
          /\ Unspoken(s) = FALSE
      BY <2>2 DEF Scan, Findable, Unspoken, External, PrivacyStatic
    <3> QED BY <3>1, <1>0, ReviewTells
  <2>3. ASSUME s = "reliability-static" PROVE Tells(Scan(s, mapped), Findable(s), Unspoken(s))
    <3>1. /\ Scan(s, mapped) = Review(r.calls, cut \/ mapped # "complete")
          /\ Findable(s) = ListedIn(r.calls) /\ Unspoken(s) = FALSE
      BY <2>3 DEF Scan, Findable, Unspoken, External, ReliabilityStatic
    <3> QED BY <3>1, <1>0, ReviewTells
  <2> QED BY <1>7, <2>1, <2>2, <2>3
<1>8. CASE s = "axe-results"
  <2>1. /\ Scan(s, mapped) = AxeResults(r.axe)
        /\ Findable(s) = UNION {ViolationsIn(r.axe[d].entries) : d \in DOMAIN r.axe}
    BY <1>8 DEF Scan, Findable, External
  <2>2. Unspoken(s) = ~(\A d \in DOMAIN r.axe : AllViolate(r.axe[d].entries))
    BY <1>8 DEF Unspoken, AllViolate
  <2>3. r.axe \in Seq(Documents)
    BY <1>0
  <2> HIDE DEF r
  <2> QED BY <2>1, <2>2, <2>3, AxeFacts DEF Tells
<1>9. CASE s = "web-posture"
  <2>1. /\ Scan(s, mapped) = WebPosture(r.roots, cut) /\ Findable(s) = AllIn(r.roots)
        /\ Unspoken(s) = FALSE
    BY <1>9 DEF Scan, Findable, Unspoken, External, AllIn
  <2> QED BY <2>1, <1>0, WebPostureTells
<1>10. CASE s = "supply-chain"
  <2>1. /\ Scan(s, mapped) = SupplyChain(r.manifests, case.manifests, cut)
        /\ Findable(s) = ToSet(r.manifests) /\ Unspoken(s) = FALSE
    BY <1>10 DEF Scan, Findable, Unspoken, External
  <2> QED BY <2>1, <1>0, SupplyChainTells
<1>11. CASE s = "environment-contract"
  <2>1. /\ Scan(s, mapped) = EnvironmentContract(r.names, case.contracts)
        /\ Findable(s) = {}
    BY <1>11 DEF Scan, Findable, External
  <2>2. Bounded(r.names) \in List
    BY <1>0, BoundedFacts
  <2> QED BY <2>1, <2>2, <1>0 DEF EnvironmentContract, Tells, List
<1>12. CASE s \in External
  <2>1. Scan(s, mapped) = case.outside[s] /\ Findable(s) = {}
    BY <1>12 DEF Scan, Findable, External
  <2> QED BY <2>1, <1>0, <1>12 DEF Tells, List
<1>13. CASE s = "project-profile"
  <2>1. Scan(s, mapped).status \in Statuses /\ Scan(s, mapped).list = <<>> /\ Findable(s) = {}
    BY <1>13 DEF Scan, Findable, External, Statuses
  <2> QED BY <2>1 DEF Tells
<1>14. CASE s \in {"test-evidence", "api-contract", "database-contract", "webhook-contract",
                   "feature-flags"}
  <2>1. /\ Scan(s, mapped) = [status |-> case.contracts, list |-> <<>>] /\ Findable(s) = {}
    BY <1>14 DEF Scan, Findable, External
  <2> QED BY <2>1, <1>0 DEF Tells
<1> HIDE DEF r, cut
<1> QED BY <1>1, <1>2, <1>3, <1>4, <1>5, <1>6, <1>7, <1>8, <1>9, <1>10, <1>11, <1>12, <1>13,
           <1>14 DEF Scanners, External

-----------------------------------------------------------------------------
(* What was merged: a scanner that ran has answered on the profile that    *)
(* was there, and everything it listed was found.                          *)
HasAnswered(s) ==
  runs[s] # "none" =>
    \/ ~Enabled(s) /\ runs[s] = "skipped"
    \/ Enabled(s) /\ \E mapped \in {"none", case.profile} :
            runs[s] = Scan(s, mapped).status /\ ToSet(Scan(s, mapped).list) \subseteq findings

RunInv ==
  /\ case \in Cases /\ profile \in {"none", case.profile}
  /\ runs \in [Scanners -> Statuses \cup {"none"}]
  /\ findings \subseteq FindingRecords
  /\ \A s \in Scanners : HasAnswered(s)

LEMMA CaseIsGiven ==
  ASSUME case' = case
  PROVE  /\ \A s : Enabled(s)' = Enabled(s)
         /\ \A s, mapped : Scan(s, mapped)' = Scan(s, mapped)
BY DEF Enabled, Scan

LEMMA ScannersAre == \A n : ScannersOf(n) \subseteq Scanners
BY DEF ScannersOf, Scanners

LEMMA AnswersTell ==
  ASSUME RunInv, NEW s \in Scanners
  PROVE  /\ Answer(s).status \in Statuses /\ Answer(s).list \in List
         /\ Enabled(s) => Answer(s) = Scan(s, profile)
         /\ ~Enabled(s) => Answer(s).status = "skipped"
<1>1. Tells(Scan(s, profile), Findable(s), Unspoken(s))
  BY ScansTell DEF RunInv
<1>2. Tells(Unfound, {}, FALSE) /\ Unfound.status = "skipped"
  BY UnfoundTells DEF Unfound
<1> QED BY <1>1, <1>2 DEF Answer, Tells, List

LEMMA RunStep == ASSUME RunInv, [AnalysisNext]_analysisVars PROVE RunInv'
<1>1. /\ case' = case
      /\ \A s : Enabled(s)' = Enabled(s)
      /\ \A s, mapped : Scan(s, mapped)' = Scan(s, mapped)
  <2>1. case' = case
    BY DEF AnalysisNext, AnalysisRound, analysisVars
  <2> QED BY <2>1, CaseIsGiven
<1>2. CASE UNCHANGED analysisVars
  <2>1. runs' = runs /\ findings' = findings /\ profile' = profile
    BY <1>2 DEF analysisVars
  <2>2. \A s \in Scanners : HasAnswered(s)'
    BY <1>1, <2>1 DEF RunInv, HasAnswered
  <2> QED BY <1>1, <2>1, <2>2 DEF RunInv
<1>3. CASE AnalysisRound
  <2> DEFINE S == ScannedBy(Starting)
  <2>1. S \subseteq Scanners
    BY ScannersAre DEF ScannedBy
  <2>2. /\ runs' = [s \in Scanners |-> IF s \in S THEN Answer(s).status ELSE runs[s]]
        /\ findings' = findings \cup UNION {ToSet(Answer(s).list) : s \in S}
        /\ profile' = IF "project_profile" \in Starting THEN case.profile ELSE profile
    BY <1>3 DEF AnalysisRound
  <2> HIDE DEF S
  <2>3. \A s \in S : Answer(s).status \in Statuses /\ ToSet(Answer(s).list) \subseteq FindingRecords
    <3> SUFFICES ASSUME NEW s \in S
                 PROVE  Answer(s).status \in Statuses /\ ToSet(Answer(s).list) \subseteq FindingRecords
      OBVIOUS
    <3>1. Answer(s).status \in Statuses /\ Answer(s).list \in Seq(FindingRecords)
      BY <2>1, AnswersTell DEF List
    <3> QED BY <3>1, ElementsOfSequence
  <2>4. runs' \in [Scanners -> Statuses \cup {"none"}]
    <3>1. \A s \in Scanners : runs[s] \in Statuses \cup {"none"}
      BY DEF RunInv
    <3> QED BY <2>2, <2>3, <3>1
  <2>5. findings' \subseteq FindingRecords /\ findings \subseteq findings'
    BY <2>2, <2>3 DEF RunInv
  <2>6. profile' \in {"none", case'.profile}
    BY <1>1, <2>2 DEF RunInv
  <2>7. ASSUME NEW s \in Scanners PROVE HasAnswered(s)'
    <3>1. CASE s \in S
      <4>1. runs'[s] = Answer(s).status
        BY <2>2, <3>1
      <4>2. ToSet(Answer(s).list) \subseteq findings'
        BY <2>2, <3>1
      <4>3. CASE Enabled(s)
        <5>1. Answer(s) = Scan(s, profile)
          BY <4>3, AnswersTell
        <5>2. profile \in {"none", case.profile}
          BY DEF RunInv
        <5> QED BY <1>1, <4>1, <4>2, <4>3, <5>1, <5>2 DEF HasAnswered
      <4>4. CASE ~Enabled(s)
        <5>1. Answer(s).status = "skipped"
          BY <4>4, AnswersTell
        <5> QED BY <1>1, <4>1, <4>4, <5>1 DEF HasAnswered
      <4> QED BY <4>3, <4>4
    <3>2. CASE s \notin S
      <4>1. runs'[s] = runs[s] /\ HasAnswered(s)
        BY <2>2, <3>2 DEF RunInv
      <4> QED BY <1>1, <2>5, <4>1 DEF HasAnswered
    <3> QED BY <3>1, <3>2
  <2> QED BY <1>1, <2>4, <2>5, <2>6, <2>7 DEF RunInv
<1> QED BY <1>2, <1>3 DEF AnalysisNext

LEMMA RunInit == AnalysisInit => RunInv
<1> SUFFICES ASSUME AnalysisInit PROVE RunInv
  OBVIOUS
<1>1. \A s \in Scanners : runs[s] = "none"
  BY DEF AnalysisInit
<1> QED BY <1>1 DEF AnalysisInit, RunInv, HasAnswered

LEMMA CompleteTellsAll == ASSUME RunInv PROVE CutsAreTold
<1> SUFFICES ASSUME NEW s \in Capabilities, Coverage(s) = "COMPLETE", ~Unspoken(s)
             PROVE  Findable(s) \subseteq findings
  BY DEF CutsAreTold
<1>1. s \in Scanners /\ runs[s] \in Statuses \cup {"none"} /\ HasAnswered(s)
  BY DEF Capabilities, RunInv
<1>2. runs[s] = "completed"
  BY <1>1 DEF Coverage, Statuses
<1>3. PICK mapped \in {"none", case.profile} :
        "completed" = Scan(s, mapped).status /\ ToSet(Scan(s, mapped).list) \subseteq findings
  BY <1>1, <1>2 DEF HasAnswered
<1>4. Tells(Scan(s, mapped), Findable(s), Unspoken(s))
  BY <1>1, ScansTell DEF RunInv
<1> QED BY <1>3, <1>4 DEF Tells

(* Coverage of a scanner that is COMPLETE has told of everything there was *)
(* to find, whatever the limits, the project and what else was found in it *)
(* (buildCoverage, and the limits of every analyser).                      *)
THEOREM CutsHold == AnalysisSpec => []CutsAreTold
<1>1. AnalysisInit => RunInv
  BY RunInit
<1>2. RunInv /\ [AnalysisNext]_analysisVars => RunInv'
  BY RunStep
<1>3. RunInv => CutsAreTold
  BY CompleteTellsAll
<1> QED BY <1>1, <1>2, <1>3, PTL DEF AnalysisSpec

-----------------------------------------------------------------------------
(* The findings that were normalised are those of a reconciliation, and    *)
(* the checklist is the one of the state that was merged before it.        *)
ReportInv ==
  /\ "normalize" \in done =>
        \E F \in Reconciliations(findings) : normalizedFindings = PreferStructural(F)
  /\ "prepare_report" \in done => checklist = SecurityChecklist(ChecklistInput)

(* Nothing is left to merge but the report once the findings are           *)
(* normalised.                                                             *)
LEMMA NormalizedLate ==
  ASSUME SeenInv
  PROVE  /\ "normalize" \in done => Starting \subseteq {"prepare_report"}
         /\ "prepare_report" \in done => "normalize" \in done /\ Starting = {}
         /\ "normalize" \in Starting => Starting = {"normalize"}
         /\ "prepare_report" \in Starting => "normalize" \in done
<1>1. NodesSeeWhatTheyRead /\ DOMAIN seen = done /\ \A n \in done : seen[n] \subseteq done
  BY AllIsSeen DEF SeenInv
<1>2. Starting \subseteq Range(NodeNames) \ done
      /\ \A n \in Starting : Predecessors(n) \subseteq done
  BY DEF Starting, Predecessors
<1>3. \A n \in done : Predecessors(n) \subseteq done
  BY DEF SeenInv
<1>4. "normalize" \in done => Range(NodeNames) \ {"normalize", "prepare_report"} \subseteq done
  <2> SUFFICES ASSUME "normalize" \in done
               PROVE  Range(NodeNames) \ {"normalize", "prepare_report"} \subseteq done
    OBVIOUS
  <2>1. Reads("normalize") \subseteq done
    BY <1>1 DEF NodesSeeWhatTheyRead
  <2>2. Reads("normalize") = Range(NodeNames) \ {"normalize", "prepare_report"}
    BY DEF Reads, ReadsProfile
  <2> QED BY <2>1, <2>2
<1>5. "prepare_report" \in done => "normalize" \in done
  BY <1>3, PredecessorsAre
<1>6. "prepare_report" \in Starting => "normalize" \in done
  BY <1>2, PredecessorsAre
<1>7. "normalize" \in Starting => Range(NodeNames) \ {"normalize", "prepare_report"} \subseteq done
  <2> SUFFICES ASSUME "normalize" \in Starting
               PROVE  Range(NodeNames) \ {"normalize", "prepare_report"} \subseteq done
    OBVIOUS
  <2>1. Normalized \subseteq done
    BY <1>2, PredecessorsAre
  <2>2. "patterns" \in Normalized /\ "patterns" \in OfSnapshot
        /\ "ast_security" \in Normalized /\ "ast_security" \in OfProfile
    BY DEF Normalized, OfSnapshot, OfProfile
  <2>3. "snapshot" \in done /\ "project_profile" \in done
    BY <2>1, <2>2, <1>3, PredecessorsAre
  <2> QED BY <2>1, <2>3, NodesAre
<1> QED BY <1>2, <1>4, <1>5, <1>6, <1>7

LEMMA ReportStep ==
  ASSUME SeenInv, RunInv, ReportInv, [AnalysisNext]_analysisVars
  PROVE  ReportInv'
<1>1. CASE UNCHANGED analysisVars
  <2>1. /\ done' = done /\ findings' = findings /\ normalizedFindings' = normalizedFindings
        /\ checklist' = checklist /\ case' = case /\ runs' = runs /\ profile' = profile
    BY <1>1 DEF analysisVars
  <2>2. Reconciliations(findings)' = Reconciliations(findings)
    BY <2>1 DEF Reconciliations
  <2>3. \A F : PreferStructural(F)' = PreferStructural(F)
    BY <2>1 DEF PreferStructural
  <2>4. ChecklistInput' = ChecklistInput
    BY <2>1 DEF ChecklistInput
  <2>5. \A i : SecurityChecklist(i)' = SecurityChecklist(i)
    OBVIOUS
  <2> QED BY <2>1, <2>2, <2>3, <2>4, <2>5 DEF ReportInv
<1>2. CASE AnalysisRound
  <2>1. /\ done' = done \cup Starting /\ case' = case
        /\ profile' = IF "project_profile" \in Starting THEN case.profile ELSE profile
        /\ runs' = [s \in Scanners |->
                        IF s \in ScannedBy(Starting) THEN Answer(s).status ELSE runs[s]]
        /\ findings' = findings \cup UNION {ToSet(Answer(s).list) : s \in ScannedBy(Starting)}
        /\ IF "normalize" \in Starting
           THEN \E F \in Reconciliations(findings) : normalizedFindings' = PreferStructural(F)
           ELSE UNCHANGED normalizedFindings
        /\ checklist' = IF "prepare_report" \in Starting
                        THEN SecurityChecklist(ChecklistInput) ELSE checklist
    BY <1>2 DEF AnalysisRound
  <2>2. /\ "normalize" \in done => Starting \subseteq {"prepare_report"}
        /\ "prepare_report" \in done => "normalize" \in done /\ Starting = {}
        /\ "normalize" \in Starting => Starting = {"normalize"}
        /\ "prepare_report" \in Starting => "normalize" \in done
    BY NormalizedLate
  <2>3. /\ ScannersOf("normalize") = {} /\ ScannersOf("prepare_report") = {}
    BY DEF ScannersOf
  <2>4. "normalize" \in done' => ScannedBy(Starting) = {} /\ "project_profile" \notin Starting
    <3>1. "normalize" \in done' => Starting \subseteq {"normalize", "prepare_report"}
      BY <2>1, <2>2
    <3>2. Starting \subseteq {"normalize", "prepare_report"} => ScannedBy(Starting) = {}
      BY <2>3 DEF ScannedBy
    <3> QED BY <3>1, <3>2
  <2>5. "normalize" \in done' => findings' = findings
    BY <2>1, <2>4
  <2>6. ASSUME "normalize" \in done'
        PROVE  \E F \in Reconciliations(findings)' : normalizedFindings' = PreferStructural(F)'
    <3>1. Reconciliations(findings)' = Reconciliations(findings)
      <4>1. case' = case /\ findings' = findings
        BY <2>1, <2>5, <2>6
      <4> QED BY <4>1 DEF Reconciliations
    <3>2. \A F : PreferStructural(F)' = PreferStructural(F)
      BY <2>1 DEF PreferStructural
    <3>3. CASE "normalize" \in Starting
      BY <2>1, <3>1, <3>2, <3>3
    <3>4. CASE "normalize" \notin Starting
      <4>1. "normalize" \in done /\ normalizedFindings' = normalizedFindings
        BY <2>1, <2>6, <3>4
      <4> QED BY <3>1, <3>2, <4>1 DEF ReportInv
    <3> QED BY <3>3, <3>4
  <2>7. ASSUME "prepare_report" \in done'
        PROVE  checklist' = SecurityChecklist(ChecklistInput')
    <3>1. "normalize" \in done /\ "normalize" \notin Starting
      <4>1. "normalize" \in done
        BY <2>1, <2>2, <2>7
      <4>2. Starting \cap done = {}
        BY DEF Starting
      <4> QED BY <4>1, <4>2
    <3>2. "normalize" \in done'
      BY <2>1, <3>1
    <3>3. findings' = findings /\ normalizedFindings' = normalizedFindings /\ profile' = profile
      BY <2>1, <2>4, <2>5, <3>1, <3>2
    <3>5. runs' = runs
      <4>1. runs = [s \in Scanners |-> runs[s]]
        BY DEF RunInv
      <4> QED BY <2>1, <2>4, <3>2, <4>1
    <3>6. ChecklistInput' = ChecklistInput
      BY <2>1, <3>3, <3>5 DEF ChecklistInput
    <3>7. CASE "prepare_report" \in Starting
      BY <2>1, <3>6, <3>7
    <3>8. CASE "prepare_report" \notin Starting
      BY <2>1, <2>7, <3>6, <3>8 DEF ReportInv
    <3> QED BY <3>7, <3>8
  <2> QED BY <2>6, <2>7 DEF ReportInv
<1> QED BY <1>1, <1>2 DEF AnalysisNext

(* A finding is a record, of which only the mark may differ.               *)
LEMMA FindingFacts ==
  ASSUME NEW f \in FindingRecords, NEW x
  PROVE  /\ [f EXCEPT !.verified = x].rule = f.rule
         /\ [f EXCEPT !.verified = x].source = f.source
         /\ [f EXCEPT !.verified = x].place = f.place
         /\ [[f EXCEPT !.verified = x] EXCEPT !.verified = f.verified] = f
         /\ [f EXCEPT !.verified = f.verified] = f
         /\ f.rule # "none"
BY DEF FindingRecords

(* preferStructuralFindings: what goes leaves its reason behind.           *)
LEMMA PreferredFacts ==
  ASSUME NEW F, NEW f \in F
  PROVE  \/ f \in PreferStructural(F)
         \/ f.rule \in {"001", "005", "P003"}
              /\ \E g \in PreferStructural(F) : g.rule \in Structural /\ g.place = f.place
         \/ f.rule = "004" /\ f.place \in case.mapped
<1>1. CASE f.rule = "004" /\ f.place \in case.mapped
  BY <1>1
<1>2. CASE f.rule \in {"001", "005", "P003"}
            /\ f.place \in {g.place : g \in {h \in F : h.rule \in Structural}}
  <2>1. PICK g \in F : g.rule \in Structural /\ g.place = f.place
    BY <1>2
  <2>2. g.rule \notin {"001", "005", "P003", "004"}
    BY <2>1 DEF Structural
  <2>3. g \in PreferStructural(F)
    BY <2>2 DEF PreferStructural
  <2> QED BY <1>2, <2>1, <2>3
<1>3. CASE ~(f.rule = "004" /\ f.place \in case.mapped)
            /\ ~(f.rule \in {"001", "005", "P003"}
                    /\ f.place \in {g.place : g \in {h \in F : h.rule \in Structural}})
  BY <1>3 DEF PreferStructural
<1> QED BY <1>1, <1>2, <1>3

(* reconcileHttpPosture: a finding remains, with another mark perhaps, or  *)
(* was consumed by what it corroborates.                                   *)
LEMMA ReconciledFacts ==
  ASSUME findings \subseteq FindingRecords, NEW F \in Reconciliations(findings),
         NEW f \in findings
  PROVE  \/ \E x : [f EXCEPT !.verified = x] \in F
         \/ f.source = "http-probe"
              /\ \E g \in findings : g.rule = CounterpartOf(f)
                    /\ [g EXCEPT !.verified = "corroborated"] \in F
<1>1. f \in FindingRecords /\ [f EXCEPT !.verified = f.verified] = f
  BY FindingFacts
<1>2. CASE case.probe = NoProbe
  <2>1. F = findings
    BY <1>2 DEF Reconciliations
  <2> QED BY <1>1, <2>1
<1>3. CASE case.probe # NoProbe
  <2> DEFINE all == {g \in findings : g.source = "http-probe"}
             rest == findings \ all
             observed == {g \in all : g.place = "first response"}
             Matches(r) == {g \in observed : CounterpartOf(g) = r.rule}
             Verified(r) ==
                IF Matches(r) # {} THEN [r EXCEPT !.verified = "corroborated"]
                ELSE IF r.source = "posture" /\ \E h \in DOMAIN Counterpart : Counterpart[h] = r.rule
                THEN [r EXCEPT !.verified = "observed_safe"] ELSE r
             matched == {r \in rest : Matches(r) # {}}
             Fits(C) == /\ \A r \in matched : \E g \in C : CounterpartOf(g) = r.rule
                        /\ \A g \in C : \E r \in matched : C \cap Matches(r) = {g}
  <2>1. F \in {{Verified(r) : r \in rest} \cup (all \ C) : C \in {D \in SUBSET observed : Fits(D)}}
    BY <1>3 DEF Reconciliations
  <2>2. PICK C \in SUBSET observed :
            F = {Verified(r) : r \in rest} \cup (all \ C) /\ Fits(C)
    <3> HIDE DEF Verified, Fits, rest, all, observed
    <3> QED BY <2>1
  <2>3. CASE f \in rest
    <3>1. Verified(f) \in F
      <4> HIDE DEF Verified, rest, all, observed, Fits
      <4> QED BY <2>2, <2>3
    <3>2. \E x : Verified(f) = [f EXCEPT !.verified = x]
      <4>1. \/ Verified(f) = [f EXCEPT !.verified = "corroborated"]
            \/ Verified(f) = [f EXCEPT !.verified = "observed_safe"]
            \/ Verified(f) = f
        <5> HIDE DEF Matches
        <5> QED OBVIOUS
      <4> HIDE DEF Verified
      <4> QED BY <1>1, <4>1
    <3> HIDE DEF Verified
    <3> QED BY <3>1, <3>2
  <2>4. CASE f \in all /\ f \notin C
    <3>1. f \in F
      <4> HIDE DEF Verified, rest, all, observed, Fits
      <4> QED BY <2>2, <2>4
    <3> QED BY <1>1, <3>1
  <2>5. CASE f \in C
    <3>1. PICK r \in matched : C \cap Matches(r) = {f}
      <4> HIDE DEF Verified, rest, all, observed, matched, Matches
      <4> QED BY <2>2, <2>5
    <3>2. f \in Matches(r)
      <4> HIDE DEF Matches, matched
      <4> QED BY <3>1
    <3>3. CounterpartOf(f) = r.rule /\ f.source = "http-probe" /\ r \in findings /\ r \in rest
      BY <3>1, <3>2
    <3>4. Verified(r) = [r EXCEPT !.verified = "corroborated"]
      <4>1. Matches(r) # {}
        <5> HIDE DEF Matches
        <5> QED BY <3>2
      <4> HIDE DEF Matches
      <4> QED BY <4>1
    <3>5. Verified(r) \in F
      <4> HIDE DEF Verified, rest, all, observed, Fits
      <4> QED BY <2>2, <3>3
    <3> HIDE DEF Verified, Matches, matched, rest, all, observed
    <3> QED BY <3>3, <3>4, <3>5
  <2> QED BY <2>3, <2>4, <2>5
<1> QED BY <1>2, <1>3

LEMMA NothingIsLost ==
  ASSUME findings \subseteq FindingRecords, NEW F \in Reconciliations(findings),
         normalizedFindings = PreferStructural(F), NEW f \in findings
  PROVE  InReport(f)
<1>1. f \in FindingRecords
  OBVIOUS
<1>2. CASE \E x : [f EXCEPT !.verified = x] \in F
  <2>1. PICK x : [f EXCEPT !.verified = x] \in F
    BY <1>2
  <2> DEFINE g == [f EXCEPT !.verified = x]
  <2>2. g \in F /\ g.rule = f.rule /\ g.place = f.place /\ [g EXCEPT !.verified = f.verified] = f
    BY <1>1, <2>1, FindingFacts
  <2> HIDE DEF g
  <2>3. \/ g \in normalizedFindings
        \/ g.rule \in {"001", "005", "P003"}
              /\ \E h \in normalizedFindings : h.rule \in Structural /\ h.place = g.place
        \/ g.rule = "004" /\ g.place \in case.mapped
    BY <2>2, PreferredFacts
  <2> QED BY <2>2, <2>3 DEF InReport
<1>3. CASE f.source = "http-probe"
            /\ \E g \in findings : g.rule = CounterpartOf(f)
                    /\ [g EXCEPT !.verified = "corroborated"] \in F
  <2>1. PICK g \in findings : g.rule = CounterpartOf(f)
                    /\ [g EXCEPT !.verified = "corroborated"] \in F
    BY <1>3
  <2> DEFINE h == [g EXCEPT !.verified = "corroborated"]
  <2>2. g \in FindingRecords /\ h \in F /\ h.rule = g.rule /\ g.rule # "none"
    <3>1. g \in FindingRecords
      OBVIOUS
    <3>2. h.rule = g.rule /\ g.rule # "none"
      BY <3>1, FindingFacts
    <3> QED BY <2>1, <3>1, <3>2
  <2>3. f.rule \in DOMAIN Counterpart /\ g.rule = Counterpart[f.rule]
    BY <2>1, <2>2 DEF CounterpartOf
  <2>4. g.rule \notin {"001", "005", "004"} /\ (g.rule = "P003" => f.rule = "H004")
    BY <2>3 DEF Counterpart
  <2>5. CASE g.rule = "P003"
    BY <2>4, <2>5 DEF InReport
  <2>6. CASE g.rule # "P003"
    <3>1. h \in normalizedFindings
      <4> HIDE DEF h
      <4>1. h.rule \notin {"001", "005", "P003", "004"}
        BY <2>2, <2>4, <2>6
      <4> QED BY <2>2, <4>1, PreferredFacts
    <3> QED BY <1>3, <2>1, <2>6, <3>1 DEF InReport
  <2> QED BY <2>5, <2>6
<1> QED BY <1>2, <1>3, ReconciledFacts

(* What a control that is evidenced says of the findings of the report,    *)
(* and of the runs on which it rests.                                      *)
LEMMA EvidencedHasNoGap ==
  ASSUME NEW i, NEW c \in Controls, SecurityChecklist(i)[c] = "EVIDENCED"
  PROVE  ~HasGap(i, GapRules[c])
<1>0. HasGap(i, {}) = FALSE
  BY DEF HasGap
<1>1. NothingMapped(i) # "EVIDENCED"
  BY DEF NothingMapped
<1>2. \A rules, run, evidenced, partly :
        GapStatus(i, rules, run, evidenced, partly) = "EVIDENCED" => ~HasGap(i, rules)
  BY DEF GapStatus
<1>3. \A a, g, rules, run : Guarded(i, a, g, rules, run) = "EVIDENCED" => ~HasGap(i, rules)
  BY <1>1, <1>2 DEF Guarded
<1>4. \A rules, a : Undecided(i, rules, a) # "EVIDENCED"
  BY <1>1 DEF Undecided
<1>5. \A rules, a, s : Everywhere(i, rules, a, s) = "EVIDENCED" => ~HasGap(i, rules)
  BY <1>1 DEF Everywhere, Partial
<1>6. \A rules, a, s : MissingFirst(i, rules, a, s) = "EVIDENCED" => ~HasGap(i, rules)
  BY <1>1 DEF MissingFirst
<1>7. \A rules, traits, o :
        o # "EVIDENCED" => (NamedFlow(i, rules, traits, o) = "EVIDENCED" => ~HasGap(i, rules))
  BY <1>1 DEF NamedFlow
<1>8. \A rules, run : Scanned(i, rules, run) = "EVIDENCED" => ~HasGap(i, rules)
  BY DEF Scanned, GapStatus
<1>9. c \in DOMAIN GapRules
  BY DEF Controls
<1>10. ASSUME NEW d \in Controls,
              d \in {"SAAS_WEBHOOK_001", "SAAS_ABUSE_001", "SAAS_CSRF_001", "DEPS_001",
                     "RUNTIME_001", "LOGGING_001"}
       PROVE  ~HasGap(i, GapRules[d])
  <2>1. GapRules[d] = {}
    BY <1>10 DEF GapRules
  <2> QED BY <2>1, <1>0
<1>11. CASE c = "AUTHN_001"
  <2>1. Authn001(i) = "EVIDENCED"
    BY <1>11 DEF SecurityChecklist
  <2>2. ~HasGap(i, GapRules.AUTHN_001)
    BY <2>1, <1>3 DEF Authn001
  <2> QED BY <1>11, <2>2
<1>12. CASE c = "AUTHN_002"
  <2>1. Authn002(i) = "EVIDENCED"
    BY <1>12 DEF SecurityChecklist
  <2>2. ~HasGap(i, GapRules.AUTHN_002)
    BY <2>1, <1>1 DEF Authn002, GapStatus
  <2> QED BY <1>12, <2>2
<1>13. CASE c = "AUTHZ_001"
  <2>1. Authz001(i) = "EVIDENCED"
    BY <1>13 DEF SecurityChecklist
  <2>2. ~HasGap(i, GapRules.AUTHZ_001)
    BY <2>1, <1>3 DEF Authz001
  <2> QED BY <1>13, <2>2
<1>14. CASE c = "AUTHZ_002"
  <2>1. Authz002(i) = "EVIDENCED"
    BY <1>14 DEF SecurityChecklist
  <2>2. ~HasGap(i, GapRules.AUTHZ_002)
    BY <2>1, <1>3 DEF Authz002
  <2> QED BY <1>14, <2>2
<1>15. CASE c = "INPUT_001"
  <2>1. Input001(i) = "EVIDENCED"
    BY <1>15 DEF SecurityChecklist
  <2>2. ~HasGap(i, GapRules.INPUT_001)
    BY <2>1, <1>1, <1>5 DEF Input001
  <2> QED BY <1>15, <2>2
<1>16. CASE c = "INJECTION_001"
  <2>1. Injection001(i) = "EVIDENCED"
    BY <1>16 DEF SecurityChecklist
  <2>2. ~HasGap(i, GapRules.INJECTION_001)
    BY <2>1, <1>4 DEF Injection001
  <2> QED BY <1>16, <2>2
<1>17. CASE c = "COMMAND_001"
  <2>1. Command001(i) = "EVIDENCED"
    BY <1>17 DEF SecurityChecklist
  <2>2. ~HasGap(i, GapRules.COMMAND_001)
    BY <2>1, <1>4 DEF Command001
  <2> QED BY <1>17, <2>2
<1>18. CASE c = "PATH_001"
  <2>1. Path001(i) = "EVIDENCED"
    BY <1>18 DEF SecurityChecklist
  <2>2. ~HasGap(i, GapRules.PATH_001)
    BY <2>1, <1>4 DEF Path001
  <2> QED BY <1>18, <2>2
<1>19. CASE c = "OUTBOUND_001"
  <2>1. Outbound001(i) = "EVIDENCED"
    BY <1>19 DEF SecurityChecklist
  <2>2. ~HasGap(i, GapRules.OUTBOUND_001)
    BY <2>1, <1>4 DEF Outbound001
  <2> QED BY <1>19, <2>2
<1>20. CASE c = "REDIRECT_001"
  <2>1. Redirect001(i) = "EVIDENCED"
    BY <1>20 DEF SecurityChecklist
  <2>2. ~HasGap(i, GapRules.REDIRECT_001)
    BY <2>1, <1>4 DEF Redirect001
  <2> QED BY <1>20, <2>2
<1>21. CASE c = "UPLOAD_001"
  <2>1. Upload001(i) = "EVIDENCED"
    BY <1>21 DEF SecurityChecklist
  <2>2. ~HasGap(i, GapRules.UPLOAD_001)
    BY <2>1, <1>4 DEF Upload001
  <2> QED BY <1>21, <2>2
<1>22. CASE c = "WEBHOOK_001"
  <2>1. Webhook001(i) = "EVIDENCED"
    BY <1>22 DEF SecurityChecklist
  <2>2. ~HasGap(i, GapRules.WEBHOOK_001)
    BY <2>1, <1>5 DEF Webhook001
  <2> QED BY <1>22, <2>2
<1>23. CASE c = "SAAS_BILLING_001"
  <2>1. SaasBilling001(i) = "EVIDENCED"
    BY <1>23 DEF SecurityChecklist
  <2>2. ~HasGap(i, GapRules.SAAS_BILLING_001)
    BY <2>1, <1>1 DEF SaasBilling001
  <2> QED BY <1>23, <2>2
<1>24. CASE c = "SAAS_RECOVERY_001"
  <2>1. SaasRecovery001(i) = "EVIDENCED"
    BY <1>24 DEF SecurityChecklist
  <2>2. ~HasGap(i, GapRules.SAAS_RECOVERY_001)
    BY <2>1, <1>7 DEF SaasRecovery001
  <2> QED BY <1>24, <2>2
<1>25. CASE c = "SAAS_OAUTH_001"
  <2>1. SaasOauth001(i) = "EVIDENCED"
    BY <1>25 DEF SecurityChecklist
  <2>2. ~HasGap(i, GapRules.SAAS_OAUTH_001)
    BY <2>1, <1>7 DEF SaasOauth001
  <2> QED BY <1>25, <2>2
<1>26. CASE c = "SAAS_TENANT_001"
  <2>1. SaasTenant001(i) = "EVIDENCED"
    BY <1>26 DEF SecurityChecklist
  <2>2. ~HasGap(i, GapRules.SAAS_TENANT_001)
    BY <2>1, <1>6 DEF SaasTenant001
  <2> QED BY <1>26, <2>2
<1>27. CASE c = "HEADERS_001"
  <2>1. Headers001(i) = "EVIDENCED"
    BY <1>27 DEF SecurityChecklist
  <2>2. ~HasGap(i, GapRules.HEADERS_001)
    BY <2>1, <1>1 DEF Headers001
  <2> QED BY <1>27, <2>2
<1>28. CASE c = "SESSION_001"
  <2>1. Session001(i) = "EVIDENCED"
    BY <1>28 DEF SecurityChecklist
  <2>2. ~HasGap(i, GapRules.SESSION_001)
    BY <2>1, <1>1 DEF Session001
  <2> QED BY <1>28, <2>2
<1>29. CASE c = "CORS_001"
  <2>1. Cors001(i) = "EVIDENCED"
    BY <1>29 DEF SecurityChecklist
  <2>2. ~HasGap(i, GapRules.CORS_001)
    BY <2>1, <1>1 DEF Cors001
  <2> QED BY <1>29, <2>2
<1>30. CASE c = "SECRETS_001"
  <2>1. Secrets001(i) = "EVIDENCED"
    BY <1>30 DEF SecurityChecklist
  <2>2. ~HasGap(i, GapRules.SECRETS_001)
    BY <2>1, <1>1 DEF Secrets001
  <2> QED BY <1>30, <2>2
<1>31. CASE c = "ERRORS_001"
  <2>1. Errors001(i) = "EVIDENCED"
    BY <1>31 DEF SecurityChecklist
  <2>2. ~HasGap(i, GapRules.ERRORS_001)
    BY <2>1 DEF Errors001
  <2> QED BY <1>31, <2>2
<1>32. CASE c = "NEXT_001"
  <2>1. Next001(i) = "EVIDENCED"
    BY <1>32 DEF SecurityChecklist
  <2>2. ~HasGap(i, GapRules.NEXT_001)
    BY <2>1, <1>1, <1>8 DEF Next001
  <2> QED BY <1>32, <2>2
<1>33. CASE c = "NEXT_002"
  <2>1. Next002(i) = "EVIDENCED"
    BY <1>33 DEF SecurityChecklist
  <2>2. ~HasGap(i, GapRules.NEXT_002)
    BY <2>1, <1>1, <1>8 DEF Next002
  <2> QED BY <1>33, <2>2
<1>34. CASE c = "REACT_001"
  <2>1. React001(i) = "EVIDENCED"
    BY <1>34 DEF SecurityChecklist
  <2>2. ~HasGap(i, GapRules.REACT_001)
    BY <2>1, <1>8 DEF React001
  <2> QED BY <1>34, <2>2
<1>35. CASE c = "REACT_002"
  <2>1. React002(i) = "EVIDENCED"
    BY <1>35 DEF SecurityChecklist
  <2>2. ~HasGap(i, GapRules.REACT_002)
    BY <2>1, <1>8 DEF React002
  <2> QED BY <1>35, <2>2
<1>36. CASE c = "REACT_003"
  <2>1. React003(i) = "EVIDENCED"
    BY <1>36 DEF SecurityChecklist
  <2>2. ~HasGap(i, GapRules.REACT_003)
    BY <2>1, <1>8 DEF React003
  <2> QED BY <1>36, <2>2
<1> QED BY <1>9, <1>10, <1>11, <1>12, <1>13, <1>14, <1>15, <1>16, <1>17, <1>18, <1>19,
           <1>20, <1>21, <1>22, <1>23, <1>24, <1>25, <1>26, <1>27, <1>28, <1>29,
           <1>30, <1>31, <1>32, <1>33, <1>34, <1>35, <1>36 DEF GapRules

LEMMA EvidencedWasRun ==
  ASSUME NEW i, NEW c \in DOMAIN ShownBy, SecurityChecklist(i)[c] = "EVIDENCED",
         NEW s \in ShownBy[c], i.runs[s] \in Statuses \cup {"none"}
  PROVE  i.runs[s] = "completed"
<1>1. NothingMapped(i) # "EVIDENCED"
  BY DEF NothingMapped
<1>2. \A rules, run, evidenced, partly :
        /\ GapStatus(i, rules, run, evidenced, partly) = "EVIDENCED"
        /\ i.runs[run] \in Statuses \cup {"none"}
        => i.runs[run] = "completed"
  BY DEF GapStatus, Statuses
<1>3. \A a, g, rules, run :
        Guarded(i, a, g, rules, run) = "EVIDENCED" /\ i.runs[run] \in Statuses \cup {"none"}
            => i.runs[run] = "completed"
  BY <1>1, <1>2 DEF Guarded
<1>4. \A rules, run :
        Scanned(i, rules, run) = "EVIDENCED" /\ i.runs[run] \in Statuses \cup {"none"}
            => i.runs[run] = "completed"
  BY DEF Scanned, GapStatus, Statuses
<1>5. CASE c \in {"AUTHN_001", "AUTHZ_001"}
  <2>1. s = "ast-security" /\ SecurityChecklist(i)[c] \in {Authn001(i), Authz001(i)}
    BY <1>5 DEF SecurityChecklist, ShownBy
  <2> QED BY <2>1, <1>3 DEF Authn001, Authz001
<1>11. CASE c = "AUTHN_002"
  <2>1. s = "next-security" /\ Authn002(i) = "EVIDENCED"
    BY <1>11 DEF SecurityChecklist, ShownBy
  <2> QED BY <2>1, <1>1, <1>2 DEF Authn002
<1>6. CASE c \in {"NEXT_002", "REACT_001", "REACT_002"}
  BY <1>6, <1>1, <1>4 DEF SecurityChecklist, ShownBy, Next002, React001, React002
<1>7. CASE c = "SAAS_BILLING_001"
  <2>1. SaasBilling001(i) = "EVIDENCED" /\ s = "saas-security"
    BY <1>7 DEF SecurityChecklist, ShownBy
  <2> QED BY <2>1, <1>1 DEF SaasBilling001
<1>8. CASE c = "SECRETS_001"
  <2>1. Secrets001(i) = "EVIDENCED" /\ s \in {"gitleaks", "posture"}
    BY <1>8 DEF SecurityChecklist, ShownBy
  <2>2. {i.runs["gitleaks"], i.runs["posture"]} = {"completed"}
    BY <2>1 DEF Secrets001
  <2> QED BY <2>1, <2>2
<1>9. CASE c = "DEPS_001"
  <2>1. Deps001(i) = "EVIDENCED" /\ s = "osv"
    BY <1>9 DEF SecurityChecklist, ShownBy
  <2> QED BY <2>1, <1>1 DEF Deps001
<1>10. CASE c = "RUNTIME_001"
  <2>1. Runtime001(i) = "EVIDENCED" /\ s = "http-probe"
    BY <1>10 DEF SecurityChecklist, ShownBy
  <2> QED BY <2>1 DEF Runtime001
<1> QED BY <1>5, <1>6, <1>7, <1>8, <1>9, <1>10, <1>11 DEF ShownBy

(* What differs from a finding by its mark has the rule of the finding.    *)
LEMMA MarksKeepTheRule ==
  ASSUME NEW f \in FindingRecords, NEW g, NEW x, [g EXCEPT !.verified = x] = f
  PROVE  g.rule = f.rule
<1>1. "rule" \in DOMAIN f
  BY DEF FindingRecords
<1>2. DOMAIN g = DOMAIN f
  OBVIOUS
<1> QED BY <1>1, <1>2

(* Wherever the rule of a probe is a gap, so is that of the declaration it *)
(* may corroborate, but for the cookies'.                                  *)
LEMMA CounterpartsAreGaps ==
  ASSUME NEW c \in Controls, NEW h \in DOMAIN Counterpart, h \in GapRules[c], h # "H004"
  PROVE  Counterpart[h] \in GapRules[c]
<1>1. CASE c = "HEADERS_001"
  BY <1>1 DEF Counterpart, GapRules
<1>2. CASE c = "CORS_001"
  BY <1>2 DEF Counterpart, GapRules
<1>3. CASE c = "NEXT_001"
  BY <1>3 DEF Counterpart, GapRules
<1> QED BY <1>1, <1>2, <1>3 DEF Counterpart, GapRules, Controls

(* What is known of every finding that was merged, in the report.          *)
LEMMA GapsAreSeen ==
  ASSUME RunInv, ReportInv, "normalize" \in done,
         NEW c \in Controls, ~HasGap(ChecklistInput, GapRules[c]),
         NEW f \in findings, f.rule \in GapRules[c]
  PROVE  f.rule \in {"005", "P003", "H004", "001"}
            /\ ~\E g \in normalizedFindings : g.rule = f.rule
<1>1. \A g \in normalizedFindings : g.rule \notin GapRules[c]
  BY DEF HasGap, ChecklistInput
<1>2. InReport(f)
  <2>1. PICK F \in Reconciliations(findings) : normalizedFindings = PreferStructural(F)
    BY DEF ReportInv
  <2>2. findings \subseteq FindingRecords
    BY DEF RunInv
  <2> QED BY <2>1, <2>2, NothingIsLost
<1>3. ASSUME NEW g, g \in normalizedFindings, [g EXCEPT !.verified = f.verified] = f
      PROVE  FALSE
  <2>1. f \in FindingRecords
    BY DEF RunInv
  <2>2. g.rule = f.rule
    BY <1>3, <2>1, MarksKeepTheRule
  <2> QED BY <1>1, <1>3, <2>2
<1>4. ASSUME NEW g \in findings, g.rule = CounterpartOf(f),
             [g EXCEPT !.verified = "corroborated"] \in normalizedFindings, g.rule # "P003"
      PROVE  FALSE
  <2>1. g \in FindingRecords
    BY DEF RunInv
  <2>2. g.rule # "none" /\ [g EXCEPT !.verified = "corroborated"].rule = g.rule
    BY <2>1, FindingFacts
  <2>3. f.rule \in DOMAIN Counterpart /\ g.rule = Counterpart[f.rule]
    BY <1>4, <2>2 DEF CounterpartOf
  <2>4. f.rule # "H004"
    BY <1>4, <2>3 DEF Counterpart
  <2>5. g.rule \in GapRules[c]
    BY <2>3, <2>4, CounterpartsAreGaps
  <2> QED BY <1>1, <1>4, <2>2, <2>5
<1>5. f.rule # "004"
  BY DEF GapRules, Controls
<1> QED BY <1>1, <1>2, <1>3, <1>4, <1>5 DEF InReport

(* A report is prepared from all that was found.                           *)
LEMMA ReportIsEarned == ASSUME SeenInv, RunInv, ReportInv PROVE EvidenceIsEarned
<1> SUFFICES ASSUME "prepare_report" \in done
             PROVE  /\ \A f \in findings : InReport(f)
                    /\ \A c \in Controls : checklist[c] = "EVIDENCED" =>
                        /\ \A f \in findings : f.rule \in GapRules[c] =>
                                f.rule \in {"005", "P003", "H004", "001"}
                                  /\ ~\E g \in normalizedFindings : g.rule = f.rule
                        /\ c \in DOMAIN ShownBy => \A s \in ShownBy[c] :
                                Enabled(s) /\ runs[s] = "completed"
  BY DEF EvidenceIsEarned
<1>1. "normalize" \in done
  BY NormalizedLate
<1>2. checklist = SecurityChecklist(ChecklistInput)
  BY DEF ReportInv
<1>3. ASSUME NEW f \in findings
      PROVE  InReport(f)
  <2>1. PICK F \in Reconciliations(findings) : normalizedFindings = PreferStructural(F)
    BY <1>1 DEF ReportInv
  <2>2. findings \subseteq FindingRecords
    BY DEF RunInv
  <2> QED BY <2>1, <2>2, NothingIsLost
<1>4. ASSUME NEW c \in Controls, checklist[c] = "EVIDENCED",
             NEW f \in findings, f.rule \in GapRules[c]
      PROVE  f.rule \in {"005", "P003", "H004", "001"}
                /\ ~\E g \in normalizedFindings : g.rule = f.rule
  <2>1. ~HasGap(ChecklistInput, GapRules[c])
    BY <1>2, <1>4, EvidencedHasNoGap
  <2> QED BY <1>1, <1>4, <2>1, GapsAreSeen
<1>5. ASSUME NEW c \in Controls, checklist[c] = "EVIDENCED", c \in DOMAIN ShownBy,
             NEW s \in ShownBy[c]
      PROVE  Enabled(s) /\ runs[s] = "completed"
  <2>1. s \in Scanners
    BY <1>5 DEF ShownBy, Scanners
  <2>2. runs[s] \in Statuses \cup {"none"} /\ HasAnswered(s)
    BY <2>1 DEF RunInv
  <2>3. ChecklistInput.runs = runs
    BY DEF ChecklistInput
  <2>4. runs[s] = "completed"
    BY <1>2, <1>5, <2>2, <2>3, EvidencedWasRun
  <2> QED BY <2>2, <2>4 DEF HasAnswered
<1> QED BY <1>3, <1>4, <1>5

(* A control of the checklist says that it is evidenced only if no finding *)
(* of the audit contradicts it, but for one that was replaced or became    *)
(* evidence of another, and if the scanners it rests on were enabled, ran  *)
(* and reached their end; and no finding is lost on the way (normalize and *)
(* prepare_report of audit-pipeline.ts; checklist.ts).                     *)
THEOREM EvidenceHolds == AnalysisSpec => []EvidenceIsEarned
<1>1. AnalysisInit => SeenInv /\ RunInv /\ ReportInv
  <2>1. AnalysisInit => RunInv
    BY RunInit
  <2>2. AnalysisInit => SeenInv /\ ReportInv
    BY DEF AnalysisInit, SeenInv, ReportInv
  <2> QED BY <2>1, <2>2
<1>2. SeenInv /\ RunInv /\ ReportInv /\ [AnalysisNext]_analysisVars
        => (SeenInv /\ RunInv /\ ReportInv)'
  BY SeenStep, RunStep, ReportStep
<1>3. SeenInv /\ RunInv /\ ReportInv => EvidenceIsEarned
  BY ReportIsEarned
<1> QED BY <1>1, <1>2, <1>3, PTL DEF AnalysisSpec

-----------------------------------------------------------------------------
(* The rules about entry points and the controls of the checklist: what an *)
(* entry point reaches itself is part of what is mapped for it.            *)
LEMMA ReachedIsMapped ==
  ASSUME NEW p, NEW e
  PROVE  Kinds(ReachableFacts(p, e)) \subseteq Kinds(EffectiveFacts(p, e))
BY DEF Kinds, EffectiveFacts

(* The input of a checklist without findings.                              *)
Blind(p) ==
    [profile |-> "complete", next |-> TRUE, tenants |-> FALSE,
     contexts |-> {Context(p, e) : e \in {k \in p.entrypoints : k.kind # "middleware"}},
     findings |-> {[rule |-> r, source |-> "ast", secret |-> FALSE] : r \in {}},
     runs |-> [s \in {"ast-security", "saas-security", "next-security", "react-security",
                      "posture", "gitleaks", "osv", "http-probe"} |-> "completed"],
     probe |-> NoProbe, resolved |-> FALSE]

LEMMA ContextFacts ==
  ASSUME NEW p, NEW e \in p.entrypoints, e.kind # "middleware",
         Kinds(ReachableFacts(p, e)) \cap SensitiveFacts # {}
  PROVE  /\ Context(p, e) \in Sensitive(Blind(p))
         /\ Context(p, e).facts = Kinds(EffectiveFacts(p, e))
         /\ Kinds(ReachableFacts(p, e)) \subseteq Context(p, e).facts
         /\ e.traits \subseteq Context(p, e).traits
         /\ "webhook" \notin e.traits => "webhook" \notin Context(p, e).traits
         /\ Mutating(e) => "mutating" \in Context(p, e).traits
         /\ e.methods \cap {"GET", "HEAD"} # {} => "reading" \in Context(p, e).traits
<1>1. Context(p, e) \in Blind(p).contexts
  BY DEF Blind
<1>2. Context(p, e).facts = Kinds(EffectiveFacts(p, e))
      /\ Context(p, e).traits = e.traits \cup (IF Mutating(e) THEN {"mutating"} ELSE {})
                    \cup (IF e.methods \cap {"GET", "HEAD"} # {} THEN {"reading"} ELSE {})
  BY DEF Context
<1>3. Kinds(ReachableFacts(p, e)) \subseteq Context(p, e).facts
  BY <1>2, ReachedIsMapped
<1>4. Context(p, e).facts \cap SensitiveFacts # {}
  BY <1>3
<1> QED BY <1>1, <1>2, <1>3, <1>4 DEF Sensitive

(* What the controls say where nothing was found.                          *)
LEMMA BlindSays ==
  ASSUME NEW p, NEW applicable, NEW guarded, NEW rules,
         applicable # {}, guarded # applicable
  PROVE  /\ Guarded(Blind(p), applicable, guarded, rules, "ast-security")
                \notin {"EVIDENCED", "NOT_APPLICABLE"}
         /\ Everywhere(Blind(p), rules, applicable, guarded) # "EVIDENCED"
<1>1. ~HasGap(Blind(p), rules)
  BY DEF Blind, HasGap
<1>2. Blind(p).runs["ast-security"] = "completed" /\ ~Partial(Blind(p))
  BY DEF Blind, Partial
<1> QED BY <1>1, <1>2 DEF Guarded, GapStatus, Everywhere

LEMMA BlindReads ==
  ASSUME NEW p, SensitiveReads(Blind(p)) # {}
  PROVE  Authn002(Blind(p)) # "NOT_APPLICABLE"
BY DEF Authn002, GapStatus

(* A rule that is raised is the rule of an entry point.                    *)
LEMMA RulesAre ==
  ASSUME NEW p, NEW r \in Rules(p)
  PROVE  \E e \in p.entrypoints :
            /\ e.kind # "middleware" /\ "webhook" \notin e.traits
            /\ Kinds(ReachableFacts(p, e)) \cap SensitiveFacts # {}
            /\ \/ Mutating(e) /\ r \in BoundaryRules(p, e)
               \/ r \in RouteRules(p, e)
<1>1. PICK e \in p.entrypoints : r \in BoundaryRules(p, e) \cup RouteRules(p, e)
  BY DEF Rules
<1>2. CASE r \in BoundaryRules(p, e)
  BY <1>1, <1>2 DEF BoundaryRules
<1>3. CASE r \in RouteRules(p, e)
  BY <1>1, <1>3 DEF RouteRules
<1> QED BY <1>1, <1>2, <1>3

LEMMA AuthenticationAgrees ==
  ASSUME NEW p, "AST001" \in Rules(p)
  PROVE  Authn001(Blind(p)) \notin {"EVIDENCED", "NOT_APPLICABLE"}
<1>1. PICK e \in p.entrypoints :
            /\ e.kind # "middleware" /\ "webhook" \notin e.traits
            /\ Kinds(ReachableFacts(p, e)) \cap SensitiveFacts # {}
            /\ Mutating(e) /\ "AST001" \in BoundaryRules(p, e)
  BY RulesAre DEF RouteRules
<1>2. Kinds(EffectiveFacts(p, e)) \cap {"authentication", "authorization"} = {}
  BY <1>1 DEF BoundaryRules
<1>3. Context(p, e) \in Mutations(Blind(p))
  BY <1>1, ContextFacts DEF Mutations
<1>4. Context(p, e) \notin With(Mutations(Blind(p)), {"authentication", "authorization"})
  BY <1>1, <1>2, ContextFacts DEF With
<1> QED BY <1>3, <1>4, BlindSays DEF Authn001

LEMMA AuthorizationAgrees ==
  ASSUME NEW p, "AST002" \in Rules(p)
  PROVE  Authz001(Blind(p)) # "EVIDENCED"
<1>1. PICK e \in p.entrypoints :
            /\ e.kind # "middleware" /\ "webhook" \notin e.traits
            /\ Kinds(ReachableFacts(p, e)) \cap SensitiveFacts # {}
            /\ Mutating(e) /\ "AST002" \in BoundaryRules(p, e)
  BY RulesAre DEF RouteRules
<1>2. "administrative" \in e.traits /\ "authorization" \notin Kinds(EffectiveFacts(p, e))
  BY <1>1 DEF BoundaryRules
<1>3. Context(p, e) \in Administrative(Blind(p))
  BY <1>1, <1>2, ContextFacts DEF Mutations, Administrative
<1>4. Context(p, e) \notin With(Administrative(Blind(p)), {"authorization"})
  BY <1>1, <1>2, ContextFacts DEF With
<1> QED BY <1>3, <1>4, BlindSays DEF Authz001

LEMMA ScopingAgrees ==
  ASSUME NEW p, NEW r \in {"AST003", "NEXT002"}, r \in Rules(p)
  PROVE  Authz002(Blind(p)) # "EVIDENCED"
<1>1. PICK e \in p.entrypoints :
            /\ e.kind # "middleware" /\ "webhook" \notin e.traits
            /\ Kinds(ReachableFacts(p, e)) \cap SensitiveFacts # {}
            /\ r \in BoundaryRules(p, e) \/ r \in RouteRules(p, e)
  BY RulesAre
<1>2. /\ "dynamic" \in e.traits /\ "database" \in Kinds(ReachableFacts(p, e))
      /\ Kinds(EffectiveFacts(p, e)) \cap (Scopes \cup {"authorization"}) = {}
  <2>1. CASE r \in BoundaryRules(p, e)
    BY <2>1 DEF BoundaryRules
  <2>2. CASE r \in RouteRules(p, e)
    BY <2>2 DEF RouteRules
  <2> QED BY <1>1, <2>1, <2>2
<1>3. Context(p, e) \in Resources(Blind(p))
  BY <1>1, <1>2, ContextFacts DEF Resources
<1>4. Context(p, e) \notin With(Resources(Blind(p)), Scopes)
  BY <1>1, <1>2, ContextFacts DEF With
<1> QED BY <1>3, <1>4, BlindSays DEF Authz002

LEMMA ValidationAgrees ==
  ASSUME NEW p, "NEXT006" \in Rules(p)
  PROVE  Input001(Blind(p)) # "EVIDENCED"
<1>1. PICK e \in p.entrypoints :
            /\ e.kind # "middleware" /\ "webhook" \notin e.traits
            /\ Kinds(ReachableFacts(p, e)) \cap SensitiveFacts # {}
            /\ "NEXT006" \in RouteRules(p, e)
  BY RulesAre DEF BoundaryRules
<1>2. "validation" \notin Kinds(EffectiveFacts(p, e))
  BY <1>1 DEF RouteRules
<1>3. Context(p, e) \in Sensitive(Blind(p))
  BY <1>1, ContextFacts
<1>4. Context(p, e) \notin With(Sensitive(Blind(p)), {"validation"})
  BY <1>1, <1>2, ContextFacts DEF With
<1> QED BY <1>3, <1>4, BlindSays DEF Input001

LEMMA ReadsAgree ==
  ASSUME NEW p, "NEXT001" \in Rules(p)
  PROVE  Authn002(Blind(p)) # "NOT_APPLICABLE"
<1>1. PICK e \in p.entrypoints :
            /\ e.kind # "middleware" /\ "webhook" \notin e.traits
            /\ Kinds(ReachableFacts(p, e)) \cap SensitiveFacts # {}
            /\ "NEXT001" \in RouteRules(p, e)
  BY RulesAre DEF BoundaryRules
<1>2. e.methods \cap {"GET", "HEAD"} # {}
  BY <1>1 DEF RouteRules
<1>3. Context(p, e) \in SensitiveReads(Blind(p))
  BY <1>1, <1>2, ContextFacts DEF SensitiveReads
<1> QED BY <1>3, BlindReads

(* Whatever is mapped of a project, a control that is evidenced or not     *)
(* applicable by the map is one whose rule the analysers leave silent      *)
(* (ast-security.ts and next-security.ts beside checklist.ts).             *)
THEOREM GuardsHold == GraphSpec => []GuardsAgree
<1>1. GuardsAgree
  <2> DEFINE blind == SecurityChecklist(Blind(graph))
  <2>1. Controlled(graph, {}) = blind
    BY DEF Controlled, Blind
  <2>2. /\ blind.AUTHN_001 = Authn001(Blind(graph)) /\ blind.AUTHN_002 = Authn002(Blind(graph))
        /\ blind.AUTHZ_001 = Authz001(Blind(graph)) /\ blind.AUTHZ_002 = Authz002(Blind(graph))
        /\ blind.INPUT_001 = Input001(Blind(graph))
    BY DEF SecurityChecklist
  <2> HIDE DEF blind
  <2>3. blind.AUTHN_001 \in {"EVIDENCED", "NOT_APPLICABLE"} => "AST001" \notin Rules(graph)
    BY <2>2, AuthenticationAgrees
  <2>4. blind.AUTHZ_001 = "EVIDENCED" => "AST002" \notin Rules(graph)
    BY <2>2, AuthorizationAgrees
  <2>5. blind.AUTHZ_002 = "EVIDENCED" => {"AST003", "NEXT002"} \cap Rules(graph) = {}
    BY <2>2, ScopingAgrees
  <2>6. blind.INPUT_001 = "EVIDENCED" => "NEXT006" \notin Rules(graph)
    BY <2>2, ValidationAgrees
  <2>7. blind.AUTHN_002 = "NOT_APPLICABLE" => "NEXT001" \notin Rules(graph)
    BY <2>2, ReadsAgree
  <2> QED BY <2>1, <2>3, <2>4, <2>5, <2>6, <2>7 DEF GuardsAgree
<1> QED BY <1>1, PTL
-----------------------------------------------------------------------------
(* SourceTaint.                                                            *)
(* What a fold of Learn, or of passes, has so far: at most the nth of some *)
(* sets.                                                                   *)
Below(bounds, n, T) == T \subseteq bounds[n]

(* What a fold over passes has: what was there, and after a pass what one  *)
(* finds.                                                                  *)
AtLeast(bounds, n, T) == bounds[0] \subseteq T /\ (n >= 1 => bounds[1] \subseteq T)

Between(bounds, n, T) == AtLeast(bounds, n, T) /\ T \subseteq bounds[2]

Learning == INSTANCE FoldTheorems WITH Op <- Learn, Holds <- Below
Passing == INSTANCE FoldTheorems WITH Op <- Pass, Holds <- Between
SaasLearning == INSTANCE FoldTheorems WITH Op <- SaasLearn, Holds <- Below
SaasPassing == INSTANCE FoldTheorems WITH Op <- SaasPass, Holds <- AtLeast

(* No name that the server owns is another's.                              *)
Steady(body, others) ==
    \A k \in DOMAIN body : body[k].op = "let" =>
        IF body[k].owned THEN body[k].to \notin others ELSE body[k].to \in others

LEMMA StepGrows ==
  ASSUME NEW T, NEW others, NEW body, Steady(body, others), NEW k \in DOMAIN body, T \subseteq others
  PROVE  T \subseteq Learn(T, body[k]) /\ Learn(T, body[k]) \subseteq others
  BY DEF Steady, Learn

LEMMA StepKeepsOrder ==
  ASSUME NEW S, NEW T, NEW st, S \subseteq T
  PROVE  Learn(S, st) \subseteq Learn(T, st)
  BY DEF Learn

LEMMA PassGrows ==
  ASSUME NEW body, NEW N \in Nat, DOMAIN body = 1..N, NEW others, Steady(body, others),
         NEW T, T \subseteq others, NEW S, S \subseteq T, NEW m \in 0..N
  PROVE  /\ T \subseteq Pass(T, body) /\ Pass(T, body) \subseteq others
         /\ FoldLeft(Learn, S, [j \in 1..m |-> body[j]]) \subseteq Pass(T, body)
<1>1. PICK h : /\ h[0] = T
               /\ \A k \in 1..N : h[k] = Learn(h[k - 1], body[k])
               /\ h[N] = Learning!FoldLeft(Learn, T, body)
  BY Learning!FoldSteps
<1>2. h[N] = Pass(T, body)
  BY <1>1 DEF Pass, Learning!FoldLeft, FoldLeft, Learning!MapThenFoldSet, MapThenFoldSet,
        Learning!Max, Max
<1> DEFINE P == {n \in Nat : n <= N => /\ T \subseteq h[n] /\ h[n] \subseteq others
                                       /\ \A i \in 0..n : h[i] \subseteq h[n]}
<1>3. 0 \in P
  BY <1>1
<1>4. ASSUME NEW n \in P PROVE n + 1 \in P
  <2> SUFFICES ASSUME n + 1 <= N PROVE n + 1 \in P
    OBVIOUS
  <2>1. n + 1 \in 1..N /\ (n + 1) - 1 = n /\ n <= N
    OBVIOUS
  <2>2. h[n + 1] = Learn(h[n], body[n + 1])
    BY <1>1, <2>1
  <2>3. T \subseteq h[n] /\ h[n] \subseteq others /\ \A i \in 0..n : h[i] \subseteq h[n]
    BY <2>1
  <2>4. h[n] \subseteq h[n + 1] /\ h[n + 1] \subseteq others
    BY <2>1, <2>2, <2>3, StepGrows
  <2>5. \A i \in 0..(n + 1) : i \in 0..n \/ i = n + 1
    OBVIOUS
  <2> QED BY <2>3, <2>4, <2>5
<1>5. P = Nat
  <2> HIDE DEF P
  <2>1. P \in SUBSET Nat
    BY DEF P
  <2> QED BY <1>3, <1>4, <2>1, Learning!Induction
<1>6. T \subseteq h[N] /\ h[N] \subseteq others /\ \A i \in 0..N : h[i] \subseteq h[N]
  BY <1>5
<1> DEFINE prefix == [j \in 1..m |-> body[j]]
<1>7. Below(h, m, Learning!FoldLeft(Learn, S, prefix))
  <2>1. Below(h, 0, S)
    BY <1>1 DEF Below
  <2>2. ASSUME NEW k \in 1..m, NEW a, Below(h, k - 1, a)
        PROVE  Below(h, k, Learn(a, prefix[k]))
    <3>1. k \in 1..N /\ prefix[k] = body[k]
      OBVIOUS
    <3> HIDE DEF prefix
    <3> QED BY <2>2, <3>1, <1>1, StepKeepsOrder DEF Below
  <2>3. DOMAIN prefix = 1..m /\ m \in Nat
    OBVIOUS
  <2> HIDE DEF prefix
  <2> QED BY <2>1, <2>2, <2>3, Learning!FoldHolds
<1>8. Learning!FoldLeft(Learn, S, prefix) = FoldLeft(Learn, S, prefix)
  BY DEF Learning!FoldLeft, FoldLeft, Learning!MapThenFoldSet, MapThenFoldSet,
        Learning!Max, Max
<1> HIDE DEF prefix, P
<1>9. FoldLeft(Learn, S, prefix) \subseteq h[N]
  BY <1>6, <1>7, <1>8 DEF Below
<1> QED BY <1>2, <1>6, <1>9 DEF prefix

LEMMA WholeFunctions ==
  ASSUME program \in Programs, NEW f, Known(f)
  PROVE  \E n, m \in Nat : /\ DOMAIN Body(f) = 1..n /\ Len(Body(f)) = n
                           /\ All(f) = 1..m
                           /\ ToSet(program.functions[f].params) =
                                {program.functions[f].params[i] : i \in All(f)}
<1>1. /\ program.functions[f].params \in Seq(ToSet(program.functions[f].params))
      /\ Body(f) \in Seq(ToSet(Body(f)))
  BY ProgramsAreWhole DEF Known, Body
<1> QED BY <1>1 DEF All, ToSet

(* Names that are not the server's in an unshadowed function.              *)
Others(f) ==
    ToSet(program.functions[f].params)
        \cup {Body(f)[k].to : k \in {s \in LetsOf(f) : ~Body(f)[s].owned}}

LEMMA SteadyBody ==
  ASSUME NEW f, ~Shadowed(f) PROVE Steady(Body(f), Others(f))
  BY DEF Steady, Others, Shadowed, LetsOf

LEMMA ParamsAreOthers ==
  ASSUME program \in Programs, NEW f, Known(f), NEW J
  PROVE  Params(f, J) \subseteq Others(f)
  BY WholeFunctions DEF Params, Others

(* PassGrows, of all names.                                                *)
Prefix(body, m) == [j \in 1..m |-> body[j]]

Grows(body, N, others) ==
    \A T \in SUBSET others : \A S \in SUBSET T : \A m \in 0..N :
        /\ T \subseteq Pass(T, body) /\ Pass(T, body) \subseteq others
        /\ FoldLeft(Learn, S, Prefix(body, m)) \subseteq Pass(T, body)

LEMMA SteadyGrows ==
  ASSUME NEW body, NEW N \in Nat, DOMAIN body = 1..N, NEW others, Steady(body, others)
  PROVE  Grows(body, N, others)
<1> SUFFICES ASSUME NEW T, T \subseteq others, NEW S, S \subseteq T, NEW m \in 0..N
             PROVE  /\ T \subseteq Pass(T, body) /\ Pass(T, body) \subseteq others
                    /\ FoldLeft(Learn, S, [j \in 1..m |-> body[j]]) \subseteq Pass(T, body)
  BY DEF Grows, Prefix
<1> QED BY PassGrows

(* In a function that shadows no name the passes find, if there is one,    *)
(* all the names that a run makes.                                         *)
LEMMA FlowIsTaint ==
  ASSUME program \in Programs, NEW f, Known(f), ~Shadowed(f), NEW I, NEW J, I \subseteq J,
         NEW k \in DOMAIN Body(f)
  PROVE  Flowing(f, I, k) \subseteq FunctionTaint(f, J)
<1> DEFINE body == Body(f)
           flow == Flowing(f, I, k)
           passes == [pass \in 1..Passes |-> body]
           b == [i \in 0..2 |-> IF i = 0 THEN Params(f, J) ELSE IF i = 1 THEN flow ELSE Others(f)]
<1>1. PICK N \in Nat : DOMAIN body = 1..N
  BY WholeFunctions
<1>2. Passes \in Nat /\ Passes >= 1
  BY TaintLimits
<1>3. Params(f, I) \subseteq Params(f, J) /\ Params(f, J) \subseteq Others(f)
  BY ParamsAreOthers DEF Params
<1>4. Steady(body, Others(f))
  BY SteadyBody
<1>5. k - 1 \in 0..N /\ flow = FoldLeft(Learn, Params(f, I), [j \in 1..(k - 1) |-> body[j]])
  BY <1>1 DEF Flowing
<1>6. b[0] = Params(f, J) /\ b[1] = flow /\ b[2] = Others(f)
  OBVIOUS
<1> HIDE DEF b, flow, body
<1>7. ASSUME NEW n \in 1..Passes, NEW T, Between(b, n - 1, T) PROVE Between(b, n, Pass(T, body))
  <2>1. Params(f, J) \subseteq T /\ T \subseteq Others(f) /\ Params(f, I) \subseteq T
    BY <1>3, <1>6, <1>7 DEF Between, AtLeast
  <2>2. /\ T \subseteq Pass(T, body) /\ Pass(T, body) \subseteq Others(f)
        /\ \A m \in 0..N :
            FoldLeft(Learn, Params(f, I), Prefix(body, m)) \subseteq Pass(T, body)
    <3>1. Grows(body, N, Others(f))
      BY <1>1, <1>4, SteadyGrows
    <3> QED BY <2>1, <3>1 DEF Grows
  <2>3. flow \subseteq Pass(T, body)
    BY <1>5, <2>2 DEF Prefix
  <2> QED BY <1>6, <2>1, <2>2, <2>3 DEF Between, AtLeast
<1>8. Between(b, 0, Params(f, J))
  BY <1>3, <1>6 DEF Between, AtLeast
<1>9. Between(b, Passes, Passing!FoldLeft(Pass, Params(f, J), passes))
  <2>1. DOMAIN passes = 1..Passes /\ \A n \in 1..Passes : passes[n] = body
    OBVIOUS
  <2>2. \A n \in 1..Passes : \A T : Between(b, n - 1, T) => Between(b, n, Pass(T, passes[n]))
    BY <1>7, <2>1
  <2> HIDE DEF passes
  <2> QED BY <1>2, <1>8, <2>1, <2>2, Passing!FoldHolds
<1>10. Passing!FoldLeft(Pass, Params(f, J), passes) = FoldLeft(Pass, Params(f, J), passes)
  BY DEF Passing!FoldLeft, FoldLeft, Passing!MapThenFoldSet, MapThenFoldSet, Passing!Max, Max
<1>11. FunctionTaint(f, J) = FoldLeft(Pass, Params(f, J), passes)
  BY DEF FunctionTaint, body
<1> HIDE DEF passes
<1>12. Between(b, Passes, FunctionTaint(f, J))
  BY <1>9, <1>10, <1>11
<1> QED BY <1>2, <1>6, <1>12 DEF Between, AtLeast, flow

(* The passes find no name that is not in every closed set.                *)
LEMMA TaintIsClosed ==
  ASSUME program \in Programs, NEW f, Known(f), NEW J, NEW S, Params(f, J) \subseteq S, Closed(f, S)
  PROVE  FunctionTaint(f, J) \subseteq S
<1> DEFINE body == Body(f)
           all == [i \in Nat |-> S]
           b == [i \in 0..2 |-> IF i = 2 THEN S ELSE {}]
           passes == [pass \in 1..Passes |-> body]
<1>1. PICK N \in Nat : DOMAIN body = 1..N
  BY WholeFunctions
<1>2. Passes \in Nat
  BY TaintLimits
<1>3. \A k \in 1..N : \A T : T \subseteq S => Learn(T, body[k]) \subseteq S
  BY <1>1 DEF Learn, Closed, LetsOf
<1>4. ASSUME NEW T, T \subseteq S PROVE Pass(T, body) \subseteq S
  <2>1. Below(all, N, Learning!FoldLeft(Learn, T, body))
    <3>1. /\ Below(all, 0, T)
          /\ \A k \in 1..N : \A a : Below(all, k - 1, a) => Below(all, k, Learn(a, body[k]))
      BY <1>3, <1>4 DEF Below
    <3> HIDE DEF body, all
    <3> QED BY <1>1, <3>1, Learning!FoldHolds
  <2>2. Learning!FoldLeft(Learn, T, body) = Pass(T, body)
    BY DEF Pass, Learning!FoldLeft, FoldLeft, Learning!MapThenFoldSet, MapThenFoldSet,
           Learning!Max, Max
  <2> QED BY <2>1, <2>2 DEF Below
<1>5. b[0] = {} /\ b[1] = {} /\ b[2] = S
  OBVIOUS
<1>6. Between(b, Passes, Passing!FoldLeft(Pass, Params(f, J), passes))
  <2>1. DOMAIN passes = 1..Passes /\ \A n \in 1..Passes : passes[n] = body
    OBVIOUS
  <2> HIDE DEF passes, b, body
  <2>2. Between(b, 0, Params(f, J))
    BY <1>5 DEF Between, AtLeast
  <2>3. \A n \in 1..Passes : \A T : Between(b, n - 1, T) => Between(b, n, Pass(T, passes[n]))
    BY <1>4, <1>5, <2>1 DEF Between, AtLeast
  <2> QED BY <1>2, <2>1, <2>2, <2>3, Passing!FoldHolds
<1>7. Passing!FoldLeft(Pass, Params(f, J), passes) = FunctionTaint(f, J)
  BY DEF FunctionTaint, Passing!FoldLeft, FoldLeft, Passing!MapThenFoldSet, MapThenFoldSet,
         Passing!Max, Max
<1> HIDE DEF b, passes
<1> QED BY <1>5, <1>6, <1>7 DEF Between, AtLeast

LEMMA TaintIsAtMost ==
  ASSUME program \in Programs, NEW f, Known(f), NEW I, NEW J, J \subseteq I, NEW k
  PROVE  FunctionTaint(f, J) \subseteq AtMost(f, I, k)
<1>1. Params(f, J) \subseteq Params(f, I)
  BY DEF Params
<1>2. \A S : Params(f, I) \subseteq S /\ Closed(f, S) => FunctionTaint(f, J) \subseteq S
  BY <1>1, TaintIsClosed
<1>3. Params(f, I) \subseteq Names(f) /\ Closed(f, Names(f))
  BY WholeFunctions DEF Params, Names, Closed, LetsOf
<1> HIDE DEF Closed
<1> QED BY <1>2, <1>3 DEF AtMost

LEMMA FlowIsSaasTaint ==
  ASSUME program \in Programs, NEW f, Known(f), NEW k \in DOMAIN Body(f),
         ToSet(program.functions[f].params) \subseteq RequestNames
  PROVE  Flowing(f, All(f), k) \subseteq SaasTaint(f)
<1> DEFINE body == Body(f)
           params == ToSet(program.functions[f].params)
           prefix == [j \in 1..(k - 1) |-> body[j]]
           flow == FoldLeft(Learn, params, prefix)
           passes == [pass \in 1..Passes |-> body]
<1>1. PICK N \in Nat : DOMAIN body = 1..N
  BY WholeFunctions
<1>2. Passes \in Nat /\ Passes >= 1
  BY TaintLimits
<1>3. flow = Flowing(f, All(f), k) /\ params = params \cap RequestNames
  <2>1. Params(f, All(f)) = params
    BY WholeFunctions DEF Params
  <2> QED BY <2>1 DEF Flowing
<1> HIDE DEF body, params, flow
<1>4. ASSUME NEW T, params \subseteq T
      PROVE  params \subseteq SaasPass(T, body) /\ flow \subseteq SaasPass(T, body)
  <2>1. PICK h : /\ h[0] = T
                 /\ \A n \in 1..N : h[n] = SaasLearn(h[n - 1], body[n])
                 /\ h[N] = SaasLearning!FoldLeft(SaasLearn, T, body)
    BY <1>1, SaasLearning!FoldSteps
  <2>2. h[N] = SaasPass(T, body)
    BY <2>1 DEF SaasPass, SaasLearning!FoldLeft, FoldLeft, SaasLearning!MapThenFoldSet,
                MapThenFoldSet,
                SaasLearning!Max, Max
  <2> DEFINE P == {n \in Nat : n <= N => \A i \in 0..n : h[i] \subseteq h[n]}
  <2>3. 0 \in P
    OBVIOUS
  <2>4. ASSUME NEW n \in P PROVE n + 1 \in P
    <3> SUFFICES ASSUME n + 1 <= N PROVE n + 1 \in P
      OBVIOUS
    <3>1. n + 1 \in 1..N /\ (n + 1) - 1 = n /\ \A i \in 0..n : h[i] \subseteq h[n]
      OBVIOUS
    <3>2. h[n + 1] = SaasLearn(h[n], body[n + 1])
      BY <2>1, <3>1
    <3>3. h[n] \subseteq h[n + 1]
      BY <3>2 DEF SaasLearn
    <3>4. \A i \in 0..(n + 1) : i \in 0..n \/ i = n + 1
      OBVIOUS
    <3> QED BY <3>1, <3>3, <3>4
  <2>5. P = Nat
    <3> HIDE DEF P
    <3>1. P \in SUBSET Nat
      BY DEF P
    <3> QED BY <2>3, <2>4, <3>1, Learning!Induction
  <2>6. \A i \in 0..N : h[i] \subseteq h[N]
    BY <2>5
  <2>7. k - 1 \in 0..N
    BY <1>1 DEF body
  <2>8. Below(h, k - 1, Learning!FoldLeft(Learn, params, prefix))
    <3>1. Below(h, 0, params)
      BY <1>4, <2>1 DEF Below
    <3>2. ASSUME NEW n \in 1..(k - 1), NEW a, Below(h, n - 1, a)
          PROVE  Below(h, n, Learn(a, prefix[n]))
      <4>1. n \in 1..N /\ prefix[n] = body[n]
        BY <2>7
      <4>2. h[n] = SaasLearn(h[n - 1], body[n])
        BY <2>1, <4>1
      <4> HIDE DEF prefix
      <4> QED BY <3>2, <4>1, <4>2 DEF Below, Learn, SaasLearn
    <3>3. DOMAIN prefix = 1..(k - 1) /\ k - 1 \in Nat
      BY <2>7
    <3> HIDE DEF prefix
    <3> QED BY <3>1, <3>2, <3>3, Learning!FoldHolds
  <2>9. Learning!FoldLeft(Learn, params, prefix) = flow
    BY DEF flow, Learning!FoldLeft, FoldLeft, Learning!MapThenFoldSet, MapThenFoldSet,
           Learning!Max, Max
  <2> HIDE DEF P
  <2>10. N \in 0..N /\ 0 \in 0..N
    OBVIOUS
  <2> QED BY <1>4, <2>1, <2>2, <2>6, <2>7, <2>8, <2>9, <2>10 DEF Below
<1> DEFINE b == [i \in 0..1 |-> IF i = 0 THEN params ELSE flow]
<1>5. b[0] = params /\ b[1] = flow
  OBVIOUS
<1>6. AtLeast(b, Passes, SaasPassing!FoldLeft(SaasPass, params, passes))
  <2>1. DOMAIN passes = 1..Passes /\ \A n \in 1..Passes : passes[n] = body
    OBVIOUS
  <2> HIDE DEF passes, b
  <2>2. AtLeast(b, 0, params)
    BY <1>5 DEF AtLeast
  <2>3. \A n \in 1..Passes : \A T : AtLeast(b, n - 1, T) => AtLeast(b, n, SaasPass(T, passes[n]))
    BY <1>4, <1>5, <2>1 DEF AtLeast
  <2> QED BY <1>2, <2>1, <2>2, <2>3, SaasPassing!FoldHolds
<1>7. SaasPassing!FoldLeft(SaasPass, params, passes) = FoldLeft(SaasPass, params, passes)
  BY DEF SaasPassing!FoldLeft, FoldLeft, SaasPassing!MapThenFoldSet, MapThenFoldSet,
         SaasPassing!Max, Max
<1>8. SaasTaint(f) = FoldLeft(SaasPass, params, passes)
  BY <1>3 DEF SaasTaint, body, params
<1> HIDE DEF b, passes
<1> QED BY <1>2, <1>3, <1>5, <1>6, <1>7, <1>8 DEF AtLeast

-----------------------------------------------------------------------------
(* What the queue may hold.                                                *)
CallsOf(f) == {k \in DOMAIN Body(f) : Body(f)[k].op = "call"}

CalleesOf(f) == {Body(f)[k].callee : k \in CallsOf(f)}

IndexesOf(f) == All(f) \cup UNION {DOMAIN Body(f)[k].args : k \in CallsOf(f)}

Items ==
    LET functions == DOMAIN program.functions
    IN  [symbol : functions \cup UNION {CalleesOf(f) : f \in functions}, hops : Nat,
         tainted : SUBSET UNION {IndexesOf(f) : f \in functions}]

RootItem(f) == [symbol |-> f, hops |-> 0, tainted |-> All(f)]

CallItem(f, k, T, hops) ==
    [symbol |-> Body(f)[k].callee, hops |-> hops + 1, tainted |-> PassedOn(Body(f)[k], T)]

LEMMA ItemHops ==
  ASSUME NEW x \in Items PROVE x.hops \in Nat
  BY DEF Items

LEMMA RootIsItem ==
  ASSUME NEW f, Known(f) PROVE RootItem(f) \in Items
<1>1. f \in DOMAIN program.functions /\ 0 \in Nat
  BY DEF Known
<1>2. All(f) \subseteq UNION {IndexesOf(g) : g \in DOMAIN program.functions}
  BY <1>1 DEF IndexesOf
<1> QED BY <1>1, <1>2 DEF RootItem, Items

LEMMA CallIsItem ==
  ASSUME NEW f, Known(f), NEW k \in DOMAIN Body(f), NEW T, PassedOn(Body(f)[k], T) # {},
         NEW hops \in Nat
  PROVE  k \in CallsOf(f) /\ CallItem(f, k, T, hops) \in Items
<1>1. k \in CallsOf(f) /\ PassedOn(Body(f)[k], T) \subseteq DOMAIN Body(f)[k].args
  BY DEF PassedOn, CallsOf
<1>2. f \in DOMAIN program.functions /\ hops + 1 \in Nat
  BY DEF Known
<1>3. Body(f)[k].callee \in UNION {CalleesOf(g) : g \in DOMAIN program.functions}
  BY <1>1, <1>2 DEF CalleesOf
<1>4. PassedOn(Body(f)[k], T) \subseteq UNION {IndexesOf(g) : g \in DOMAIN program.functions}
  <2>1. PassedOn(Body(f)[k], T) \subseteq IndexesOf(f)
    BY <1>1 DEF IndexesOf
  <2> QED BY <1>2, <2>1
<1> QED BY <1>1, <1>2, <1>3, <1>4 DEF CallItem, Items

(* What the fold over the statements of a function has of its calls.       *)
CallsHold(c, n, found) ==
    /\ found.names = c.names /\ found.hops = c.hops + 1
    /\ found = [calls |-> found.calls, names |-> found.names, hops |-> found.hops]
    /\ found.calls \in Seq(Items)
    /\ \A i \in DOMAIN found.calls : \E k \in DOMAIN Body(c.f) :
            /\ PassedOn(Body(c.f)[k], c.names) # {}
            /\ found.calls[i] = CallItem(c.f, k, c.names, c.hops)
    /\ \A k \in 1..n : PassedOn(Body(c.f)[k], c.names) # {} =>
            \E i \in DOMAIN found.calls : found.calls[i] = CallItem(c.f, k, c.names, c.hops)

Calling == INSTANCE FoldTheorems WITH Op <- PassCall, Holds <- CallsHold

LEMMA CallsStep ==
  ASSUME NEW c, Known(c.f), c.hops \in Nat, NEW n \in Nat \ {0}, n \in DOMAIN Body(c.f),
         NEW found, CallsHold(c, n - 1, found)
  PROVE  CallsHold(c, n, PassCall(found, Body(c.f)[n]))
<1> DEFINE st == Body(c.f)[n]
           passed == PassedOn(st, c.names)
<1>1. CASE passed = {}
  <2>1. PassCall(found, st) = found
    BY <1>1 DEF PassCall, CallsHold
  <2>2. \A k \in 1..n : k \in 1..(n - 1) \/ k = n
    OBVIOUS
  <2> QED BY <1>1, <2>1, <2>2 DEF CallsHold
<1>2. CASE passed # {}
  <2> DEFINE new == CallItem(c.f, n, c.names, c.hops)
             calls == Append(found.calls, new)
  <2>1. new \in Items
    BY <1>2, CallIsItem
  <2>2. PassCall(found, st) = [calls |-> calls, names |-> c.names, hops |-> c.hops + 1]
    BY <1>2 DEF PassCall, CallsHold, CallItem
  <2>3. found.calls \in Seq(Items)
    BY DEF CallsHold
  <2>4. /\ calls \in Seq(Items) /\ DOMAIN calls = 1..(Len(found.calls) + 1)
        /\ DOMAIN found.calls = 1..Len(found.calls) /\ Len(found.calls) \in Nat
        /\ \A i \in DOMAIN found.calls : calls[i] = found.calls[i]
        /\ calls[Len(found.calls) + 1] = new
    BY <2>1, <2>3
  <2> HIDE DEF new, calls
  <2>5. ASSUME NEW i \in DOMAIN calls
        PROVE  \E k \in DOMAIN Body(c.f) :
            /\ PassedOn(Body(c.f)[k], c.names) # {}
            /\ calls[i] = CallItem(c.f, k, c.names, c.hops)
    <3>1. CASE i \in DOMAIN found.calls
      BY <2>4, <3>1 DEF CallsHold
    <3>2. CASE i = Len(found.calls) + 1
      BY <1>2, <2>4, <3>2 DEF new
    <3> QED BY <2>4, <3>1, <3>2
  <2>6. ASSUME NEW k \in 1..n, PassedOn(Body(c.f)[k], c.names) # {}
        PROVE  \E i \in DOMAIN calls : calls[i] = CallItem(c.f, k, c.names, c.hops)
    <3>1. CASE k \in 1..(n - 1)
      <4>1. PICK i \in DOMAIN found.calls : found.calls[i] = CallItem(c.f, k, c.names, c.hops)
        BY <2>6, <3>1 DEF CallsHold
      <4>2. i \in DOMAIN calls
        BY <2>4
      <4> QED BY <2>4, <4>1, <4>2
    <3>2. CASE k = n
      <4>1. Len(found.calls) + 1 \in DOMAIN calls
        BY <2>4
      <4> QED BY <2>4, <3>2, <4>1 DEF new
    <3> QED BY <3>1, <3>2
  <2> DEFINE g == PassCall(found, st)
  <2>7. /\ g.calls = calls /\ g.names = c.names /\ g.hops = c.hops + 1
        /\ g = [calls |-> g.calls, names |-> g.names, hops |-> g.hops]
    BY <2>2
  <2> HIDE DEF g
  <2>8. CallsHold(c, n, g)
    BY <2>4, <2>5, <2>6, <2>7 DEF CallsHold
  <2> QED BY <2>8 DEF g
<1> QED BY <1>1, <1>2

LEMMA PassedIs ==
  ASSUME program \in Programs, NEW f, Known(f), NEW T, NEW hops \in Nat
  PROVE  /\ Passed(f, T, hops) \in Seq(Items)
         /\ \A i \in DOMAIN Passed(f, T, hops) : \E k \in DOMAIN Body(f) :
                PassedOn(Body(f)[k], T) # {} /\ Passed(f, T, hops)[i] = CallItem(f, k, T, hops)
         /\ \A k \in DOMAIN Body(f) : PassedOn(Body(f)[k], T) # {} =>
                \E i \in DOMAIN Passed(f, T, hops) : Passed(f, T, hops)[i] = CallItem(f, k, T, hops)
<1> DEFINE c == [f |-> f, names |-> T, hops |-> hops]
           none == [calls |-> <<>>, names |-> T, hops |-> hops + 1]
<1>1. PICK N \in Nat : DOMAIN Body(f) = 1..N
  BY WholeFunctions
<1>2. CallsHold(c, N, Calling!FoldLeft(PassCall, none, Body(f)))
  <2>1. c.f = f /\ c.names = T /\ c.hops = hops
    OBVIOUS
  <2>2. CallsHold(c, 0, none)
    <3>1. <<>> \in Seq(Items) /\ DOMAIN <<>> = {}
      OBVIOUS
    <3> QED BY <2>1, <3>1 DEF CallsHold
  <2> HIDE DEF c, none
  <2>3. \A n \in 1..N : \A a : CallsHold(c, n - 1, a) => CallsHold(c, n, PassCall(a, Body(f)[n]))
    BY <1>1, <2>1, CallsStep
  <2> QED BY <1>1, <2>2, <2>3, Calling!FoldHolds
<1>3. Calling!FoldLeft(PassCall, none, Body(f)).calls = Passed(f, T, hops)
  BY DEF Passed, Calling!FoldLeft, FoldLeft, Calling!MapThenFoldSet, MapThenFoldSet, Calling!Max,
         Max
<1> HIDE DEF none
<1> QED BY <1>1, <1>2, <1>3 DEF CallsHold

(* What the fold over the roots of an entry point has of them.             *)
RootsHold(symbols, n, roots) ==
    /\ roots \in Seq(Items)
    /\ \A i \in DOMAIN roots : \E f \in ToSet(symbols) : Known(f) /\ roots[i] = RootItem(f)
    /\ \A k \in 1..n : Known(symbols[k]) =>
            \E i \in DOMAIN roots : roots[i] = RootItem(symbols[k])

Rooting == INSTANCE FoldTheorems WITH Op <- AddRoot, Holds <- RootsHold

LEMMA RootsStep ==
  ASSUME NEW symbols, NEW n \in Nat \ {0}, n \in DOMAIN symbols,
         NEW roots, RootsHold(symbols, n - 1, roots)
  PROVE  RootsHold(symbols, n, AddRoot(roots, symbols[n]))
<1> DEFINE f == symbols[n]
<1>1. CASE ~Known(f)
  <2>1. AddRoot(roots, f) = roots
    BY <1>1 DEF AddRoot
  <2>2. \A k \in 1..n : k \in 1..(n - 1) \/ k = n
    OBVIOUS
  <2> QED BY <1>1, <2>1, <2>2 DEF RootsHold
<1>2. CASE Known(f)
  <2> DEFINE more == Append(roots, RootItem(f))
  <2>1. AddRoot(roots, f) = more /\ RootItem(f) \in Items /\ roots \in Seq(Items) /\ f \in ToSet(symbols)
    BY <1>2, RootIsItem DEF AddRoot, RootItem, RootsHold, ToSet
  <2>2. /\ more \in Seq(Items) /\ DOMAIN more = 1..(Len(roots) + 1)
        /\ DOMAIN roots = 1..Len(roots) /\ Len(roots) \in Nat
        /\ \A i \in DOMAIN roots : more[i] = roots[i]
        /\ more[Len(roots) + 1] = RootItem(f)
    BY <2>1
  <2> HIDE DEF more
  <2>3. ASSUME NEW i \in DOMAIN more
        PROVE  \E g \in ToSet(symbols) : Known(g) /\ more[i] = RootItem(g)
    <3>1. CASE i \in DOMAIN roots
      BY <2>2, <3>1 DEF RootsHold
    <3>2. CASE i = Len(roots) + 1
      BY <1>2, <2>1, <2>2, <3>2
    <3> QED BY <2>2, <3>1, <3>2
  <2>4. ASSUME NEW k \in 1..n, Known(symbols[k])
        PROVE  \E i \in DOMAIN more : more[i] = RootItem(symbols[k])
    <3>1. CASE k \in 1..(n - 1)
      <4>1. PICK i \in DOMAIN roots : roots[i] = RootItem(symbols[k])
        BY <2>4, <3>1 DEF RootsHold
      <4>2. i \in DOMAIN more
        BY <2>2
      <4> QED BY <2>2, <4>1, <4>2
    <3>2. CASE k = n
      <4>1. Len(roots) + 1 \in DOMAIN more
        BY <2>2
      <4> QED BY <2>2, <3>2, <4>1
    <3> QED BY <3>1, <3>2
  <2> QED BY <2>1, <2>2, <2>3, <2>4 DEF RootsHold
<1> QED BY <1>1, <1>2

LEMMA RootsAre ==
  ASSUME NEW symbols, symbols \in Seq(ToSet(symbols))
  PROVE  LET roots == FoldLeft(AddRoot, <<>>, symbols)
         IN  /\ roots \in Seq(Items)
             /\ \A i \in DOMAIN roots : \E f \in ToSet(symbols) : Known(f) /\ roots[i] = RootItem(f)
             /\ \A f \in ToSet(symbols) : Known(f) => \E i \in DOMAIN roots : roots[i] = RootItem(f)
<1>1. PICK N \in Nat : DOMAIN symbols = 1..N
  OBVIOUS
<1>2. RootsHold(symbols, N, Rooting!FoldLeft(AddRoot, <<>>, symbols))
  <2>1. RootsHold(symbols, 0, <<>>)
    <3>1. <<>> \in Seq(Items) /\ DOMAIN <<>> = {}
      OBVIOUS
    <3> QED BY <3>1 DEF RootsHold
  <2>2. \A n \in 1..N : \A a :
            RootsHold(symbols, n - 1, a) => RootsHold(symbols, n, AddRoot(a, symbols[n]))
    BY <1>1, RootsStep
  <2> QED BY <1>1, <2>1, <2>2, Rooting!FoldHolds
<1>3. Rooting!FoldLeft(AddRoot, <<>>, symbols) = FoldLeft(AddRoot, <<>>, symbols)
  BY DEF Rooting!FoldLeft, FoldLeft, Rooting!MapThenFoldSet, MapThenFoldSet, Rooting!Max, Max
<1> QED BY <1>1, <1>2, <1>3 DEF RootsHold, ToSet

-----------------------------------------------------------------------------
Same(values, n, a) == a = values[n]

Flowed == INSTANCE FoldTheorems WITH Op <- FlowsOn, Holds <- Same
MayFlow == INSTANCE FoldTheorems WITH Op <- MayFlowOn, Holds <- Same

(* The pairs in one hop more.                                              *)
LEMMA FlowReachedStep ==
  ASSUME NEW e, NEW d \in Nat
  PROVE  /\ Reached(e, 0, FlowsOn) = RootPairs(e)
         /\ Reached(e, d + 1, FlowsOn) = FlowsOn(Reached(e, d, FlowsOn), d + 1)
<1> DEFINE b == RootPairs(e)
           to(n) == [hop \in 1..n |-> hop]
<1>1. ASSUME NEW n \in Nat PROVE Reached(e, n, FlowsOn) = Flowed!FoldLeft(FlowsOn, b, to(n))
  BY DEF Reached, Flowed!FoldLeft, FoldLeft, Flowed!MapThenFoldSet, MapThenFoldSet, Flowed!Max, Max
<1>2. \A n \in Nat : DOMAIN to(n) = 1..n /\ \A k \in 1..n : to(n)[k] = k
  OBVIOUS
<1> HIDE DEF to, b
<1>3. PICK h : /\ h[0] = b
               /\ \A k \in 1..(d + 1) : h[k] = FlowsOn(h[k - 1], to(d + 1)[k])
               /\ h[d + 1] = Flowed!FoldLeft(FlowsOn, b, to(d + 1))
  <2>1. d + 1 \in Nat /\ DOMAIN to(d + 1) = 1..(d + 1)
    BY <1>2
  <2> QED BY <2>1, Flowed!FoldSteps
<1>4. ASSUME NEW n \in Nat, n <= d + 1 PROVE Reached(e, n, FlowsOn) = h[n]
  <2>1. Same(h, 0, b)
    BY <1>3 DEF Same
  <2>2. \A k \in 1..n : \A a : Same(h, k - 1, a) => Same(h, k, FlowsOn(a, to(n)[k]))
    <3>1. \A k \in 1..n : k \in 1..(d + 1) /\ to(n)[k] = k /\ to(d + 1)[k] = k
      BY <1>2, <1>4
    <3> QED BY <1>3, <3>1 DEF Same
  <2>3. Same(h, n, Flowed!FoldLeft(FlowsOn, b, to(n)))
    BY <1>2, <2>1, <2>2, Flowed!FoldHolds
  <2> QED BY <1>1, <2>3 DEF Same
<1>5. 0 \in Nat /\ 0 <= d + 1 /\ d <= d + 1 /\ d + 1 \in Nat /\ d + 1 \in 1..(d + 1) /\ (d + 1) - 1 = d
  OBVIOUS
<1>6. h[d + 1] = FlowsOn(h[d], d + 1)
  BY <1>2, <1>3, <1>5
<1>7. /\ Reached(e, 0, FlowsOn) = h[0] /\ Reached(e, d, FlowsOn) = h[d]
      /\ Reached(e, d + 1, FlowsOn) = h[d + 1]
  BY <1>4, <1>5
<1> QED BY <1>3, <1>6, <1>7 DEF b

LEMMA MayReachedStep ==
  ASSUME NEW e, NEW d \in Nat
  PROVE  /\ Reached(e, 0, MayFlowOn) = RootPairs(e)
         /\ Reached(e, d + 1, MayFlowOn) = MayFlowOn(Reached(e, d, MayFlowOn), d + 1)
<1> DEFINE b == RootPairs(e)
           to(n) == [hop \in 1..n |-> hop]
<1>1. ASSUME NEW n \in Nat PROVE Reached(e, n, MayFlowOn) = MayFlow!FoldLeft(MayFlowOn, b, to(n))
  BY DEF Reached, MayFlow!FoldLeft, FoldLeft, MayFlow!MapThenFoldSet, MapThenFoldSet, MayFlow!Max,
         Max
<1>2. \A n \in Nat : DOMAIN to(n) = 1..n /\ \A k \in 1..n : to(n)[k] = k
  OBVIOUS
<1> HIDE DEF to, b
<1>3. PICK h : /\ h[0] = b
               /\ \A k \in 1..(d + 1) : h[k] = MayFlowOn(h[k - 1], to(d + 1)[k])
               /\ h[d + 1] = MayFlow!FoldLeft(MayFlowOn, b, to(d + 1))
  <2>1. d + 1 \in Nat /\ DOMAIN to(d + 1) = 1..(d + 1)
    BY <1>2
  <2> QED BY <2>1, MayFlow!FoldSteps
<1>4. ASSUME NEW n \in Nat, n <= d + 1 PROVE Reached(e, n, MayFlowOn) = h[n]
  <2>1. Same(h, 0, b)
    BY <1>3 DEF Same
  <2>2. \A k \in 1..n : \A a : Same(h, k - 1, a) => Same(h, k, MayFlowOn(a, to(n)[k]))
    <3>1. \A k \in 1..n : k \in 1..(d + 1) /\ to(n)[k] = k /\ to(d + 1)[k] = k
      BY <1>2, <1>4
    <3> QED BY <1>3, <3>1 DEF Same
  <2>3. Same(h, n, MayFlow!FoldLeft(MayFlowOn, b, to(n)))
    BY <1>2, <2>1, <2>2, MayFlow!FoldHolds
  <2> QED BY <1>1, <2>3 DEF Same
<1>5. 0 \in Nat /\ 0 <= d + 1 /\ d <= d + 1 /\ d + 1 \in Nat /\ d + 1 \in 1..(d + 1) /\ (d + 1) - 1 = d
  OBVIOUS
<1>6. h[d + 1] = MayFlowOn(h[d], d + 1)
  BY <1>2, <1>3, <1>5
<1>7. /\ Reached(e, 0, MayFlowOn) = h[0] /\ Reached(e, d, MayFlowOn) = h[d]
      /\ Reached(e, d + 1, MayFlowOn) = h[d + 1]
  BY <1>4, <1>5
<1> QED BY <1>3, <1>6, <1>7 DEF b

(* A pair that calls lead on to.                                           *)
Onward(p, k, T) == [symbol |-> Body(p.symbol)[k].callee, tainted |-> PassedOn(Body(p.symbol)[k], T)]

LEMMA MayFlowOnTo ==
  ASSUME NEW pairs, NEW d, NEW p \in pairs, NEW k \in DOMAIN Body(p.symbol),
         PassedOn(Body(p.symbol)[k], AtMost(p.symbol, p.tainted, k)) # {},
         Known(Body(p.symbol)[k].callee)
  PROVE  Onward(p, k, AtMost(p.symbol, p.tainted, k)) \in MayFlowOn(pairs, d)
<1>1. Onward(p, k, AtMost(p.symbol, p.tainted, k)) \in CalledFrom(p, AtMost)
  BY DEF Onward, CalledFrom
<1> QED BY <1>1 DEF MayFlowOn

LEMMA CarriesMore ==
  ASSUME NEW st, NEW S, NEW T, S \subseteq T
  PROVE  PassedOn(st, S) \subseteq PassedOn(st, T)
  BY DEF PassedOn, Carries

(* What the fold over the statements of a function has found.              *)
FoundHold(c, n, found) ==
    /\ found = [symbol |-> c.f, names |-> c.names, list |-> found.list]
    /\ found.list \in Seq(ToSet(found.list))
    /\ \A k \in 1..n : SinkOpen(c.f, k, c.names) =>
            \E i \in DOMAIN found.list : found.list[i] = SinkFound(c.f, k)
    /\ \A i \in DOMAIN found.list : \E k :
            SinkOpen(c.f, k, c.names) /\ found.list[i] = SinkFound(c.f, k)

Telling == INSTANCE FoldTheorems WITH Op <- TellSink, Holds <- FoundHold

(* A statement keeps the list exactly of the open sinks so far.            *)
LEMMA TellStep ==
  ASSUME NEW c, NEW n \in Nat \ {0}, NEW found, FoundHold(c, n - 1, found)
  PROVE  FoundHold(c, n, TellSink(found, n))
<1> DEFINE list == found.list
           new == SinkFound(c.f, n)
           g == TellSink(found, n)
<1>1. /\ found = [symbol |-> c.f, names |-> c.names, list |-> list]
      /\ list \in Seq(ToSet(list)) /\ \A k \in 1..n : k \in 1..(n - 1) \/ k = n
  BY DEF FoundHold
<1>2. CASE ~SinkOpen(c.f, n, c.names)
  <2>1. g = found
    <3>1. found.symbol = c.f /\ found.names = c.names
      BY <1>1
    <3> QED BY <1>2, <3>1 DEF TellSink
  <2>2. /\ found = [symbol |-> c.f, names |-> c.names, list |-> found.list]
        /\ found.list \in Seq(ToSet(found.list))
        /\ \A i \in DOMAIN found.list : \E k :
                SinkOpen(c.f, k, c.names) /\ found.list[i] = SinkFound(c.f, k)
    BY DEF FoundHold
  <2>3. ASSUME NEW k \in 1..n, SinkOpen(c.f, k, c.names)
        PROVE  \E i \in DOMAIN found.list : found.list[i] = SinkFound(c.f, k)
    <3>1. k \in 1..(n - 1)
      BY <1>1, <1>2, <2>3
    <3> QED BY <2>3, <3>1 DEF FoundHold
  <2>4. FoundHold(c, n, found)
    <3> HIDE DEF list
    <3> QED BY <2>2, <2>3 DEF FoundHold
  <2> HIDE DEF g
  <2> QED BY <2>1, <2>4 DEF g
<1>3. CASE SinkOpen(c.f, n, c.names)
  <2>1. g = [symbol |-> c.f, names |-> c.names, list |-> Append(list, new)]
    <3>1. found.symbol = c.f /\ found.names = c.names
      BY <1>1
    <3>2. g = [found EXCEPT !.list = Append(list, new)]
      BY <1>3, <3>1 DEF TellSink
    <3> HIDE DEF g, new, list
    <3> QED BY <1>1, <3>2
  <2>2. list \in Seq(ToSet(list) \cup {new})
    BY <1>1
  <2> DEFINE more == Append(list, new)
  <2> HIDE DEF new, g
  <2>3. /\ DOMAIN list = 1..Len(list) /\ Len(list) \in Nat
        /\ DOMAIN more = 1..(Len(list) + 1)
        /\ \A i \in DOMAIN list : more[i] = list[i]
        /\ more[Len(list) + 1] = new
    BY <2>2
  <2> HIDE DEF more
  <2>4. more \in Seq(ToSet(more))
    <3>1. \A i \in 1..(Len(list) + 1) : more[i] \in ToSet(more)
      BY <2>3 DEF ToSet
    <3>2. more \in Seq(ToSet(list) \cup {new})
      BY <2>2 DEF more
    <3>3. more = [i \in 1..(Len(list) + 1) |-> more[i]]
      BY <2>3, <3>2
    <3> QED BY <2>3, <3>1, <3>3
  <2>5. ASSUME NEW k \in 1..n, SinkOpen(c.f, k, c.names)
        PROVE  \E i \in DOMAIN more : more[i] = SinkFound(c.f, k)
    <3>1. CASE k \in 1..(n - 1)
      <4>1. PICK i \in DOMAIN list : list[i] = SinkFound(c.f, k)
        BY <2>5, <3>1 DEF FoundHold
      <4> QED BY <2>3, <4>1
    <3>2. CASE k = n
      <4>1. Len(list) + 1 \in DOMAIN more
        BY <2>3
      <4> QED BY <2>3, <3>2, <4>1 DEF new
    <3> QED BY <1>1, <3>1, <3>2
  <2>6. ASSUME NEW i \in DOMAIN more
        PROVE  \E k : SinkOpen(c.f, k, c.names) /\ more[i] = SinkFound(c.f, k)
    <3>1. CASE i \in DOMAIN list
      BY <2>3, <3>1 DEF FoundHold
    <3>2. CASE i = Len(list) + 1
      BY <1>3, <2>3, <3>2 DEF new
    <3> QED BY <2>3, <3>1, <3>2
  <2>7. g.list = more /\ g = [symbol |-> c.f, names |-> c.names, list |-> g.list]
    BY <2>1 DEF more
  <2>8. FoundHold(c, n, g)
    BY <2>4, <2>5, <2>6, <2>7 DEF FoundHold
  <2> QED BY <2>8 DEF g
<1> QED BY <1>2, <1>3

(* What is found in a function.                                            *)
FoundIn(f, T) == {SinkFound(f, k) : k \in {s \in SinksOf(f) : SinkOpen(f, s, T)}}

(* What is found in a function is told of its open sinks and no others.    *)
LEMMA FoundInIs ==
  ASSUME NEW f, NEW T
  PROVE  /\ \A k : SinkOpen(f, k, T) => SinkFound(f, k) \in FoundIn(f, T)
         /\ \A x \in FoundIn(f, T) : \E k : SinkOpen(f, k, T) /\ x = SinkFound(f, k)
  BY DEF FoundIn, SinkOpen

LEMMA AcrossFinds ==
  ASSUME program \in Programs, NEW f, Known(f), NEW T
  PROVE  Across(f, T) \in Seq(ToSet(Across(f, T))) /\ ToSet(Across(f, T)) = FoundIn(f, T)
<1> DEFINE c == [f |-> f, names |-> T]
           none == [symbol |-> f, names |-> T, list |-> <<>>]
           indexes == [k \in DOMAIN Body(f) |-> k]
           all == Telling!FoldLeft(TellSink, none, indexes)
<1>1. PICK N \in Nat : DOMAIN Body(f) = 1..N
  BY WholeFunctions
<1>2. FoundHold(c, N, all)
  <2>1. c.f = f /\ c.names = T
    OBVIOUS
  <2>2. FoundHold(c, 0, none)
    <3>1. <<>> \in Seq(ToSet(<<>>)) /\ DOMAIN <<>> = {}
      OBVIOUS
    <3> QED BY <2>1, <3>1 DEF FoundHold
  <2>3. DOMAIN indexes = 1..N /\ \A n \in 1..N : indexes[n] = n /\ n \in Nat \ {0}
    BY <1>1
  <2> HIDE DEF c, none, indexes
  <2>4. \A n \in 1..N : \A a : FoundHold(c, n - 1, a) => FoundHold(c, n, TellSink(a, indexes[n]))
    BY <2>3, TellStep
  <2> QED BY <2>2, <2>3, <2>4, Telling!FoldHolds
<1>3. all.list = Across(f, T)
  BY DEF Across, Telling!FoldLeft, FoldLeft, Telling!MapThenFoldSet, MapThenFoldSet, Telling!Max,
         Max
<1>4. \A k : SinkOpen(f, k, T) => k \in 1..N
  BY <1>1 DEF SinkOpen, SinksOf
<1> DEFINE list == Across(f, T)
<1>5. /\ list \in Seq(ToSet(list))
      /\ \A k \in 1..N : SinkOpen(f, k, T) => \E i \in DOMAIN list : list[i] = SinkFound(f, k)
      /\ \A i \in DOMAIN list : \E k : SinkOpen(f, k, T) /\ list[i] = SinkFound(f, k)
  <2> HIDE DEF all
  <2> QED BY <1>2, <1>3 DEF FoundHold
<1> HIDE DEF list
<1>6. /\ \A k : SinkOpen(f, k, T) => SinkFound(f, k) \in ToSet(list)
      /\ \A x \in ToSet(list) : \E k : SinkOpen(f, k, T) /\ x = SinkFound(f, k)
  BY <1>4, <1>5 DEF ToSet
<1>7. ToSet(list) = FoundIn(f, T)
  <2>1. ToSet(list) \subseteq FoundIn(f, T)
    BY <1>6, FoundInIs
  <2>2. FoundIn(f, T) \subseteq ToSet(list)
    BY <1>6, FoundInIs
  <2> QED BY <2>1, <2>2
<1> QED BY <1>5, <1>7 DEF list

(* What a list has more, if another is put to its end.                     *)
LEMMA JoinedLists ==
  ASSUME NEW s, NEW t, s \in Seq(ToSet(s)), t \in Seq(ToSet(t))
  PROVE  s \o t \in Seq(ToSet(s \o t)) /\ ToSet(s \o t) = ToSet(s) \cup ToSet(t)
<1> DEFINE S == ToSet(s)
           T == ToSet(t)
           st == s \o t
<1>1. s \in Seq(S \cup T) /\ t \in Seq(S \cup T)
  OBVIOUS
<1>2. /\ Len(s) \in Nat /\ Len(t) \in Nat /\ DOMAIN s = 1..Len(s) /\ DOMAIN t = 1..Len(t)
      /\ st \in Seq(S \cup T) /\ DOMAIN st = 1..(Len(s) + Len(t))
      /\ \A i \in 1..(Len(s) + Len(t)) : st[i] = IF i <= Len(s) THEN s[i] ELSE t[i - Len(s)]
  BY <1>1
<1> HIDE DEF S, T, st
<1>3. ToSet(st) \subseteq S \cup T
  BY <1>2 DEF ToSet
<1>4. S \subseteq ToSet(st)
  <2>1. \A i \in DOMAIN s : i \in DOMAIN st /\ st[i] = s[i]
    BY <1>2
  <2> QED BY <2>1 DEF ToSet, S
<1>5. T \subseteq ToSet(st)
  <2>1. \A i \in DOMAIN t : Len(s) + i \in DOMAIN st /\ st[Len(s) + i] = t[i]
    BY <1>2
  <2> QED BY <2>1 DEF ToSet, T
<1>6. ToSet(st) = S \cup T
  BY <1>3, <1>4, <1>5
<1>7. st \in Seq(ToSet(st))
  BY <1>2, <1>6
<1> QED BY <1>6, <1>7 DEF st, S, T

LEMMA FlowingSinks ==
  ASSUME NEW p, NEW x \in OpenSinks(p, Flowing)
  PROVE  \E k : SinkOpen(p.symbol, k, Flowing(p.symbol, p.tainted, k)) /\ x = SinkFound(p.symbol, k)
  BY DEF OpenSinks, SinkOpen

LEMMA MaySinks ==
  ASSUME NEW p, NEW k, SinkOpen(p.symbol, k, AtMost(p.symbol, p.tainted, k))
  PROVE  SinkFound(p.symbol, k) \in OpenSinks(p, AtMost)
  BY DEF OpenSinks, SinkOpen

LEMMA SinkOpenMore ==
  ASSUME NEW f, NEW k, NEW S, NEW T, S \subseteq T, SinkOpen(f, k, S)
  PROVE  SinkOpen(f, k, T) /\ k \in DOMAIN Body(f)
  BY DEF SinkOpen, FirstCarries, Carries, SinksOf

(* What the search across functions finds in an entry point, the rules of  *)
(* single functions find.                                                  *)
LEMMA DirectFindsAcross ==
  ASSUME NEW f, NEW k, SinkOpen(f, k, FunctionTaint(f, All(f)))
  PROVE  SinkFound(f, k) \in Direct(f)
<1>1. k \in SinksOf(f) /\ Body(f)[k].kind \in {"raw", "outbound", "process", "shell", "file"}
  BY DEF SinkOpen, AcrossRule
<1>2. DirectFinds(f, k, FunctionTaint(f, All(f)))
  <2>1. Body(f)[k].kind \in DOMAIN DirectRule
    BY <1>1 DEF DirectRule
  <2> QED BY <2>1 DEF DirectFinds, DirectCarries, SinkOpen
<1>3. DirectRule[Body(f)[k].kind] = AcrossRule[Body(f)[k].kind]
  <2>1. ASSUME NEW x \in {"raw", "outbound", "process", "shell", "file"}
        PROVE  DirectRule[x] = AcrossRule[x]
    BY DEF DirectRule, AcrossRule
  <2> QED BY <1>1, <2>1
<1> QED BY <1>1, <1>2, <1>3 DEF Direct, SinkFound

-----------------------------------------------------------------------------
(* The program does not change, and what is said of it alone.              *)
MayReachedSteps ==
    \A e : \A d \in Nat : /\ Reached(e, 0, MayFlowOn) = RootPairs(e)
                          /\ Reached(e, d + 1, MayFlowOn) = MayFlowOn(Reached(e, d, MayFlowOn), d + 1)

LEMMA MayReachedIs == MayReachedSteps
  BY MayReachedStep DEF MayReachedSteps

LEMMA SameFunctions ==
  ASSUME program' = program
  PROVE  /\ \A f : Known(f)' = Known(f) /\ Body(f)' = Body(f) /\ All(f)' = All(f)
         /\ \A f, I : FunctionTaint(f, I)' = FunctionTaint(f, I)
         /\ \A f, T : FoundIn(f, T)' = FoundIn(f, T)
         /\ \A f, I, k : AtMost(f, I, k)' = AtMost(f, I, k)
         /\ \A e : RootPairs(e)' = RootPairs(e)
         /\ \A f, k, T : SinkOpen(f, k, T)' = SinkOpen(f, k, T)
  BY DEF Known, Body, All, FunctionTaint, Params, FoundIn, SinkFound, SinksOf, Open,
         PriorGuard, AtMost, Names, LetsOf, Closed, RootPairs, SinkOpen

LEMMA SameReached ==
  ASSUME program' = program, NEW e
  PROVE  \A d \in Nat : Reached(e, d, MayFlowOn)' = Reached(e, d, MayFlowOn)
<1>1. MayReachedSteps'
  BY MayReachedIs, PTL
<1> DEFINE P == {d \in Nat : Reached(e, d, MayFlowOn)' = Reached(e, d, MayFlowOn)}
<1>2. 0 \in P
  BY <1>1, MayReachedIs, SameFunctions DEF MayReachedSteps
<1>3. ASSUME NEW d \in P PROVE d + 1 \in P
  <2>1. Reached(e, d + 1, MayFlowOn)' = MayFlowOn(Reached(e, d, MayFlowOn), d + 1)'
    BY <1>1 DEF MayReachedSteps
  <2>2. Reached(e, d + 1, MayFlowOn) = MayFlowOn(Reached(e, d, MayFlowOn), d + 1)
    BY MayReachedIs DEF MayReachedSteps
  <2>3. MayFlowOn(Reached(e, d, MayFlowOn), d + 1)' = MayFlowOn(Reached(e, d, MayFlowOn), d + 1)
    <3>1. Reached(e, d, MayFlowOn)' = Reached(e, d, MayFlowOn)
      OBVIOUS
    <3>2. \A f, I, k : AtMost(f, I, k)' = AtMost(f, I, k)
      BY SameFunctions
    <3>3. \A f : Known(f)' = Known(f) /\ Body(f)' = Body(f)
      BY SameFunctions
    <3>4. \A p : CalledFrom(p, AtMost)' = CalledFrom(p, AtMost)
      BY <3>2, <3>3 DEF CalledFrom
    <3> QED BY <3>1, <3>4 DEF MayFlowOn
  <2>4. Reached(e, d + 1, MayFlowOn)' = Reached(e, d + 1, MayFlowOn)
    BY <2>1, <2>2, <2>3
  <2> QED BY <2>4
<1>4. P = Nat
  <2> HIDE DEF P
  <2>1. P \in SUBSET Nat
    BY DEF P
  <2> QED BY <1>2, <1>3, <2>1, Learning!Induction
<1> QED BY <1>4

-----------------------------------------------------------------------------
(* The queue: what is further from the entry point comes later.            *)
InQueue(x, q) == \E i \in DOMAIN q : q[i] = x

Nearing(q) ==
    \A i, j \in DOMAIN q : (i < j => q[i].hops <= q[j].hops) /\ q[j].hops <= q[i].hops + 1

(* What is left of a queue when its head was taken and calls were          *)
(* enqueued.                                                               *)
Stepped(q, calls, r) ==
    /\ r \in Seq(Items) /\ Nearing(r)
    /\ \A x : InQueue(x, q) => x = Head(q) \/ InQueue(x, r)
    /\ \A x : InQueue(x, calls) => InQueue(x, r)
    /\ \A x : InQueue(x, r) => InQueue(x, Tail(q)) \/ InQueue(x, calls)
    /\ \A x : InQueue(x, Tail(q)) => InQueue(x, q)
    /\ \A x : InQueue(x, r) => Head(q).hops <= x.hops

LEMMA QueueStep ==
  ASSUME NEW q, q \in Seq(Items), q # <<>>, Nearing(q), NEW calls, calls \in Seq(Items),
         \A i \in DOMAIN calls : calls[i].hops = Head(q).hops + 1
  PROVE  Stepped(q, calls, Tail(q) \o calls)
<1> DEFINE r == Tail(q) \o calls
           n == Len(q) - 1
           m == Len(calls)
           h == Head(q).hops
<1>1. /\ n \in Nat /\ m \in Nat /\ Len(q) = n + 1 /\ DOMAIN q = 1..(n + 1) /\ DOMAIN calls = 1..m
      /\ Tail(q) \in Seq(Items) /\ DOMAIN Tail(q) = 1..n /\ Len(Tail(q)) = n
      /\ \A i \in 1..n : Tail(q)[i] = q[i + 1] /\ i + 1 \in 1..(n + 1)
      /\ Head(q) = q[1] /\ 1 \in DOMAIN q
  OBVIOUS
<1>2. r \in Seq(Items) /\ DOMAIN r = 1..(n + m) /\ Len(r) = n + m
  BY <1>1
<1>3. \A i \in 1..n : r[i] = q[i + 1] /\ i \in 1..(n + m)
  BY <1>1
<1>4. \A i \in 1..m : r[n + i] = calls[i] /\ n + i \in 1..(n + m)
  BY <1>1
<1> HIDE DEF n, m, r
<1>5. \A i \in 1..(n + m) : i \in 1..n \/ \E j \in 1..m : i = n + j
  <2> SUFFICES ASSUME NEW i \in 1..(n + m), i \notin 1..n PROVE \E j \in 1..m : i = n + j
    OBVIOUS
  <2>1. i - n \in 1..m /\ i = n + (i - n)
    BY <1>1
  <2> QED BY <2>1
<1>6. \A i \in DOMAIN q : q[i] \in Items /\ q[i].hops \in Nat
  BY <1>1, ItemHops
<1>7. h \in Nat
  BY <1>1, <1>6
<1>8. \A i \in 1..(n + 1) : i > 1 => i - 1 \in 1..n /\ (i - 1) + 1 = i
  BY <1>1
<1>9. \A i \in 1..n : r[i].hops \in Nat /\ h <= r[i].hops /\ r[i].hops <= h + 1
  <2> SUFFICES ASSUME NEW i \in 1..n PROVE r[i].hops \in Nat /\ h <= r[i].hops /\ r[i].hops <= h + 1
    OBVIOUS
  <2>1. i + 1 \in DOMAIN q /\ 1 \in DOMAIN q /\ 1 < i + 1
    BY <1>1
  <2> QED BY <1>1, <1>3, <1>6, <2>1 DEF Nearing
<1>10. \A i \in 1..m : r[n + i].hops = h + 1
  BY <1>1, <1>4
<1>11. \A i, j \in 1..n : i < j => r[i].hops <= r[j].hops
  <2> SUFFICES ASSUME NEW i \in 1..n, NEW j \in 1..n, i < j PROVE r[i].hops <= r[j].hops
    OBVIOUS
  <2>1. i + 1 \in DOMAIN q /\ j + 1 \in DOMAIN q /\ i + 1 < j + 1
    BY <1>1
  <2> QED BY <1>3, <2>1 DEF Nearing
<1>12. \A i \in DOMAIN r : r[i].hops \in Nat /\ h <= r[i].hops /\ r[i].hops <= h + 1
  BY <1>2, <1>5, <1>7, <1>9, <1>10
<1>13. Nearing(r)
  <2>1. ASSUME NEW i \in DOMAIN r, NEW j \in DOMAIN r, i < j PROVE r[i].hops <= r[j].hops
    <3>1. CASE j \in 1..n
      <4>1. i \in 1..n
        BY <1>1, <1>2, <2>1, <3>1
      <4> QED BY <1>11, <2>1, <3>1, <4>1
    <3>2. CASE j \notin 1..n
      <4>1. r[j].hops = h + 1
        BY <1>2, <1>5, <1>10, <3>2
      <4> QED BY <1>12, <4>1
    <3> QED BY <3>1, <3>2
  <2>2. ASSUME NEW i \in DOMAIN r, NEW j \in DOMAIN r PROVE r[j].hops <= r[i].hops + 1
    <3>1. /\ r[i].hops \in Nat /\ h <= r[i].hops
          /\ r[j].hops \in Nat /\ r[j].hops <= h + 1
      BY <1>12
    <3> HIDE DEF h
    <3>2. \A a, b, g \in Nat : g <= a /\ b <= g + 1 => b <= a + 1
      OBVIOUS
    <3> QED BY <1>7, <3>1, <3>2
  <2> QED BY <2>1, <2>2 DEF Nearing
<1>14. \A x : InQueue(x, q) => x = Head(q) \/ InQueue(x, r)
  <2> SUFFICES ASSUME NEW i \in DOMAIN q, i # 1 PROVE InQueue(q[i], r)
    BY <1>1 DEF InQueue
  <2>1. i - 1 \in 1..n /\ (i - 1) + 1 = i
    BY <1>1, <1>8
  <2> QED BY <1>2, <1>3, <2>1 DEF InQueue
<1>15. \A x : InQueue(x, calls) => InQueue(x, r)
  BY <1>1, <1>2, <1>4 DEF InQueue
<1>16. \A x : InQueue(x, r) => InQueue(x, Tail(q)) \/ InQueue(x, calls)
  <2> SUFFICES ASSUME NEW i \in DOMAIN r PROVE InQueue(r[i], Tail(q)) \/ InQueue(r[i], calls)
    BY DEF InQueue
  <2>1. CASE i \in 1..n
    <3>1. Tail(q)[i] = r[i] /\ i \in DOMAIN Tail(q)
      BY <1>1, <1>3, <2>1
    <3> QED BY <3>1 DEF InQueue
  <2>2. ASSUME NEW j \in 1..m, i = n + j PROVE InQueue(r[i], calls)
    BY <1>1, <1>4, <2>2 DEF InQueue
  <2> QED BY <1>2, <1>5, <2>1, <2>2
<1>17. \A x : InQueue(x, Tail(q)) => InQueue(x, q)
  BY <1>1 DEF InQueue
<1>18. \A x : InQueue(x, r) => Head(q).hops <= x.hops
  BY <1>12 DEF InQueue
<1>19. Stepped(q, calls, r)
  BY <1>2, <1>13, <1>14, <1>15, <1>16, <1>17, <1>18 DEF Stepped
<1> QED BY <1>19 DEF r

-----------------------------------------------------------------------------
(* How many calls from the entry point e each pair was met: D.             *)
RootMet(D, q, f) ==
    \/ <<f, All(f)>> \in DOMAIN D /\ D[<<f, All(f)>>] = 0
    \/ InQueue(RootItem(f), q)

CallMet(D, q, p, k) ==
    LET T == FunctionTaint(p[1], p[2])
        next == <<Body(p[1])[k].callee, PassedOn(Body(p[1])[k], T)>>
    IN  \/ D[p] = MaxHops
        \/ next \in DOMAIN D /\ D[next] <= D[p] + 1
        \/ InQueue(CallItem(p[1], k, T, D[p]), q)

CallsMet(D, q, p) ==
    \A k \in DOMAIN Body(p[1]) :
        PassedOn(Body(p[1])[k], FunctionTaint(p[1], p[2])) # {} => CallMet(D, q, p, k)

SinksTold(D, e, p, found) ==
    IF D[p] = 0 THEN p[1] \in ToSet(e.roots) /\ p[2] = All(p[1])
    ELSE FoundIn(p[1], FunctionTaint(p[1], p[2])) \subseteq found

Depths(D, e, m, q, found) ==
    /\ D \in [m -> 0..MaxHops]
    /\ \A f \in ToSet(e.roots) : Known(f) => RootMet(D, q, f)
    /\ \A p \in m : Known(p[1]) => CallsMet(D, q, p) /\ SinksTold(D, e, p, found)
    /\ \A p \in m : \A x : InQueue(x, q) => D[p] <= x.hops

PairOf(x) == <<x.symbol, x.tainted>>

(* A call that was met by a pair that was taken is met.                    *)
LEMMA CallMetStep ==
  ASSUME NEW D, NEW E, NEW q, NEW r, NEW x, NEW p,
         DOMAIN D \subseteq DOMAIN E, \A y \in DOMAIN D : E[y] = D[y],
         p \in DOMAIN D, D[p] \in Nat,
         \A y : InQueue(y, q) => y = x \/ InQueue(y, r),
         (x.hops > MaxHops /\ x.hops \in Nat /\ D[p] <= MaxHops)
            \/ (PairOf(x) \in DOMAIN E /\ E[PairOf(x)] <= x.hops),
         CallsMet(D, q, p)
  PROVE  CallsMet(E, r, p)
<1> SUFFICES ASSUME NEW k \in DOMAIN Body(p[1]),
                    PassedOn(Body(p[1])[k], FunctionTaint(p[1], p[2])) # {}
             PROVE  CallMet(E, r, p, k)
  BY DEF CallsMet
<1> DEFINE T == FunctionTaint(p[1], p[2])
           next == <<Body(p[1])[k].callee, PassedOn(Body(p[1])[k], T)>>
           item == CallItem(p[1], k, T, D[p])
<1>1. CallMet(D, q, p, k) /\ E[p] = D[p] /\ MaxHops \in Nat
  BY TaintLimits DEF CallsMet
<1>2. item.hops = D[p] + 1 /\ PairOf(item) = next
  BY DEF CallItem, PairOf
<1>3. CASE D[p] = MaxHops
  BY <1>1, <1>3 DEF CallMet
<1>4. CASE next \in DOMAIN D /\ D[next] <= D[p] + 1
  BY <1>1, <1>4 DEF CallMet
<1>5. CASE InQueue(item, q)
  <2>1. CASE InQueue(item, r)
    BY <1>1, <2>1 DEF CallMet
  <2>2. CASE item = x
    <3>1. CASE x.hops > MaxHops /\ x.hops \in Nat /\ D[p] <= MaxHops
      <4>1. D[p] = MaxHops
        BY <1>1, <1>2, <2>2, <3>1
      <4> QED BY <1>1, <4>1 DEF CallMet
    <3>2. CASE PairOf(x) \in DOMAIN E /\ E[PairOf(x)] <= x.hops
      <4>1. next \in DOMAIN E /\ E[next] <= E[p] + 1
        BY <1>1, <1>2, <2>2, <3>2
      <4> QED BY <4>1 DEF CallMet
    <3> QED BY <3>1, <3>2
  <2> QED BY <1>5, <2>1, <2>2
<1> QED BY <1>1, <1>3, <1>4, <1>5 DEF CallMet

LEMMA RootMetStep ==
  ASSUME NEW D, NEW E, NEW q, NEW r, NEW x, NEW f,
         DOMAIN D \subseteq DOMAIN E, \A y \in DOMAIN D : E[y] = D[y],
         \A y : InQueue(y, q) => y = x \/ InQueue(y, r),
         \A y \in DOMAIN E : E[y] \in Nat,
         x.hops = 0 => PairOf(x) \in DOMAIN E /\ E[PairOf(x)] <= x.hops,
         RootMet(D, q, f)
  PROVE  RootMet(E, r, f)
<1>1. RootItem(f).hops = 0 /\ PairOf(RootItem(f)) = <<f, All(f)>>
  BY DEF RootItem, PairOf
<1>2. CASE RootItem(f) = x
  BY <1>1, <1>2 DEF RootMet
<1>3. CASE RootItem(f) # x
  BY <1>3 DEF RootMet
<1> QED BY <1>2, <1>3

(* The head of the queue is passed over.                                   *)
LEMMA PassOver ==
  ASSUME NEW D, NEW e, NEW m, NEW q, NEW found, NEW r, NEW x,
         Depths(D, e, m, q, found), x.hops \in Nat, InQueue(x, q),
         \A y : InQueue(y, q) => y = x \/ InQueue(y, r),
         \A y : InQueue(y, r) => InQueue(y, q),
         x.hops > MaxHops \/ PairOf(x) \in m
  PROVE  Depths(D, e, m, r, found)
<1>1. /\ D \in [m -> 0..MaxHops] /\ DOMAIN D = m /\ MaxHops \in Nat
      /\ \A y \in m : D[y] \in Nat /\ D[y] <= MaxHops
  BY TaintLimits DEF Depths
<1>2. PairOf(x) \in m => D[PairOf(x)] <= x.hops
  BY DEF Depths
<1>3. ASSUME NEW f \in ToSet(e.roots), Known(f) PROVE RootMet(D, r, f)
  <2>1. x.hops = 0 => PairOf(x) \in DOMAIN D /\ D[PairOf(x)] <= x.hops
    BY <1>1, <1>2
  <2>2. RootMet(D, q, f)
    BY <1>3 DEF Depths
  <2> QED BY <1>1, <2>1, <2>2, RootMetStep
<1>4. ASSUME NEW p \in m, Known(p[1]) PROVE CallsMet(D, r, p)
  <2>1. CallsMet(D, q, p)
    BY <1>4 DEF Depths
  <2>2. (x.hops > MaxHops /\ x.hops \in Nat /\ D[p] <= MaxHops)
            \/ (PairOf(x) \in DOMAIN D /\ D[PairOf(x)] <= x.hops)
    BY <1>1, <1>2
  <2> QED BY <1>1, <2>1, <2>2, CallMetStep
<1> QED BY <1>3, <1>4 DEF Depths

(* The head of the queue is met.                                           *)
LEMMA Meet ==
  ASSUME NEW D, NEW e, NEW m, NEW q, NEW found, NEW r, NEW x, NEW more,
         Depths(D, e, m, q, found), x.hops \in Nat, InQueue(x, q), x.hops <= MaxHops,
         PairOf(x) \notin m,
         x.hops = 0 => \E f \in ToSet(e.roots) : x = RootItem(f),
         \A y : InQueue(y, q) => y = x \/ InQueue(y, r),
         \A y : InQueue(y, r) => x.hops <= y.hops /\ (InQueue(y, q) \/ y.hops = x.hops + 1),
         found \subseteq more,
         Known(x.symbol) =>
            LET T == FunctionTaint(x.symbol, x.tainted)
            IN  /\ x.hops > 0 => FoundIn(x.symbol, T) \subseteq more
                /\ \A k \in DOMAIN Body(x.symbol) : PassedOn(Body(x.symbol)[k], T) # {} =>
                        InQueue(CallItem(x.symbol, k, T, x.hops), r)
  PROVE  \E E : Depths(E, e, m \cup {PairOf(x)}, r, more)
<1> DEFINE new == PairOf(x)
           E == [p \in m \cup {new} |-> IF p = new THEN x.hops ELSE D[p]]
<1>1. /\ D \in [m -> 0..MaxHops] /\ DOMAIN D = m /\ MaxHops \in Nat
      /\ \A y \in m : D[y] \in Nat /\ D[y] <= MaxHops
  BY TaintLimits DEF Depths
<1>2. /\ E \in [m \cup {new} -> 0..MaxHops] /\ DOMAIN E = m \cup {new} /\ E[new] = x.hops
      /\ \A y \in m : E[y] = D[y]
      /\ \A y \in m \cup {new} : E[y] \in Nat
  BY <1>1
<1> HIDE DEF E
<1>3. ASSUME NEW f \in ToSet(e.roots), Known(f) PROVE RootMet(E, r, f)
  <2>1. x.hops = 0 => PairOf(x) \in DOMAIN E /\ E[PairOf(x)] <= x.hops
    BY <1>2
  <2>2. RootMet(D, q, f)
    BY <1>3 DEF Depths
  <2> QED BY <1>1, <1>2, <2>1, <2>2, RootMetStep
<1>4. ASSUME NEW p \in m, Known(p[1]) PROVE CallsMet(E, r, p) /\ SinksTold(E, e, p, more)
  <2>1. CallsMet(D, q, p) /\ SinksTold(D, e, p, found)
    BY <1>4 DEF Depths
  <2>2. PairOf(x) \in DOMAIN E /\ E[PairOf(x)] <= x.hops
    BY <1>2
  <2>3. CallsMet(E, r, p)
    BY <1>1, <1>2, <2>1, <2>2, CallMetStep
  <2>4. SinksTold(E, e, p, more)
    BY <1>2, <2>1 DEF SinksTold
  <2> QED BY <2>3, <2>4
<1>5. ASSUME Known(new[1]) PROVE CallsMet(E, r, new) /\ SinksTold(E, e, new, more)
  <2>1. new[1] = x.symbol /\ new[2] = x.tainted
    BY DEF PairOf
  <2> HIDE DEF new
  <2>2. CallsMet(E, r, new)
    BY <1>2, <1>5, <2>1 DEF CallsMet, CallMet
  <2>3. SinksTold(E, e, new, more)
    <3>1. CASE x.hops = 0
      <4>1. PICK f \in ToSet(e.roots) : x = RootItem(f)
        BY <3>1
      <4>2. new[1] = f /\ new[2] = All(f)
        BY <2>1, <4>1 DEF RootItem
      <4> QED BY <1>2, <3>1, <4>2 DEF SinksTold
    <3>2. CASE x.hops # 0
      <4>1. x.hops > 0
        BY <3>2
      <4> QED BY <1>2, <1>5, <2>1, <3>2, <4>1 DEF SinksTold
    <3> QED BY <3>1, <3>2
  <2> QED BY <2>2, <2>3
<1>6. ASSUME NEW p \in m \cup {new}, NEW y, InQueue(y, r) PROVE E[p] <= y.hops
  <2>1. CASE p = new
    BY <1>2, <1>6, <2>1
  <2>2. CASE p \in m
    <3>1. D[p] <= x.hops
      BY <2>2 DEF Depths
    <3>2. CASE InQueue(y, q)
      BY <1>2, <2>2, <3>2 DEF Depths
    <3>3. CASE y.hops = x.hops + 1
      BY <1>1, <1>2, <2>2, <3>1, <3>3
    <3> QED BY <1>6, <3>2, <3>3
  <2> QED BY <2>1, <2>2
<1>7. Depths(E, e, m \cup {new}, r, more)
  <2> HIDE DEF new
  <2> QED BY <1>2, <1>3, <1>4, <1>5, <1>6 DEF Depths
<1> QED BY <1>7

-----------------------------------------------------------------------------
(* What the search has told when its queue is empty.                       *)
Unshadowed == \A f \in DOMAIN program.functions : ~Shadowed(f)

EntryTold(e, found) ==
    \A hops \in 1..MaxHops : \A p \in Reached(e, hops, FlowsOn) :
        OpenSinks(p, Flowing) \subseteq found \cup Sole

Covers(D, p, hops) ==
    \E y \in DOMAIN D : /\ Known(y[1]) /\ y[1] = p.symbol
                        /\ p.tainted \subseteq y[2] /\ D[y] <= hops

LEMMA CoversNext ==
  ASSUME program \in Programs, Unshadowed, NEW D, NEW e, NEW m, NEW found,
         Depths(D, e, m, <<>>, found), NEW d \in Nat, d + 1 <= MaxHops,
         NEW p, Covers(D, p, d), NEW k \in DOMAIN Body(p.symbol),
         PassedOn(Body(p.symbol)[k], Flowing(p.symbol, p.tainted, k)) # {},
         Known(Body(p.symbol)[k].callee)
  PROVE  Covers(D, Onward(p, k, Flowing(p.symbol, p.tainted, k)), d + 1)
<1>1. PICK y \in DOMAIN D : Known(y[1]) /\ y[1] = p.symbol /\ p.tainted \subseteq y[2] /\ D[y] <= d
  BY DEF Covers
<1> DEFINE f == y[1]
           S == Flowing(f, p.tainted, k)
           T == FunctionTaint(f, y[2])
           next == <<Body(f)[k].callee, PassedOn(Body(f)[k], T)>>
<1>2. D \in [m -> 0..MaxHops] /\ MaxHops \in Nat /\ D[y] \in Nat /\ y \in m
  BY <1>1, TaintLimits DEF Depths
<1>3. S \subseteq T
  BY <1>1, FlowIsTaint DEF Unshadowed, Known
<1>4. PassedOn(Body(f)[k], S) \subseteq PassedOn(Body(f)[k], T) /\ PassedOn(Body(f)[k], T) # {}
  BY <1>1, <1>3, CarriesMore
<1>5. CallMet(D, <<>>, y, k)
  BY <1>1, <1>2, <1>4 DEF Depths, CallsMet
<1>6. next \in DOMAIN D /\ D[next] <= D[y] + 1
  <2>1. \A x : ~InQueue(x, <<>>)
    BY DEF InQueue
  <2> QED BY <1>1, <1>2, <1>5, <2>1 DEF CallMet
<1>7. D[next] \in Nat /\ D[next] <= d + 1
  BY <1>1, <1>2, <1>6
<1> DEFINE z == Onward(p, k, Flowing(p.symbol, p.tainted, k))
<1>8. z.symbol = next[1] /\ z.tainted \subseteq next[2] /\ Known(next[1])
  BY <1>1, <1>4 DEF Onward
<1> HIDE DEF next, z
<1> QED BY <1>6, <1>7, <1>8 DEF Covers, z

LEMMA AllCovered ==
  ASSUME program \in Programs, Unshadowed, NEW D, NEW e, NEW m, NEW found,
         Depths(D, e, m, <<>>, found)
  PROVE  \A d \in 0..MaxHops : \A p \in Reached(e, d, FlowsOn) : Covers(D, p, d)
<1> DEFINE P == {d \in Nat : d <= MaxHops => \A p \in Reached(e, d, FlowsOn) : Covers(D, p, d)}
<1>1. D \in [m -> 0..MaxHops] /\ MaxHops \in Nat
  BY TaintLimits DEF Depths
<1>2. 0 \in P
  <2> SUFFICES ASSUME NEW p \in Reached(e, 0, FlowsOn) PROVE Covers(D, p, 0)
    OBVIOUS
  <2>1. p \in RootPairs(e)
    BY FlowReachedStep
  <2>2. PICK f \in ToSet(e.roots) : Known(f) /\ p = [symbol |-> f, tainted |-> All(f)]
    BY <2>1 DEF RootPairs
  <2>3. RootMet(D, <<>>, f) /\ ~InQueue(RootItem(f), <<>>)
    BY <2>2 DEF Depths, InQueue
  <2>4. <<f, All(f)>> \in DOMAIN D /\ D[<<f, All(f)>>] = 0
    BY <2>3 DEF RootMet
  <2> QED BY <2>2, <2>4 DEF Covers
<1>3. ASSUME NEW d \in P PROVE d + 1 \in P
  <2> SUFFICES ASSUME d + 1 <= MaxHops, NEW x \in Reached(e, d + 1, FlowsOn)
               PROVE  Covers(D, x, d + 1)
    OBVIOUS
  <2> DEFINE before == Reached(e, d, FlowsOn)
  <2>1. x \in FlowsOn(before, d + 1)
    BY FlowReachedStep
  <2> HIDE DEF before
  <2>2. PICK p \in before : \E k \in DOMAIN Body(p.symbol) :
            /\ PassedOn(Body(p.symbol)[k], Flowing(p.symbol, p.tainted, k)) # {}
            /\ Known(Body(p.symbol)[k].callee)
            /\ x = Onward(p, k, Flowing(p.symbol, p.tainted, k))
    BY <2>1 DEF FlowsOn, CalledFrom, Onward
  <2>3. Covers(D, p, d)
    BY <1>1, <2>2 DEF before
  <2> HIDE DEF P
  <2>4. d \in Nat
    BY DEF P
  <2> QED BY <2>2, <2>3, <2>4, CoversNext
<1>4. P = Nat
  <2> HIDE DEF P
  <2>1. P \in SUBSET Nat
    BY DEF P
  <2> QED BY <1>2, <1>3, <2>1, Learning!Induction
<1> QED BY <1>1, <1>4

LEMMA SearchIsDone ==
  ASSUME program \in Programs, Unshadowed, NEW D, NEW e \in ToSet(program.entrypoints), NEW m, NEW found,
         Depths(D, e, m, <<>>, found)
  PROVE  EntryTold(e, found)
<1> SUFFICES ASSUME NEW hops \in 1..MaxHops, NEW p \in Reached(e, hops, FlowsOn),
                    NEW x \in OpenSinks(p, Flowing)
             PROVE  x \in found \cup Sole
  BY DEF EntryTold
<1>1. D \in [m -> 0..MaxHops] /\ MaxHops \in Nat /\ hops \in 0..MaxHops
  BY TaintLimits DEF Depths
<1>2. PICK y \in DOMAIN D : Known(y[1]) /\ y[1] = p.symbol /\ p.tainted \subseteq y[2] /\ D[y] <= hops
  BY <1>1, AllCovered DEF Covers
<1> DEFINE T == FunctionTaint(y[1], y[2])
<1>3. PICK k : SinkOpen(p.symbol, k, Flowing(p.symbol, p.tainted, k)) /\ x = SinkFound(p.symbol, k)
  BY FlowingSinks
<1>4. k \in DOMAIN Body(p.symbol)
  BY <1>3 DEF SinkOpen, SinksOf
<1>5. Flowing(p.symbol, p.tainted, k) \subseteq T
  BY <1>2, <1>4, FlowIsTaint DEF Unshadowed, Known
<1>6. SinkOpen(y[1], k, T)
  BY <1>2, <1>3, <1>5, SinkOpenMore
<1>7. SinksTold(D, e, y, found)
  BY <1>1, <1>2 DEF Depths
<1>8. CASE D[y] # 0
  BY <1>2, <1>3, <1>6, <1>7, <1>8, FoundInIs DEF SinksTold
<1>9. CASE D[y] = 0
  <2>1. y[1] \in ToSet(e.roots) /\ y[2] = All(y[1])
    BY <1>7, <1>9 DEF SinksTold
  <2>2. x \in Direct(y[1])
    BY <1>2, <1>3, <1>6, <2>1, DirectFindsAcross
  <2>3. y[1] \in e.symbols
    BY <2>1, ProgramsAreWhole
  <2>4. y[1] \in Entered
    BY <1>2, <2>3 DEF Entered
  <2> QED BY <2>2, <2>4 DEF Sole
<1> QED BY <1>8, <1>9

(* The rules of single functions tell of the entry points themselves.      *)
SinglesTold ==
    \A f \in Entered : \A k \in SinksOf(f) :
        LET sink == Body(f)[k]
            flowing == Flowing(f, All(f), k)
            finding(rules) == [rule |-> rules[sink.kind], site |-> sink.site]
        IN  /\ sink.kind \in DOMAIN DirectRule /\ DirectCarries(sink, flowing)
                    /\ ~PriorGuard(f, k) => finding(DirectRule) \in Direct(f)
            /\ sink.kind \in DOMAIN SaasRule /\ SomeCarries(sink, flowing)
                    /\ ToSet(program.functions[f].params) \subseteq RequestNames =>
                    finding(SaasRule) \in Saas(f)

LEMMA SinglesAreTold ==
  ASSUME program \in Programs, Unshadowed PROVE SinglesTold
<1> SUFFICES ASSUME NEW f \in Entered, NEW k \in SinksOf(f)
             PROVE  /\ Body(f)[k].kind \in DOMAIN DirectRule
                        /\ DirectCarries(Body(f)[k], Flowing(f, All(f), k)) /\ ~PriorGuard(f, k) =>
                        [rule |-> DirectRule[Body(f)[k].kind], site |-> Body(f)[k].site] \in Direct(f)
                    /\ Body(f)[k].kind \in DOMAIN SaasRule
                        /\ SomeCarries(Body(f)[k], Flowing(f, All(f), k))
                        /\ ToSet(program.functions[f].params) \subseteq RequestNames =>
                        [rule |-> SaasRule[Body(f)[k].kind], site |-> Body(f)[k].site] \in Saas(f)
  BY DEF SinglesTold
<1>1. Known(f) /\ ~Shadowed(f) /\ k \in DOMAIN Body(f)
  BY DEF Entered, Known, Unshadowed, SinksOf
<1>2. ASSUME Body(f)[k].kind \in DOMAIN DirectRule,
             DirectCarries(Body(f)[k], Flowing(f, All(f), k)), ~PriorGuard(f, k)
      PROVE  [rule |-> DirectRule[Body(f)[k].kind], site |-> Body(f)[k].site] \in Direct(f)
  <2>1. DirectCarries(Body(f)[k], FunctionTaint(f, All(f)))
    <3>1. Flowing(f, All(f), k) \subseteq FunctionTaint(f, All(f))
      BY <1>1, FlowIsTaint
    <3> QED BY <1>2, <3>1 DEF DirectCarries, FirstCarries, SomeCarries, Carries
  <2>2. DirectFinds(f, k, FunctionTaint(f, All(f)))
    BY <1>2, <2>1 DEF DirectFinds, Open
  <2> HIDE DEF DirectFinds
  <2> QED BY <2>2 DEF Direct
<1>3. ASSUME Body(f)[k].kind \in DOMAIN SaasRule,
             SomeCarries(Body(f)[k], Flowing(f, All(f), k)), ToSet(program.functions[f].params) \subseteq RequestNames
      PROVE  [rule |-> SaasRule[Body(f)[k].kind], site |-> Body(f)[k].site] \in Saas(f)
  <2>1. Flowing(f, All(f), k) \subseteq SaasTaint(f)
    BY <1>1, <1>3, FlowIsSaasTaint
  <2>2. SomeCarries(Body(f)[k], SaasTaint(f))
    BY <1>3, <2>1 DEF SomeCarries, Carries
  <2> QED BY <1>3, <2>2 DEF Saas
<1> QED BY <1>2, <1>3

-----------------------------------------------------------------------------
FlowReachedSteps ==
    \A e : \A d \in Nat : /\ Reached(e, 0, FlowsOn) = RootPairs(e)
                          /\ Reached(e, d + 1, FlowsOn) = FlowsOn(Reached(e, d, FlowsOn), d + 1)

LEMMA FlowReachedIs == FlowReachedSteps
  BY FlowReachedStep DEF FlowReachedSteps

LEMMA SameFlowing ==
  ASSUME program' = program
  PROVE  /\ \A f, I, k : Flowing(f, I, k)' = Flowing(f, I, k)
         /\ \A p : CalledFrom(p, Flowing)' = CalledFrom(p, Flowing)
         /\ \A p : OpenSinks(p, Flowing)' = OpenSinks(p, Flowing)
         /\ \A p : OpenSinks(p, AtMost)' = OpenSinks(p, AtMost)
         /\ Sole' = Sole
<1>1. \A f, I, k : Flowing(f, I, k)' = Flowing(f, I, k)
  BY DEF Flowing, Params, All, Body
<1>2. \A f, I, k : AtMost(f, I, k)' = AtMost(f, I, k)
  BY SameFunctions
<1>3. \A f : Known(f)' = Known(f) /\ Body(f)' = Body(f) /\ All(f)' = All(f)
  BY SameFunctions
<1>4. \A p : CalledFrom(p, Flowing)' = CalledFrom(p, Flowing)
  BY <1>1, <1>3 DEF CalledFrom
<1>5. \A f : SinksOf(f)' = SinksOf(f) /\ \A k : Open(f, k)' = Open(f, k)
  BY <1>3 DEF SinksOf, Open, PriorGuard
<1>6. /\ \A f, k, T : SinkOpen(f, k, T)' = SinkOpen(f, k, T)
      /\ \A f, k : SinkFound(f, k)' = SinkFound(f, k)
  BY <1>3, SameFunctions DEF SinkFound
<1>7. \A p : OpenSinks(p, Flowing)' = OpenSinks(p, Flowing)
  BY <1>1, <1>5, <1>6 DEF OpenSinks
<1>8. \A p : OpenSinks(p, AtMost)' = OpenSinks(p, AtMost)
  BY <1>2, <1>5, <1>6 DEF OpenSinks
<1>9. Sole' = Sole
  <2>1. \A f, I : FunctionTaint(f, I)' = FunctionTaint(f, I)
    BY SameFunctions
  <2>2. \A f, k, T : DirectFinds(f, k, T)' = DirectFinds(f, k, T)
    BY <1>3, <1>5 DEF DirectFinds, DirectCarries, FirstCarries, SomeCarries, Carries
  <2>3. \A f : Direct(f)' = Direct(f)
    BY <1>3, <1>5, <2>1, <2>2 DEF Direct
  <2>4. \A f, webhook : Ordered(f, webhook)' = Ordered(f, webhook)
    BY <1>3 DEF Ordered, Having
  <2>5. Entered' = Entered
    BY <1>3 DEF Entered
  <2> QED BY <2>3, <2>4, <2>5 DEF Sole
<1> QED BY <1>1, <1>4, <1>7, <1>8, <1>9

LEMMA SameFlowReached ==
  ASSUME program' = program, NEW e
  PROVE  \A d \in Nat : Reached(e, d, FlowsOn)' = Reached(e, d, FlowsOn)
<1>1. FlowReachedSteps'
  BY FlowReachedIs, PTL
<1> DEFINE P == {d \in Nat : Reached(e, d, FlowsOn)' = Reached(e, d, FlowsOn)}
<1>2. 0 \in P
  BY <1>1, FlowReachedIs, SameFunctions DEF FlowReachedSteps
<1>3. ASSUME NEW d \in P PROVE d + 1 \in P
  <2>1. Reached(e, d + 1, FlowsOn)' = FlowsOn(Reached(e, d, FlowsOn), d + 1)'
    BY <1>1 DEF FlowReachedSteps
  <2>2. Reached(e, d + 1, FlowsOn) = FlowsOn(Reached(e, d, FlowsOn), d + 1)
    BY FlowReachedIs DEF FlowReachedSteps
  <2>3. FlowsOn(Reached(e, d, FlowsOn), d + 1)' = FlowsOn(Reached(e, d, FlowsOn), d + 1)
    <3>1. Reached(e, d, FlowsOn)' = Reached(e, d, FlowsOn)
      OBVIOUS
    <3>2. \A p : CalledFrom(p, Flowing)' = CalledFrom(p, Flowing)
      BY SameFlowing
    <3> QED BY <3>1, <3>2 DEF FlowsOn
  <2>4. Reached(e, d + 1, FlowsOn)' = Reached(e, d + 1, FlowsOn)
    BY <2>1, <2>2, <2>3
  <2> QED BY <2>4
<1>4. P = Nat
  <2> HIDE DEF P
  <2>1. P \in SUBSET Nat
    BY DEF P
  <2> QED BY <1>2, <1>3, <2>1, Learning!Induction
<1> QED BY <1>4

LEMMA SameItems ==
  ASSUME program' = program PROVE Items' = Items /\ Unshadowed' = Unshadowed
<1>1. \A f : Known(f)' = Known(f) /\ Body(f)' = Body(f) /\ All(f)' = All(f)
  BY SameFunctions
<1>2. Unshadowed' = Unshadowed
  BY <1>1 DEF Unshadowed, Shadowed, LetsOf
<1>3. \A f : CallsOf(f)' = CallsOf(f)
  BY <1>1 DEF CallsOf
<1>4. \A f : CalleesOf(f)' = CalleesOf(f)
  BY <1>1, <1>3 DEF CalleesOf
<1>5. \A f : IndexesOf(f)' = IndexesOf(f)
  BY <1>1, <1>3 DEF IndexesOf
<1>6. Items' = Items
  BY <1>4, <1>5 DEF Items
<1> QED BY <1>2, <1>6

LEMMA SameDepths ==
  ASSUME program' = program, NEW D, NEW e, NEW m, NEW q, NEW found
  PROVE  Depths(D, e, m, q, found)' <=> Depths(D, e, m, q, found)
<1>1. \A f : Known(f)' = Known(f) /\ Body(f)' = Body(f) /\ All(f)' = All(f)
  BY SameFunctions
<1>2. \A f, I : FunctionTaint(f, I)' = FunctionTaint(f, I)
  BY SameFunctions
<1>3. \A f, T : FoundIn(f, T)' = FoundIn(f, T)
  BY SameFunctions
<1>4. \A f : RootItem(f)' = RootItem(f)
  BY <1>1 DEF RootItem
<1>5. \A f : RootMet(D, q, f)' = RootMet(D, q, f)
  BY <1>1, <1>4 DEF RootMet, InQueue
<1>6. \A f, k, T, hops : CallItem(f, k, T, hops)' = CallItem(f, k, T, hops)
  BY <1>1 DEF CallItem
<1>7. \A p, k : CallMet(D, q, p, k)' = CallMet(D, q, p, k)
  BY <1>1, <1>2, <1>6 DEF CallMet, InQueue
<1>8. \A p : CallsMet(D, q, p)' = CallsMet(D, q, p)
  BY <1>1, <1>2, <1>7 DEF CallsMet
<1>9. \A p : SinksTold(D, e, p, found)' = SinksTold(D, e, p, found)
  BY <1>1, <1>2, <1>3 DEF SinksTold
<1> QED BY <1>1, <1>5, <1>8, <1>9 DEF Depths, InQueue

LEMMA SameEntryTold ==
  ASSUME program' = program, NEW e, NEW found
  PROVE  EntryTold(e, found)' <=> EntryTold(e, found)
<1>1. \A d \in 1..MaxHops : Reached(e, d, FlowsOn)' = Reached(e, d, FlowsOn)
  BY SameFlowReached, TaintLimits
<1>2. (\A p : OpenSinks(p, Flowing)' = OpenSinks(p, Flowing)) /\ Sole' = Sole
  BY SameFlowing
<1> QED BY <1>1, <1>2 DEF EntryTold

-----------------------------------------------------------------------------
(* The entry point that is searched: the last that was taken.              *)
At == Len(program.entrypoints) - Len(left)

Entry(i) == program.entrypoints[i]

(* What is in the list of the search.                                      *)
FlowsFound == ToSet(flowsFound)

TaintType ==
    /\ program \in Programs /\ flowsFound \in Seq(FlowsFound)
    /\ left \in Seq(ToSet(program.entrypoints)) /\ At \in 0..Len(program.entrypoints)
    /\ \A i \in DOMAIN left : left[i] = Entry(At + i)
    /\ queue \in Seq(Items) /\ (At = 0 => queue = <<>>)

(* A pair in the queue is a root, or the calls from one may lead to it.    *)
Traced(e, x) ==
    /\ x.hops = 0 => \E f \in ToSet(e.roots) : x = RootItem(f)
    /\ Known(x.symbol) => \E p \in Reached(e, x.hops, MayFlowOn) :
                            p.symbol = x.symbol /\ x.tainted \subseteq p.tainted

MayTell(x) ==
    \E e \in ToSet(program.entrypoints) : \E hops \in 1..MaxHops :
        \E p \in Reached(e, hops, MayFlowOn) : x \in OpenSinks(p, AtMost)

QueueInv ==
    /\ Nearing(queue)
    /\ At # 0 => \A x : InQueue(x, queue) => Traced(Entry(At), x)
    /\ \A x \in FlowsFound : MayTell(x)

(* Unless a search was abandoned: what is searched has met its roots and   *)
(* calls, or has them queued, and what was searched is told.               *)
TaintSearchInv ==
    abandoned \/ /\ At # 0 => \E D : Depths(D, Entry(At), met, queue, FlowsFound)
                 /\ Unshadowed => \A i \in 1..(At - 1) : EntryTold(Entry(i), FlowsFound)

TaintInv == TaintType /\ QueueInv /\ TaintSearchInv

LEMMA EntryIs ==
  ASSUME program \in Programs, NEW i \in 1..Len(program.entrypoints)
  PROVE  /\ Entry(i) \in ToSet(program.entrypoints)
         /\ Entry(i).roots \in Seq(ToSet(Entry(i).roots))
<1>1. Entry(i) \in ToSet(program.entrypoints)
  BY ProgramsAreWhole DEF Entry, ToSet
<1> QED BY <1>1, ProgramsAreWhole

LEMMA TaintStarts ==
  ASSUME TaintInit PROVE TaintInv
<1>1. program.entrypoints \in Seq(ToSet(program.entrypoints))
  BY ProgramsAreWhole DEF TaintInit
<1>2. At = 0 /\ Len(program.entrypoints) \in Nat
  BY <1>1 DEF TaintInit, At
<1>3. TaintType
  <2>1. \A i \in DOMAIN left : 0 + i = i
    BY <1>1 DEF TaintInit
  <2>2. <<>> \in Seq(Items) /\ <<>> \in Seq(FlowsFound)
    OBVIOUS
  <2> QED BY <1>1, <1>2, <2>1, <2>2 DEF TaintInit, TaintType, Entry
<1>4. QueueInv
  <2>1. FlowsFound = {}
    BY DEF TaintInit, FlowsFound, ToSet
  <2> QED BY <1>2, <2>1 DEF TaintInit, QueueInv, Nearing
<1>5. TaintSearchInv
  BY <1>2 DEF TaintInit, TaintSearchInv
<1> QED BY <1>3, <1>4, <1>5 DEF TaintInv

(* What was told stays true of the program.                                *)
LEMMA SameTold ==
  ASSUME program' = program
  PROVE  \A x : MayTell(x)' = MayTell(x)
<1>1. ASSUME NEW e, NEW hops \in 1..MaxHops
      PROVE  Reached(e, hops, MayFlowOn)' = Reached(e, hops, MayFlowOn)
  BY SameReached, TaintLimits
<1>2. \A p : OpenSinks(p, AtMost)' = OpenSinks(p, AtMost)
  BY SameFlowing
<1> QED BY <1>1, <1>2 DEF MayTell

LEMMA SameTraced ==
  ASSUME program' = program, NEW e, NEW x, x.hops \in Nat
  PROVE  Traced(e, x)' = Traced(e, x)
<1>1. \A f : Known(f)' = Known(f) /\ RootItem(f)' = RootItem(f)
  BY SameFunctions DEF RootItem
<1>2. Reached(e, x.hops, MayFlowOn)' = Reached(e, x.hops, MayFlowOn)
  BY SameReached
<1> QED BY <1>1, <1>2 DEF Traced

LEMMA EntryToldMore ==
  ASSUME NEW e, NEW found, NEW more, found \subseteq more, EntryTold(e, found)
  PROVE  EntryTold(e, more)
  BY DEF EntryTold

(* The next entry point: the one before it was searched.                   *)
LEMMA SearchNextKeeps ==
  ASSUME TaintInv, SearchNext PROVE TaintInv'
<1> DEFINE n == Len(program.entrypoints)
           e == Head(left)
<1>1. /\ program \in Programs /\ program' = program /\ FlowsFound' = FlowsFound /\ abandoned' = abandoned
      /\ flowsFound' \in Seq(FlowsFound')
      /\ left \in Seq(ToSet(program.entrypoints)) /\ left # <<>> /\ queue = <<>>
      /\ left' = Tail(left) /\ met' = {}
      /\ queue' = FoldLeft(AddRoot, <<>>, e.roots)
  BY DEF TaintInv, TaintType, SearchNext, FlowsFound
<1>2. n \in Nat
  BY <1>1, ProgramsAreWhole
<1>3. /\ Len(left) \in Nat \ {0} /\ Len(left') = Len(left) - 1 /\ DOMAIN left = 1..Len(left)
      /\ DOMAIN left' = 1..(Len(left) - 1) /\ \A i \in DOMAIN left' : left'[i] = left[i + 1]
      /\ left' \in Seq(ToSet(program.entrypoints)) /\ e = left[1]
  BY <1>1
<1>4. At' = At + 1 /\ At \in 0..n /\ At + 1 \in 1..n /\ At = n - Len(left)
  BY <1>1, <1>2, <1>3 DEF At, TaintInv, TaintType
<1>5. e = Entry(At + 1) /\ \A i : Entry(i)' = Entry(i)
  BY <1>1, <1>3 DEF TaintInv, TaintType, Entry
<1>6. e \in ToSet(program.entrypoints) /\ e.roots \in Seq(ToSet(e.roots))
  BY <1>1, <1>4, <1>5, EntryIs
<1> DEFINE roots == FoldLeft(AddRoot, <<>>, e.roots)
<1>7. /\ roots \in Seq(Items)
      /\ \A i \in DOMAIN roots : \E f \in ToSet(e.roots) : Known(f) /\ roots[i] = RootItem(f)
      /\ \A f \in ToSet(e.roots) : Known(f) => \E i \in DOMAIN roots : roots[i] = RootItem(f)
  BY <1>6, RootsAre
<1>8. queue' = roots
  BY <1>1
<1> HIDE DEF roots, e
<1>9. TaintType'
  <2>1. \A i \in DOMAIN left' : left'[i] = Entry((At + 1) + i)
    <3> SUFFICES ASSUME NEW i \in DOMAIN left' PROVE left'[i] = Entry((At + 1) + i)
      OBVIOUS
    <3>1. i + 1 \in DOMAIN left /\ At + (i + 1) = (At + 1) + i
      BY <1>3, <1>4
    <3>2. left'[i] = left[i + 1]
      BY <1>3
    <3> QED BY <3>1, <3>2 DEF TaintInv, TaintType
  <2>2. At' \in 0..n /\ At' # 0 /\ n' = n /\ Items' = Items
    BY <1>1, <1>4, SameItems
  <2>3. (ToSet(program.entrypoints))' = ToSet(program.entrypoints)
    BY <1>1
  <2> QED BY <1>1, <1>3, <1>4, <1>5, <1>7, <1>8, <2>1, <2>2, <2>3 DEF TaintType
<1>10. ASSUME NEW x, InQueue(x, roots) PROVE Traced(e, x) /\ x.hops = 0
  <2>1. PICK f \in ToSet(e.roots) : Known(f) /\ x = RootItem(f)
    BY <1>7, <1>10 DEF InQueue
  <2>2. x.hops = 0 /\ x.symbol = f /\ x.tainted = All(f)
    BY <2>1 DEF RootItem
  <2>3. [symbol |-> f, tainted |-> All(f)] \in Reached(e, 0, MayFlowOn)
    BY <2>1, MayReachedStep DEF RootPairs
  <2> QED BY <2>1, <2>2, <2>3 DEF Traced
<1>11. QueueInv'
  <2>1. \A i \in DOMAIN roots : roots[i].hops = 0
    BY <1>10 DEF InQueue
  <2>2. Nearing(queue)'
    BY <1>8, <2>1 DEF Nearing
  <2>3. ASSUME NEW x, InQueue(x, queue)' PROVE Traced(Entry(At), x)'
    <3>1. InQueue(x, roots)
      BY <1>8, <2>3 DEF InQueue
    <3>2. PICK d : d = e
      OBVIOUS
    <3>3. x.hops \in Nat /\ Traced(d, x)
      BY <1>10, <3>1, <3>2
    <3>4. Traced(d, x)'
      BY <1>1, <3>3, SameTraced
    <3>5. Entry(At)' = d
      BY <1>4, <1>5, <3>2
    <3> QED BY <3>4, <3>5
  <2>4. \A x \in FlowsFound' : MayTell(x)'
    BY <1>1, SameTold DEF TaintInv, QueueInv
  <2> QED BY <2>2, <2>3, <2>4 DEF QueueInv
<1>12. ASSUME ~abandoned PROVE TaintSearchInv'
  <2>1. Depths([p \in {} |-> 0], e, {}, roots, FlowsFound)
    <3>1. \A f \in ToSet(e.roots) : Known(f) => RootMet([p \in {} |-> 0], roots, f)
      BY <1>7 DEF RootMet, InQueue
    <3> QED BY <3>1 DEF Depths
  <2>2. \E D : Depths(D, Entry(At), met, queue, FlowsFound)'
    <3>1. PICK t : t = FlowsFound
      OBVIOUS
    <3>2. Depths([p \in {} |-> 0], e, {}, roots, t)
      BY <2>1, <3>1
    <3>3. PICK D, d, q : D = [p \in {} |-> 0] /\ d = e /\ q = roots
      OBVIOUS
    <3>4. Depths(D, d, {}, q, t)'
      BY <1>1, <3>2, <3>3, SameDepths
    <3>5. Entry(At)' = d /\ met' = {} /\ queue' = q /\ FlowsFound' = t
      BY <1>1, <1>4, <1>5, <1>8, <3>1, <3>3
    <3> QED BY <3>4, <3>5
  <2>3. ASSUME Unshadowed, NEW i \in 1..At PROVE EntryTold(Entry(i), FlowsFound)
    <3>1. CASE i = At
      <4>1. PICK D : Depths(D, Entry(At), met, <<>>, FlowsFound)
        BY <1>1, <1>4, <1>12, <3>1 DEF TaintInv, TaintSearchInv
      <4>2. Entry(At) \in ToSet(program.entrypoints)
        BY <1>1, <1>4, <3>1, EntryIs
      <4> QED BY <1>1, <2>3, <3>1, <4>1, <4>2, SearchIsDone
    <3>2. CASE i # At
      <4>1. i \in 1..(At - 1)
        BY <1>4, <3>2
      <4> QED BY <1>12, <2>3, <4>1 DEF TaintInv, TaintSearchInv
    <3> QED BY <3>1, <3>2
  <2>4. ASSUME Unshadowed', NEW i \in 1..(At' - 1) PROVE EntryTold(Entry(i), FlowsFound)'
    <3>1. Unshadowed /\ i \in 1..At
      <4>1. At' - 1 = At
        BY <1>2, <1>4
      <4> QED BY <1>1, <2>4, <4>1, SameItems
    <3>2. PICK d, t : d = Entry(i) /\ t = FlowsFound
      OBVIOUS
    <3>3. EntryTold(d, t)'
      BY <1>1, <2>3, <3>1, <3>2, SameEntryTold
    <3>4. Entry(i)' = d /\ FlowsFound' = t
      BY <1>1, <1>5, <3>2
    <3> QED BY <3>3, <3>4
  <2> QED BY <2>2, <2>4 DEF TaintSearchInv
<1>13. ASSUME abandoned PROVE TaintSearchInv'
  BY <1>1, <1>13 DEF TaintSearchInv
<1> QED BY <1>9, <1>11, <1>12, <1>13 DEF TaintInv

(* Calls of a pair that calls may lead to lead on.                         *)
LEMMA TracedOn ==
  ASSUME program \in Programs, NEW e, NEW x, x.hops \in Nat, Known(x.symbol), Traced(e, x),
         NEW k \in DOMAIN Body(x.symbol),
         PassedOn(Body(x.symbol)[k], FunctionTaint(x.symbol, x.tainted)) # {}
  PROVE  Traced(e, CallItem(x.symbol, k, FunctionTaint(x.symbol, x.tainted), x.hops))
<1> DEFINE f == x.symbol
           T == FunctionTaint(f, x.tainted)
           y == CallItem(f, k, T, x.hops)
<1>1. y.hops = x.hops + 1 /\ y.symbol = Body(f)[k].callee /\ y.tainted = PassedOn(Body(f)[k], T)
  BY DEF CallItem
<1>2. y.hops # 0
  BY <1>1
<1>3. ASSUME Known(y.symbol)

PROVE  \E p \in Reached(e, y.hops, MayFlowOn) : p.symbol = y.symbol /\ y.tainted \subseteq p.tainted
  <2>1. PICK p \in Reached(e, x.hops, MayFlowOn) : p.symbol = f /\ x.tainted \subseteq p.tainted
    BY DEF Traced
  <2> DEFINE before == Reached(e, x.hops, MayFlowOn)
             A == AtMost(p.symbol, p.tainted, k)
  <2>2. T \subseteq A
    BY <2>1, TaintIsAtMost
  <2>3. PassedOn(Body(f)[k], T) \subseteq PassedOn(Body(f)[k], A)
    BY <2>2, CarriesMore
  <2>4. /\ PassedOn(Body(p.symbol)[k], A) # {} /\ Known(Body(p.symbol)[k].callee)
        /\ k \in DOMAIN Body(p.symbol)
    BY <1>1, <1>3, <2>1, <2>3
  <2>5. Onward(p, k, A) \in MayFlowOn(before, x.hops + 1)
    <3> HIDE DEF before
    <3>1. p \in before
      BY <2>1 DEF before
    <3> QED BY <2>4, <3>1, MayFlowOnTo
  <2>6. Reached(e, x.hops + 1, MayFlowOn) = MayFlowOn(before, x.hops + 1)
    BY MayReachedStep
  <2> DEFINE z == Onward(p, k, A)
  <2>7. z.symbol = y.symbol /\ y.tainted \subseteq z.tainted
    BY <1>1, <2>1, <2>3 DEF Onward
  <2>8. z \in Reached(e, y.hops, MayFlowOn)
    BY <1>1, <2>5, <2>6
  <2> HIDE DEF z, y
  <2> QED BY <2>7, <2>8
<1> HIDE DEF y
<1> QED BY <1>2, <1>3 DEF Traced, y

(* What is found in such a pair, may be told.                              *)
LEMMA TracedTells ==
  ASSUME program \in Programs, NEW e \in ToSet(program.entrypoints), NEW x, x.hops \in 1..MaxHops,
         Known(x.symbol), Traced(e, x),
         NEW y \in FoundIn(x.symbol, FunctionTaint(x.symbol, x.tainted))
  PROVE  MayTell(y)
<1>1. PICK p \in Reached(e, x.hops, MayFlowOn) : p.symbol = x.symbol /\ x.tainted \subseteq p.tainted
  BY DEF Traced
<1>2. PICK k : SinkOpen(x.symbol, k, FunctionTaint(x.symbol, x.tainted)) /\ y = SinkFound(x.symbol, k)
  BY FoundInIs
<1>3. FunctionTaint(x.symbol, x.tainted) \subseteq AtMost(p.symbol, p.tainted, k)
  BY <1>1, TaintIsAtMost
<1>4. SinkOpen(p.symbol, k, AtMost(p.symbol, p.tainted, k))
  BY <1>1, <1>2, <1>3, SinkOpenMore
<1>5. y \in OpenSinks(p, AtMost)
  BY <1>1, <1>2, <1>4, MaySinks
<1> QED BY <1>1, <1>5 DEF MayTell

(* A pair is taken from the queue.                                         *)
LEMMA InspectKeeps ==
  ASSUME TaintInv, Inspect PROVE TaintInv'
<1> DEFINE x == Head(queue)
           T == FunctionTaint(x.symbol, x.tainted)
           over == x.hops > MaxHops \/ PairOf(x) \in met
           calls == IF over \/ ~Known(x.symbol) THEN <<>> ELSE Passed(x.symbol, T, x.hops)
           r == Tail(queue) \o calls
           more == IF over \/ ~Known(x.symbol) \/ x.hops = 0 THEN FlowsFound ELSE FlowsFound \cup FoundIn(x.symbol, T)
<1>1. /\ program \in Programs /\ program' = program /\ left' = left /\ abandoned' = abandoned
      /\ queue \in Seq(Items) /\ queue # <<>> /\ Nearing(queue)
  BY DEF TaintInv, TaintType, QueueInv, Inspect, MayInspect
<1>2. x \in Items /\ x.hops \in Nat /\ InQueue(x, queue) /\ MaxHops \in Nat
  BY <1>1, ItemHops, TaintLimits DEF InQueue
<1>3. /\ calls \in Seq(Items) /\ \A i \in DOMAIN calls : calls[i].hops = x.hops + 1
      /\ \A y : InQueue(y, calls) => \E k \in DOMAIN Body(x.symbol) :
            /\ Known(x.symbol) /\ ~over
            /\ PassedOn(Body(x.symbol)[k], T) # {} /\ y = CallItem(x.symbol, k, T, x.hops)
      /\ Known(x.symbol) /\ ~over => \A k \in DOMAIN Body(x.symbol) :
            PassedOn(Body(x.symbol)[k], T) # {} => InQueue(CallItem(x.symbol, k, T, x.hops), calls)
  <2>1. CASE over \/ ~Known(x.symbol)
    <3>1. calls = <<>> /\ <<>> \in Seq(Items) /\ DOMAIN <<>> = {}
      BY <2>1
    <3> HIDE DEF calls, x
    <3> QED BY <2>1, <3>1 DEF InQueue
  <2>2. CASE ~over /\ Known(x.symbol)
    <3>1. calls = Passed(x.symbol, T, x.hops)
      BY <2>2
    <3>2. /\ calls \in Seq(Items)
          /\ \A i \in DOMAIN calls : \E k \in DOMAIN Body(x.symbol) :
                PassedOn(Body(x.symbol)[k], T) # {} /\ calls[i] = CallItem(x.symbol, k, T, x.hops)
          /\ \A k \in DOMAIN Body(x.symbol) : PassedOn(Body(x.symbol)[k], T) # {} =>
                \E i \in DOMAIN calls : calls[i] = CallItem(x.symbol, k, T, x.hops)
      <4> HIDE DEF calls, x, T, over
      <4> QED BY <1>1, <1>2, <2>2, <3>1, PassedIs
    <3>3. \A k : CallItem(x.symbol, k, T, x.hops).hops = x.hops + 1
      BY DEF CallItem
    <3> HIDE DEF calls, x, T, over
    <3> QED BY <2>2, <3>2, <3>3 DEF InQueue
  <2> QED BY <2>1, <2>2
<1> DEFINE across == IF over \/ ~Known(x.symbol) \/ x.hops = 0 THEN <<>> ELSE Across(x.symbol, T)
<1>4. /\ queue' = r /\ FlowsFound' = more /\ flowsFound' \in Seq(FlowsFound')
      /\ met' = IF over THEN met ELSE met \cup {PairOf(x)}
  <2>1. Tail(queue) \o <<>> = Tail(queue)
    BY <1>1
  <2>2. flowsFound \in Seq(FlowsFound) /\ flowsFound \o <<>> = flowsFound
    <3>1. flowsFound \in Seq(FlowsFound)
      BY DEF TaintInv, TaintType
    <3> QED BY <3>1
  <2>3. /\ queue' = r /\ flowsFound' = flowsFound \o across
        /\ met' = IF over THEN met ELSE met \cup {PairOf(x)}
    <3>1. CASE over
      BY <2>1, <2>2, <3>1 DEF Inspect, PairOf
    <3>2. CASE ~over /\ ~Known(x.symbol)
      BY <2>1, <2>2, <3>2 DEF Inspect, PairOf
    <3>3. CASE ~over /\ Known(x.symbol)
      <4>1. ~(x.hops > MaxHops \/ <<x.symbol, x.tainted>> \in met)
        BY <3>3 DEF PairOf
      <4>2. /\ met' = met \cup {<<x.symbol, x.tainted>>}
            /\ flowsFound' = flowsFound \o
                    (IF x.hops > 0 THEN Across(x.symbol, T) ELSE <<>>)
            /\ queue' = Enqueued(Passed(x.symbol, T, x.hops), Tail(queue))
        BY <3>3, <4>1 DEF Inspect
      <4>3. flowsFound' = flowsFound \o across
        <5>1. x.hops > 0 <=> x.hops # 0
          BY <1>2
        <5> HIDE DEF x, over, T
        <5> QED BY <3>3, <4>2, <5>1
      <4>4. queue' = r
        <5> HIDE DEF x, over, T
        <5> QED BY <3>3, <4>2 DEF Enqueued
      <4>5. met' = met \cup {PairOf(x)}
        BY <4>2 DEF PairOf
      <4> HIDE DEF x, over, T, r, across
      <4> QED BY <3>3, <4>3, <4>4, <4>5
    <3> QED BY <3>1, <3>2, <3>3
  <2>4. /\ across \in Seq(ToSet(across))
        /\ ToSet(across) = IF over \/ ~Known(x.symbol) \/ x.hops = 0 THEN {}
                          ELSE FoundIn(x.symbol, T)
    <3>1. CASE over \/ ~Known(x.symbol) \/ x.hops = 0
      <4>1. across = <<>> /\ <<>> \in Seq(ToSet(<<>>)) /\ ToSet(<<>>) = {}
        BY <3>1 DEF ToSet
      <4> HIDE DEF across, x, T, over
      <4> QED BY <3>1, <4>1
    <3>2. CASE ~(over \/ ~Known(x.symbol) \/ x.hops = 0)
      <4>1. across = Across(x.symbol, T) /\ Known(x.symbol)
        BY <3>2
      <4> HIDE DEF across, x, T, over
      <4> QED BY <1>1, <3>2, <4>1, AcrossFinds
    <3> QED BY <3>1, <3>2
  <2> HIDE DEF across, x, T, over, r
  <2>5. /\ flowsFound \o across \in Seq(ToSet(flowsFound \o across))
        /\ ToSet(flowsFound \o across) = FlowsFound \cup ToSet(across)
    BY <2>2, <2>4, JoinedLists DEF FlowsFound
  <2>6. FlowsFound' = more /\ flowsFound' \in Seq(FlowsFound')
    BY <2>3, <2>4, <2>5 DEF FlowsFound
  <2> QED BY <2>3, <2>6
<1> HIDE DEF across
<1> HIDE DEF calls
<1>5. /\ r \in Seq(Items) /\ Nearing(r)
      /\ \A y : InQueue(y, queue) => y = x \/ InQueue(y, r)
      /\ \A y : InQueue(y, calls) => InQueue(y, r)
      /\ \A y : InQueue(y, r) => InQueue(y, Tail(queue)) \/ InQueue(y, calls)
      /\ \A y : InQueue(y, Tail(queue)) => InQueue(y, queue)
      /\ \A y : InQueue(y, r) => x.hops <= y.hops
  <2>1. r = Tail(queue) \o calls /\ x = Head(queue)
    OBVIOUS
  <2>2. calls \in Seq(Items) /\ \A i \in DOMAIN calls : calls[i].hops = Head(queue).hops + 1
    BY <1>3
  <2>3. Stepped(queue, calls, Tail(queue) \o calls)
    BY <1>1, <2>2, QueueStep
  <2> HIDE DEF r, x
  <2> QED BY <2>1, <2>3 DEF Stepped
<1> HIDE DEF r
<1>6. FlowsFound \subseteq more
  OBVIOUS
<1>7. At \in 1..Len(program.entrypoints) /\ At' = At /\ Entry(At)' = Entry(At)
      /\ Entry(At) \in ToSet(program.entrypoints)
  <2>1. At' = At /\ At \in 0..Len(program.entrypoints) /\ At # 0
    BY <1>1 DEF At, TaintInv, TaintType
  <2>2. At \in 1..Len(program.entrypoints)
    <3>1. Len(program.entrypoints) \in Nat
      BY <1>1, ProgramsAreWhole
    <3> QED BY <2>1, <3>1
  <2> QED BY <1>1, <2>1, <2>2, EntryIs DEF Entry
<1>8. Traced(Entry(At), x)
  BY <1>2, <1>7 DEF TaintInv, QueueInv
<1>9. \A y : InQueue(y, calls) => Traced(Entry(At), y)
  <2> SUFFICES ASSUME NEW y, InQueue(y, calls) PROVE Traced(Entry(At), y)
    OBVIOUS
  <2>1. PICK k \in DOMAIN Body(x.symbol) :
            /\ Known(x.symbol)
            /\ PassedOn(Body(x.symbol)[k], T) # {} /\ y = CallItem(x.symbol, k, T, x.hops)
    BY <1>3
  <2> HIDE DEF x
  <2> QED BY <1>1, <1>2, <1>8, <2>1, TracedOn
<1>10. \A y \in more : MayTell(y)
  <2> SUFFICES ASSUME NEW y \in more, y \notin FlowsFound PROVE MayTell(y)
    BY DEF TaintInv, QueueInv
  <2>1. ~over /\ Known(x.symbol) /\ x.hops # 0 /\ y \in FoundIn(x.symbol, T)
    OBVIOUS
  <2>2. x.hops \in 1..MaxHops
    BY <1>2, <2>1
  <2> HIDE DEF x, over
  <2> QED BY <1>1, <1>7, <1>8, <2>1, <2>2, TracedTells
<1>11. TaintType'
  <2>1. Items' = Items
    BY <1>1, SameItems
  <2>2. \A i : Entry(At + i)' = Entry(At + i)
    BY <1>1, <1>7 DEF Entry
  <2> QED BY <1>1, <1>4, <1>5, <1>7, <2>1, <2>2 DEF TaintInv, TaintType
<1>12. QueueInv'
  <2>1. Nearing(queue)'
    BY <1>4, <1>5 DEF Nearing
  <2>2. ASSUME NEW y, InQueue(y, queue)' PROVE Traced(Entry(At), y)'
    <3>1. InQueue(y, r)
      BY <1>4, <2>2 DEF InQueue
    <3>2. Traced(Entry(At), y)
      BY <1>5, <1>7, <1>9, <3>1 DEF TaintInv, QueueInv
    <3>3. PICK d : d = Entry(At)
      OBVIOUS
    <3>4. y.hops \in Nat
      BY <1>5, <3>1, ItemHops DEF InQueue
    <3>5. Traced(d, y)'
      BY <1>1, <3>2, <3>3, <3>4, SameTraced
    <3> QED BY <1>7, <3>3, <3>5
  <2>3. ASSUME NEW y \in FlowsFound' PROVE MayTell(y)'
    BY <1>1, <1>4, <1>10, SameTold
  <2> QED BY <2>1, <2>2, <2>3 DEF QueueInv
<1>13. ASSUME ~abandoned PROVE TaintSearchInv'
  <2>1. PICK D : Depths(D, Entry(At), met, queue, FlowsFound)
    BY <1>7, <1>13 DEF TaintInv, TaintSearchInv
  <2>2. \E E : Depths(E, Entry(At), met', r, more)
    <3>1. CASE over
      <4>1. \A y : ~InQueue(y, calls)
        BY <1>3, <3>1
      <4>2. Depths(D, Entry(At), met, r, FlowsFound)
        <5> HIDE DEF x
        <5> QED BY <1>2, <1>5, <2>1, <3>1, <4>1, PassOver
      <4> QED BY <1>4, <3>1, <4>2
    <3>2. CASE ~over
      <4>1. x.hops <= MaxHops /\ PairOf(x) \notin met
        BY <1>2, <3>2
      <4>2. x.hops = 0 => \E f \in ToSet(Entry(At).roots) : x = RootItem(f)
        BY <1>8 DEF Traced
      <4>3. \A y : InQueue(y, r) => x.hops <= y.hops /\ (InQueue(y, queue) \/ y.hops = x.hops + 1)
        BY <1>3, <1>5 DEF InQueue
      <4>4. Known(x.symbol) =>
                /\ x.hops > 0 => FoundIn(x.symbol, T) \subseteq more
                /\ \A k \in DOMAIN Body(x.symbol) : PassedOn(Body(x.symbol)[k], T) # {} =>
                        InQueue(CallItem(x.symbol, k, T, x.hops), r)
        BY <1>2, <1>3, <1>5, <3>2
      <4>5. \E E : Depths(E, Entry(At), met \cup {PairOf(x)}, r, more)
        <5> HIDE DEF x, more
        <5> QED BY <1>2, <1>5, <1>6, <2>1, <4>1, <4>2, <4>3, <4>4, Meet
      <4> QED BY <1>4, <3>2, <4>5
    <3> QED BY <3>1, <3>2
  <2>3. \E E : Depths(E, Entry(At), met, queue, FlowsFound)'
    <3>1. PICK E, d, m, q, t : /\ d = Entry(At) /\ m = met' /\ q = r /\ t = more
                               /\ Depths(E, d, m, q, t)
      BY <2>2
    <3>2. Depths(E, d, m, q, t)'
      BY <1>1, <3>1, SameDepths
    <3> HIDE DEF more
    <3> QED BY <1>4, <1>7, <3>1, <3>2
  <2>4. ASSUME Unshadowed', NEW i \in 1..(At' - 1) PROVE EntryTold(Entry(i), FlowsFound)'
    <3>1. Unshadowed /\ i \in 1..(At - 1)
      BY <1>1, <1>7, <2>4, SameItems
    <3>2. PICK d, t : d = Entry(i) /\ t = more
      OBVIOUS
    <3>3. EntryTold(Entry(i), FlowsFound)
      BY <1>13, <3>1 DEF TaintInv, TaintSearchInv
    <3>4. EntryTold(d, t)
      <4> HIDE DEF more
      <4> QED BY <1>6, <3>2, <3>3, EntryToldMore
    <3>5. EntryTold(d, t)'
      BY <1>1, <3>4, SameEntryTold
    <3>6. Entry(i)' = d /\ FlowsFound' = t
      BY <1>1, <1>4, <3>2 DEF Entry
    <3> QED BY <3>5, <3>6
  <2> QED BY <2>3, <2>4 DEF TaintSearchInv
<1>14. ASSUME abandoned PROVE TaintSearchInv'
  BY <1>1, <1>14 DEF TaintSearchInv
<1> QED BY <1>11, <1>12, <1>13, <1>14 DEF TaintInv

LEMMA AbandonKeeps ==
  ASSUME TaintInv, AbandonSearch PROVE TaintInv'
<1>1. /\ program \in Programs /\ program' = program /\ left' = left /\ FlowsFound' = FlowsFound
      /\ flowsFound' \in Seq(FlowsFound') /\ queue' = <<>> /\ abandoned' = TRUE
  BY DEF TaintInv, TaintType, AbandonSearch, FlowsFound
<1>2. At' = At /\ \A i : Entry(At + i)' = Entry(At + i)
  BY <1>1 DEF At, Entry
<1>3. TaintType'
  <2>1. Items' = Items /\ <<>> \in Seq(Items)
    BY <1>1, SameItems
  <2> QED BY <1>1, <1>2, <2>1 DEF TaintInv, TaintType
<1>4. QueueInv'
  <2>1. \A y : ~InQueue(y, queue)'
    BY <1>1 DEF InQueue
  <2>2. Nearing(queue)'
    BY <1>1 DEF Nearing
  <2>3. ASSUME NEW y \in FlowsFound' PROVE MayTell(y)'
    BY <1>1, SameTold DEF TaintInv, QueueInv
  <2> QED BY <2>1, <2>2, <2>3 DEF QueueInv
<1>5. TaintSearchInv'
  BY <1>1 DEF TaintSearchInv
<1> QED BY <1>3, <1>4, <1>5 DEF TaintInv

LEMMA TaintStutters ==
  ASSUME TaintInv, UNCHANGED taintVars PROVE TaintInv'
<1>1. /\ program' = program /\ left' = left /\ queue' = queue /\ met' = met /\ FlowsFound' = FlowsFound
      /\ abandoned' = abandoned /\ program \in Programs /\ flowsFound' \in Seq(FlowsFound')
  BY DEF taintVars, TaintInv, TaintType, FlowsFound
<1>2. At' = At /\ \A i : Entry(i)' = Entry(i)
  BY <1>1 DEF At, Entry
<1>3. TaintType'
  <2>1. Items' = Items
    BY <1>1, SameItems
  <2> QED BY <1>1, <1>2, <2>1 DEF TaintInv, TaintType
<1>4. QueueInv'
  <2>1. ASSUME NEW y, At' # 0, InQueue(y, queue)' PROVE Traced(Entry(At), y)'
    <3>1. InQueue(y, queue) /\ At # 0
      BY <1>1, <1>2, <2>1 DEF InQueue
    <3>2. Traced(Entry(At), y) /\ y.hops \in Nat
      BY <3>1, ItemHops DEF TaintInv, TaintType, QueueInv, InQueue
    <3>3. PICK d : d = Entry(At)
      OBVIOUS
    <3>4. Traced(d, y)'
      BY <1>1, <3>2, <3>3, SameTraced
    <3>5. Entry(At)' = d
      BY <1>1, <1>2, <3>3 DEF Entry
    <3> QED BY <3>4, <3>5
  <2>2. Nearing(queue)'
    BY <1>1 DEF TaintInv, QueueInv, Nearing
  <2>3. ASSUME NEW y \in FlowsFound' PROVE MayTell(y)'
    BY <1>1, SameTold DEF TaintInv, QueueInv
  <2> QED BY <2>1, <2>2, <2>3 DEF QueueInv
<1>5. ASSUME ~abandoned PROVE TaintSearchInv'
  <2>1. ASSUME At # 0 PROVE \E D : Depths(D, Entry(At), met, queue, FlowsFound)'
    <3>1. PICK D, d, m, q, t : /\ d = Entry(At) /\ m = met /\ q = queue /\ t = FlowsFound
                               /\ Depths(D, d, m, q, t)
      BY <1>5, <2>1 DEF TaintInv, TaintSearchInv
    <3>2. Depths(D, d, m, q, t)'
      BY <1>1, <3>1, SameDepths
    <3>3. Entry(At)' = d
      BY <1>1, <1>2, <3>1 DEF Entry
    <3> QED BY <1>1, <3>1, <3>2, <3>3
  <2>2. ASSUME Unshadowed', NEW i \in 1..(At' - 1) PROVE EntryTold(Entry(i), FlowsFound)'
    <3>1. Unshadowed /\ i \in 1..(At - 1)
      BY <1>1, <1>2, <2>2, SameItems
    <3>2. PICK d, t : d = Entry(i) /\ t = FlowsFound
      OBVIOUS
    <3>3. EntryTold(d, t)
      BY <1>5, <3>1, <3>2 DEF TaintInv, TaintSearchInv
    <3>4. EntryTold(d, t)'
      BY <1>1, <3>3, SameEntryTold
    <3> QED BY <1>1, <1>2, <3>2, <3>4
  <2> QED BY <1>2, <2>1, <2>2 DEF TaintSearchInv
<1>6. ASSUME abandoned PROVE TaintSearchInv'
  BY <1>1, <1>6 DEF TaintSearchInv
<1> QED BY <1>3, <1>4, <1>5, <1>6 DEF TaintInv

(* The search has told of what is reached when no entry point is left.     *)
LEMMA TaintInvImplies ==
  ASSUME TaintInv PROVE TaintIsTold
<1> SUFFICES ASSUME Unshadowed
             PROVE  /\ queue = <<>> /\ left = <<>> =>
                        /\ ~abandoned /\ Len(flowsFound) <= MaxFlows =>
                                Reaches(FlowsOn, Flowing) \subseteq FlowsTold \cup Sole
                        /\ FlowsTold \subseteq Reaches(MayFlowOn, AtMost)
                    /\ SinglesTold
  BY DEF TaintIsTold, SinglesTold, Unshadowed
<1>1. program \in Programs
  BY DEF TaintInv, TaintType
<1>2. SinglesTold
  BY <1>1, SinglesAreTold
<1>3. FlowsFound \subseteq Reaches(MayFlowOn, AtMost)
  <2>1. ASSUME NEW x \in FlowsFound PROVE x \in Reaches(MayFlowOn, AtMost)
    <3>1. MayTell(x)
      BY <2>1 DEF TaintInv, QueueInv
    <3> QED BY <3>1 DEF MayTell, Reaches
  <2> QED BY <2>1
<1>4. ASSUME queue = <<>>, left = <<>>, ~abandoned
      PROVE  Reaches(FlowsOn, Flowing) \subseteq FlowsFound \cup Sole
  <2> DEFINE n == Len(program.entrypoints)
  <2>1. At = n /\ n \in Nat /\ DOMAIN program.entrypoints = 1..n
    BY <1>1, <1>4, ProgramsAreWhole DEF At
  <2>2. ASSUME NEW i \in 1..n PROVE EntryTold(Entry(i), FlowsFound)
    <3>1. CASE i = n
      <4>1. PICK D : Depths(D, Entry(n), met, <<>>, FlowsFound)
        BY <1>4, <2>1, <2>2 DEF TaintInv, TaintSearchInv
      <4>2. Entry(n) \in ToSet(program.entrypoints)
        BY <1>1, <2>1, <3>1, EntryIs
      <4> QED BY <1>1, <3>1, <4>1, <4>2, SearchIsDone
    <3>2. CASE i # n
      <4>1. i \in 1..(At - 1)
        BY <2>1, <3>2
      <4> QED BY <1>4, <4>1 DEF TaintInv, TaintSearchInv
    <3> QED BY <3>1, <3>2
  <2>3. ASSUME NEW x \in Reaches(FlowsOn, Flowing) PROVE x \in FlowsFound \cup Sole
    <3>1. PICK e \in ToSet(program.entrypoints), hops \in 1..MaxHops :
            \E p \in Reached(e, hops, FlowsOn) : x \in OpenSinks(p, Flowing)
      BY <2>3 DEF Reaches
    <3>2. PICK i \in 1..n : e = Entry(i)
      BY <2>1 DEF ToSet, Entry
    <3>3. EntryTold(e, FlowsFound)
      BY <2>2, <3>2
    <3> QED BY <3>1, <3>3 DEF EntryTold
  <2> QED BY <2>3
<1>5. /\ FlowsTold \subseteq FlowsFound
      /\ Len(flowsFound) <= MaxFlows => FlowsTold = FlowsFound
  <2>1. flowsFound \in Seq(FlowsFound)
    BY DEF TaintInv, TaintType
  <2>2. DOMAIN flowsFound = 1..Len(flowsFound) /\ Len(flowsFound) \in Nat /\ MaxFlows \in Nat
    BY <2>1, TaintLimits
  <2>3. Len(flowsFound) <= MaxFlows => \A j \in DOMAIN flowsFound : j <= MaxFlows
    BY <2>2
  <2> QED BY <2>3 DEF FlowsTold, FlowsFound, ToSet
<1>6. FlowsTold \subseteq Reaches(MayFlowOn, AtMost)
  BY <1>3, <1>5
<1>7. ASSUME queue = <<>>, left = <<>>, ~abandoned, Len(flowsFound) <= MaxFlows
      PROVE  Reaches(FlowsOn, Flowing) \subseteq FlowsTold \cup Sole
  BY <1>4, <1>5, <1>7
<1> QED BY <1>2, <1>6, <1>7

(* A search that was not abandoned has told of every unguarded sink that   *)
(* request data reaches from an entry point within so many calls, and of   *)
(* no other; and the rules of single functions of those in the entry       *)
(* points: for all programs that shadow no name, and for all limits.  The  *)
(* invariant says how far from its entry point each pair was met, which is *)
(* no further than any chain of calls to it.                               *)
THEOREM TaintHolds == TaintSpec => []TaintIsTold
<1>1. TaintInit => TaintInv
  BY TaintStarts
<1>2. TaintInv /\ [TaintNext]_taintVars => TaintInv'
  BY SearchNextKeeps, InspectKeeps, AbandonKeeps, TaintStutters DEF TaintNext
<1>3. TaintInv => TaintIsTold
  BY TaintInvImplies
<1> QED BY <1>1, <1>2, <1>3, PTL DEF TaintSpec
=============================================================================
