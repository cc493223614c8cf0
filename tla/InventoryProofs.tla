--------------------------- MODULE InventoryProofs ---------------------------
(***************************************************************************)
(* Theorems about Inventory, for any lockfiles, numbers of chains, depths  *)
(* and numbers of routes: every chain is one of the lockfile, a package is *)
(* direct exactly if a manifest requires it, and what is reached has a     *)
(* chain.                                                                  *)
(*                                                                         *)
(* The search is a fold over the queue of routes.  Its invariant says that *)
(* the queue is in the order of lengths, that whatever is kept or passed   *)
(* on the way was put in the queue, and that where the routes that were    *)
(* followed lead to is in the queue within one package more.               *)
(***************************************************************************)
EXTENDS Inventory, ReportProofs

IncludesParts(c, n, a) == IsList(a) /\ \A i \in 1..n : ToSet(c[i]) \subseteq ToSet(a)
JI == INSTANCE FoldTheorems WITH Op <- Joining, Holds <- IncludesParts

(* What a list of two has, one of them has, and the other way round.       *)
LEMMA ConcatElements ==
  ASSUME NEW s, NEW t, IsList(s), IsList(t)
  PROVE  ToSet(s \o t) = ToSet(s) \cup ToSet(t)
<1>1. /\ Len(s) \in Nat /\ DOMAIN s = 1..Len(s) /\ s \in Seq(ToSet(s))
      /\ Len(t) \in Nat /\ DOMAIN t = 1..Len(t) /\ t \in Seq(ToSet(t))
  BY ListFacts
<1>2. s \in Seq(ToSet(s) \cup ToSet(t)) /\ t \in Seq(ToSet(s) \cup ToSet(t))
  BY <1>1
<1>3. /\ DOMAIN (s \o t) = 1..(Len(s) + Len(t))
      /\ \A i \in 1..(Len(s) + Len(t)) :
            (s \o t)[i] = IF i <= Len(s) THEN s[i] ELSE t[i - Len(s)]
  BY <1>2
<1>4. ASSUME NEW i \in DOMAIN s PROVE s[i] \in ToSet(s \o t)
  <2>1. i \in DOMAIN (s \o t) /\ (s \o t)[i] = s[i]
    BY <1>1, <1>3
  <2> QED BY <2>1 DEF ToSet
<1>5. ASSUME NEW i \in DOMAIN t PROVE t[i] \in ToSet(s \o t)
  <2>1. i + Len(s) \in DOMAIN (s \o t) /\ (s \o t)[i + Len(s)] = t[i]
    BY <1>1, <1>3
  <2> QED BY <2>1 DEF ToSet
<1>6. ToSet(s) \subseteq ToSet(s \o t)
  BY <1>4 DEF ToSet
<1>7. ToSet(t) \subseteq ToSet(s \o t)
  BY <1>5 DEF ToSet
<1> QED
  BY <1>6, <1>7, ConcatFrom

(* The whole has what each part has.                                       *)
LEMMA JoinedIncludes ==
  ASSUME NEW l, IsList(l), \A i \in DOMAIN l : IsList(l[i]), NEW p \in DOMAIN l
  PROVE  ToSet(l[p]) \subseteq ToSet(Joined(l))
<1>1. Len(l) \in Nat /\ DOMAIN l = 1..Len(l)
  BY ListFacts
<1>2. IncludesParts(l, 0, <<>>)
  BY FewIsList DEF IncludesParts
<1>3. ASSUME NEW k \in 1..Len(l), NEW a, IncludesParts(l, k - 1, a)
      PROVE  IncludesParts(l, k, Joining(a, l[k]))
  <2>1. IsList(a) /\ IsList(l[k]) /\ \A i \in 1..(k - 1) : ToSet(l[i]) \subseteq ToSet(a)
    BY <1>1, <1>3 DEF IncludesParts
  <2>2. IsList(a \o l[k]) /\ ToSet(a \o l[k]) = ToSet(a) \cup ToSet(l[k])
    BY <2>1, ConcatIsList, ConcatElements
  <2>3. \A i \in 1..k : i \in 1..(k - 1) \/ i = k
    OBVIOUS
  <2> QED
    BY <2>1, <2>2, <2>3 DEF IncludesParts, Joining
<1>4. IncludesParts(l, Len(l), JI!FoldLeft(Joining, <<>>, l))
  BY <1>1, <1>2, <1>3, JI!FoldHolds
<1>5. JI!FoldLeft(Joining, <<>>, l) = Joined(l)
  BY DEF Joined, JI!FoldLeft, FoldLeft, JI!MapThenFoldSet, MapThenFoldSet, JI!Max, Max
<1> QED
  BY <1>1, <1>4, <1>5 DEF IncludesParts

(* A filter keeps what passes.                                             *)
LEMMA PassedIsKept ==
  ASSUME NEW s, IsList(s), NEW f, DOMAIN f = DOMAIN s, f = [i \in DOMAIN s |-> f[i]],
         \A i \in DOMAIN s : f[i] \in {<<>>, <<s[i]>>}
  PROVE  ToSet(Joined(f)) = {s[i] : i \in {j \in DOMAIN s : f[j] # <<>>}}
<1> DEFINE X == {s[i] : i \in {j \in DOMAIN s : f[j] # <<>>}}
<1>1. IsList(f)
  BY MapIsList
<1>2. \A i \in DOMAIN f : IsList(f[i])
  BY FewIsList
<1>3. ASSUME NEW i \in DOMAIN s, f[i] # <<>> PROVE s[i] \in ToSet(Joined(f))
  <2>1. f[i] = <<s[i]>>
    BY <1>3
  <2>2. ToSet(f[i]) \subseteq ToSet(Joined(f))
    BY <1>1, <1>2, JoinedIncludes
  <2>3. s[i] \in ToSet(<<s[i]>>)
    BY DEF ToSet
  <2> QED BY <2>1, <2>2, <2>3
<1>4. X \subseteq ToSet(Joined(f))
  BY <1>3
<1>5. ToSet(Joined(f)) \subseteq X
  BY PassingElements
<1> QED
  BY <1>4, <1>5

(* The first and the last of some places of a list are among them.         *)
LEMMA Earliests ==
  ASSUME NEW n \in Nat, NEW S, S \subseteq 1..n
  PROVE  /\ S = {} => Earliest(S) = 0
         /\ S # {} => Earliest(S) \in S
<1>1. ASSUME S # {} PROVE \E i \in S : \A j \in S : i <= j
  <2>1. S \in SUBSET Nat
    OBVIOUS
  <2> QED BY <1>1, <2>1, J!LeastOf
<1> QED
  BY <1>1 DEF Earliest

(* The same of the last.                                                   *)
LEMMA Latests ==
  ASSUME NEW n \in Nat, NEW S, S \subseteq 1..n
  PROVE  /\ S = {} => Latest(S) = 0
         /\ S # {} => Latest(S) \in S
<1>1. ASSUME S # {} PROVE \E i \in S : \A j \in S : j <= i
  <2> DEFINE T == {m \in Nat : \A j \in S : j <= m}
  <2>1. T \in SUBSET Nat /\ n \in T
    OBVIOUS
  <2>2. PICK m \in T : \A k \in T : m <= k
    <3> HIDE DEF T
    <3> QED BY <2>1, J!LeastOf
  <2>3. m \in S
    <3> SUFFICES ASSUME m \notin S PROVE FALSE
      OBVIOUS
    <3>1. \A j \in S : j \in 1..n /\ j <= m /\ j # m
      OBVIOUS
    <3>2. m # 0
      <4>1. PICK j \in S : TRUE
        BY <1>1
      <4> QED BY <3>1, <4>1
    <3>3. m - 1 \in T
      BY <3>1, <3>2
    <3> QED BY <2>2, <3>3
  <2> QED BY <2>3
<1> QED
  BY <1>1 DEF Latest

-----------------------------------------------------------------------------
(* The graphs of lockfiles, and what a search over one has.                *)
ChainNames == {"manifest", "labels"}
SearchNames == {"graph", "chains", "routes"}

LabelsOf(g) == {g.label[n] : n \in DOMAIN g.label}

IsGraph(g) ==
    /\ DOMAIN g.targets = DOMAIN g.label
    /\ \A n \in DOMAIN g.label : IsList(g.targets[n]) /\ ToSet(g.targets[n]) \subseteq DOMAIN g.label
    /\ IsList(g.seeds)
    /\ \A s \in ToSet(g.seeds) :
            /\ s.node \in DOMAIN g.label
            /\ s.chain = [f \in ChainNames |-> s.chain[f]]
            /\ s.chain.labels = <<g.label[s.node]>>

(* A chain of a graph that ends with a label.                              *)
ChainTo(g, l, c) ==
    /\ c = [f \in ChainNames |-> c[f]]
    /\ IsList(c.labels) /\ c.labels # <<>>
    /\ Last(c.labels) = l /\ IsParentChain(g, c)

IsRoute(g, r) == r.node \in DOMAIN g.label /\ ChainTo(g, g.label[r.node], r.chain)

IsSearch(g, s) ==
    /\ s = [f \in SearchNames |-> s[f]]
    /\ s.graph = g
    /\ s.chains = [l \in LabelsOf(g) |-> s.chains[l]]
    /\ IsList(s.routes)
    /\ \A l \in LabelsOf(g) : IsList(s.chains[l])
    /\ \A l \in LabelsOf(g) : \A c \in ToSet(s.chains[l]) : ChainTo(g, l, c)
    /\ \A r \in ToSet(s.routes) : IsRoute(g, r) /\ s.chains[g.label[r.node]] # <<>>

(* A route to a label, of no more packages than d.                         *)
Routed(s, l, d) ==
    \E q \in ToSet(s.routes) : s.graph.label[q.node] = l /\ Len(q.chain.labels) <= d

(* Whatever is kept is followed, and every part of what is followed.       *)
Backed(g, s) ==
    /\ \A l \in LabelsOf(g) : \A c \in ToSet(s.chains[l]) :
            \E q \in ToSet(s.routes) : g.label[q.node] = l /\ q.chain = c
    /\ \A r \in ToSet(s.routes) : \A p \in 1..Len(r.chain.labels) :
            Routed(s, r.chain.labels[p], p)

(* The queue is in the order of lengths, and none is longer than d.        *)
Size(s, j) == Len(s.routes[j].chain.labels)
Sorted(s) == \A i, j \in DOMAIN s.routes : i <= j => Size(s, i) <= Size(s, j)
Bounded(s, d) == \A j \in DOMAIN s.routes : Size(s, j) <= d

(* What a search has it keeps, at its place.                               *)
Extends(g, s, t) ==
    /\ \A l \in LabelsOf(g) : s.chains[l] # <<>> =>
            t.chains[l] # <<>> /\ t.chains[l][1] = s.chains[l][1]
    /\ Len(s.routes) <= Len(t.routes)
    /\ \A j \in DOMAIN s.routes : t.routes[j] = s.routes[j]

Searching(g, s, d) == IsSearch(g, s) /\ Backed(g, s) /\ Sorted(s) /\ Bounded(s, d)

(* The routes of a search have a package at least.                         *)
LEMMA RouteSizes ==
  ASSUME NEW g, NEW s, IsSearch(g, s), NEW j \in DOMAIN s.routes
  PROVE  /\ Size(s, j) \in Nat \ {0} /\ DOMAIN s.routes = 1..Len(s.routes)
         /\ Len(s.routes) \in Nat /\ s.routes[j] \in ToSet(s.routes)
<1>1. s.routes[j] \in ToSet(s.routes)
  BY DEF ToSet
<1>2. IsList(s.routes[j].chain.labels) /\ s.routes[j].chain.labels # <<>>
  BY <1>1 DEF IsSearch, IsRoute, ChainTo
<1>3. s.routes[j].chain.labels \in Seq(ToSet(s.routes[j].chain.labels))
  BY <1>2 DEF IsList
<1>4. Size(s, j) \in Nat \ {0}
  BY <1>2, <1>3 DEF Size
<1>5. IsList(s.routes)
  BY DEF IsSearch
<1> QED
  BY <1>1, <1>4, <1>5, ListFacts

(* What is routed stays routed.                                            *)
LEMMA RoutedStays ==
  ASSUME NEW g, NEW s, NEW t, IsSearch(g, s), IsSearch(g, t), Extends(g, s, t),
         NEW l, NEW d, Routed(s, l, d)
  PROVE  Routed(t, l, d)
<1>1. PICK q \in ToSet(s.routes) : s.graph.label[q.node] = l /\ Len(q.chain.labels) <= d
  BY DEF Routed
<1>2. PICK j \in DOMAIN s.routes : q = s.routes[j]
  BY DEF ToSet
<1>3. /\ DOMAIN s.routes = 1..Len(s.routes) /\ Len(s.routes) \in Nat
      /\ DOMAIN t.routes = 1..Len(t.routes) /\ Len(t.routes) \in Nat
      /\ s.graph = g /\ t.graph = g
  BY ListFacts DEF IsSearch
<1>4. j \in DOMAIN t.routes /\ t.routes[j] = q
  BY <1>2, <1>3 DEF Extends
<1>5. q \in ToSet(t.routes)
  BY <1>4 DEF ToSet
<1> QED
  BY <1>1, <1>3, <1>5 DEF Routed

(* A search that goes on and on has what it had.                           *)
LEMMA ExtendsFurther ==
  ASSUME NEW g, NEW s, NEW t, NEW u, IsSearch(g, s), IsSearch(g, t), IsSearch(g, u),
         Extends(g, s, t), Extends(g, t, u)
  PROVE  Extends(g, s, u)
<1>1. /\ DOMAIN s.routes = 1..Len(s.routes) /\ Len(s.routes) \in Nat
      /\ DOMAIN t.routes = 1..Len(t.routes) /\ Len(t.routes) \in Nat
      /\ Len(u.routes) \in Nat
  BY ListFacts DEF IsSearch
<1> QED
  BY <1>1 DEF Extends

(* What is new in a list is at its end.                                    *)
LEMMA AddNewFacts ==
  ASSUME NEW s, IsList(s), NEW x
  PROVE  /\ IsList(AddNew(s, x)) /\ ToSet(AddNew(s, x)) = ToSet(s) \cup {x}
         /\ Len(AddNew(s, x)) \in {Len(s), Len(s) + 1} /\ Len(s) \in Nat
         /\ \A i \in DOMAIN s : AddNew(s, x)[i] = s[i]
         /\ \A i \in DOMAIN AddNew(s, x) : i \in DOMAIN s \/ AddNew(s, x)[i] = x
         /\ AddNew(s, x) # <<>>
<1>1. Len(s) \in Nat /\ DOMAIN s = 1..Len(s)
  BY ListFacts
<1>2. CASE x \in ToSet(s)
  <2>1. AddNew(s, x) = s
    BY <1>2 DEF AddNew
  <2>2. s # <<>>
    BY <1>2 DEF ToSet
  <2> QED BY <1>1, <1>2, <2>1, <2>2
<1>3. CASE x \notin ToSet(s)
  <2> DEFINE t == Append(s, x)
  <2>1. AddNew(s, x) = t
    BY <1>3 DEF AddNew
  <2>2. /\ IsList(t) /\ Len(t) = Len(s) + 1 /\ DOMAIN t = 1..(Len(s) + 1)
        /\ t[Len(s) + 1] = x /\ \A i \in 1..Len(s) : t[i] = s[i]
    BY AppendFacts
  <2>3. ToSet(t) = ToSet(s) \cup {x}
    <3> HIDE DEF t
    <3>1. ToSet(t) = {t[i] : i \in 1..(Len(s) + 1)} /\ ToSet(s) = {s[i] : i \in 1..Len(s)}
      BY <1>1, <2>2 DEF ToSet
    <3> QED BY <1>1, <2>2, <3>1
  <2>4. t # <<>>
    <3> HIDE DEF t
    <3> QED BY <1>1, <2>2
  <2> HIDE DEF t
  <2> QED BY <1>1, <2>1, <2>2, <2>3, <2>4
<1> QED BY <1>2, <1>3

(* And one that does nothing.                                              *)
LEMMA ExtendsItself ==
  ASSUME NEW g, NEW s PROVE Extends(g, s, s)
BY DEF Extends

(* A route more.                                                           *)
LEMMA EnqueueFacts ==
  ASSUME NEW g, NEW s, NEW d \in Nat, Searching(g, s, d),
         NEW r, IsRoute(g, r), Len(r.chain.labels) = d,
         \A p \in 1..(d - 1) : Routed(s, r.chain.labels[p], p)
  PROVE  /\ Searching(g, EnqueueRoute(s, r), d)
         /\ Extends(g, s, EnqueueRoute(s, r))
         /\ Routed(EnqueueRoute(s, r), g.label[r.node], d)
<1> DEFINE label == g.label[r.node]
           known == s.chains[label]
           t == EnqueueRoute(s, r)
<1>1. /\ IsSearch(g, s) /\ Backed(g, s) /\ Sorted(s) /\ Bounded(s, d) /\ s.graph = g
      /\ r.node \in DOMAIN g.label /\ ChainTo(g, label, r.chain) /\ label \in LabelsOf(g)
      /\ IsList(s.routes) /\ IsList(known)
  BY DEF Searching, IsSearch, IsRoute, LabelsOf
<1>2. Len(s.routes) \in Nat /\ DOMAIN s.routes = 1..Len(s.routes)
      /\ Len(known) \in Nat /\ DOMAIN known = 1..Len(known)
  BY <1>1, ListFacts
<1>3. CASE r.chain \notin ToSet(known) /\ Len(known) >= MaxParentChains
  <2>1. t = s
    BY <1>1, <1>3 DEF EnqueueRoute
  <2>2. known[1] \in ToSet(known)
    <3>1. 1 \in DOMAIN known
      BY <1>2, <1>3, ParentLimits
    <3> QED BY <3>1 DEF ToSet
  <2>3. PICK q \in ToSet(s.routes) : g.label[q.node] = label /\ q.chain = known[1]
    BY <1>1, <2>2 DEF Backed
  <2>4. PICK j \in DOMAIN s.routes : q = s.routes[j]
    BY DEF ToSet
  <2>5. Len(q.chain.labels) <= d
    BY <1>1, <2>4 DEF Bounded, Size
  <2>6. Routed(s, label, d)
    BY <1>1, <2>3, <2>5 DEF Routed
  <2> QED
    BY <2>1, <2>6, ExtendsItself
<1>4. CASE ~(r.chain \notin ToSet(known) /\ Len(known) >= MaxParentChains)
  <2>1. t = [s EXCEPT !.chains[label] = AddNew(@, r.chain), !.routes = AddNew(@, r)]
    BY <1>1, <1>4 DEF EnqueueRoute
  <2>2. /\ s = [f \in SearchNames |-> s[f]]
        /\ s.chains = [l \in LabelsOf(g) |-> s.chains[l]]
    BY <1>1 DEF IsSearch
  <2> DEFINE more == AddNew(known, r.chain)
             routes == AddNew(s.routes, r)
  <2>3. /\ t = [f \in SearchNames |-> t[f]] /\ t.graph = g
        /\ t.chains = [l \in LabelsOf(g) |-> t.chains[l]]
        /\ t.chains[label] = more /\ \A l \in LabelsOf(g) : l # label => t.chains[l] = s.chains[l]
        /\ t.routes = routes
    <3> HIDE DEF t, more, routes
    <3>1. t = [s EXCEPT !.chains[label] = more, !.routes = routes]
      BY <2>1 DEF more, routes
    <3> QED BY <1>1, <2>2, <3>1 DEF SearchNames
  <2>4. /\ IsList(more) /\ ToSet(more) = ToSet(known) \cup {r.chain} /\ more # <<>>
        /\ \A i \in DOMAIN known : more[i] = known[i]
    BY <1>1, AddNewFacts
  <2>5. /\ IsList(routes) /\ ToSet(routes) = ToSet(s.routes) \cup {r}
        /\ Len(routes) \in {Len(s.routes), Len(s.routes) + 1}
        /\ \A i \in DOMAIN s.routes : routes[i] = s.routes[i]
        /\ \A i \in DOMAIN routes : i \in DOMAIN s.routes \/ routes[i] = r
    BY <1>1, AddNewFacts
  <2> HIDE DEF t, more, routes
  <2>6. IsSearch(g, t)
    <3>1. \A l \in LabelsOf(g) : IsList(t.chains[l])
      BY <1>1, <2>3, <2>4 DEF IsSearch
    <3>2. \A l \in LabelsOf(g) : \A c \in ToSet(t.chains[l]) : ChainTo(g, l, c)
      <4> TAKE l \in LabelsOf(g)
      <4> TAKE c \in ToSet(t.chains[l])
      <4>1. CASE l = label
        BY <1>1, <2>3, <2>4, <4>1 DEF IsSearch
      <4>2. CASE l # label
        BY <1>1, <2>3, <4>2 DEF IsSearch
      <4> QED BY <4>1, <4>2
    <3>3. \A q \in ToSet(t.routes) : IsRoute(g, q) /\ t.chains[g.label[q.node]] # <<>>
      <4> TAKE q \in ToSet(t.routes)
      <4>1. IsRoute(g, q)
        BY <1>1, <2>3, <2>5 DEF IsSearch
      <4>2. g.label[q.node] \in LabelsOf(g)
        BY <4>1 DEF IsRoute, LabelsOf
      <4>3. CASE g.label[q.node] = label
        BY <2>3, <2>4, <4>1, <4>3
      <4>4. CASE g.label[q.node] # label
        <5>1. q \in ToSet(s.routes)
          BY <2>3, <2>5, <4>4
        <5> QED BY <1>1, <2>3, <4>1, <4>2, <4>4, <5>1 DEF IsSearch
      <4> QED BY <4>3, <4>4
    <3> QED BY <2>3, <2>5, <3>1, <3>2, <3>3 DEF IsSearch
  <2>7. Extends(g, s, t)
    <3>1. \A l \in LabelsOf(g) : s.chains[l] # <<>> =>
             t.chains[l] # <<>> /\ t.chains[l][1] = s.chains[l][1]
      <4> TAKE l \in LabelsOf(g)
      <4>1. CASE l = label
        <5>1. known # <<>> => 1 \in DOMAIN known
          BY <1>1, <1>2
        <5> QED BY <2>3, <2>4, <4>1, <5>1
      <4>2. CASE l # label
        BY <2>3, <4>2
      <4> QED BY <4>1, <4>2
    <3> QED BY <1>2, <2>3, <2>5, <3>1 DEF Extends
  <2>8. Routed(t, label, d)
    <3>1. r \in ToSet(t.routes)
      BY <2>3, <2>5
    <3> QED BY <2>3, <3>1 DEF Routed
  <2>9. Backed(g, t)
    <3>1. \A l \in LabelsOf(g) : \A c \in ToSet(t.chains[l]) :
             \E q \in ToSet(t.routes) : g.label[q.node] = l /\ q.chain = c
      <4> TAKE l \in LabelsOf(g)
      <4> TAKE c \in ToSet(t.chains[l])
      <4>1. CASE c \in ToSet(s.chains[l])
        <5>1. PICK q \in ToSet(s.routes) : g.label[q.node] = l /\ q.chain = c
          BY <1>1, <4>1 DEF Backed
        <5>2. q \in ToSet(t.routes)
          BY <2>3, <2>5
        <5> QED BY <5>1, <5>2
      <4>2. CASE c \notin ToSet(s.chains[l])
        <5>1. l = label /\ c = r.chain
          BY <2>3, <2>4, <4>2
        <5>2. r \in ToSet(t.routes) /\ g.label[r.node] = l /\ r.chain = c
          BY <2>3, <2>5, <5>1
        <5> QED BY <5>2
      <4> QED BY <4>1, <4>2
    <3>2. \A q \in ToSet(t.routes) : \A p \in 1..Len(q.chain.labels) :
             Routed(t, q.chain.labels[p], p)
      <4> TAKE q \in ToSet(t.routes)
      <4> TAKE p \in 1..Len(q.chain.labels)
      <4>1. CASE q \in ToSet(s.routes)
        <5>1. Routed(s, q.chain.labels[p], p)
          BY <1>1, <4>1 DEF Backed
        <5> QED BY <1>1, <2>6, <2>7, <5>1, RoutedStays
      <4>2. CASE q = r
        <5>1. CASE p \in 1..(d - 1)
          BY <1>1, <2>6, <2>7, <4>2, <5>1, RoutedStays
        <5>2. CASE p = d
          <6>1. r.chain.labels[d] = label
            BY <1>1 DEF ChainTo, Last
          <6> QED BY <2>8, <4>2, <5>2, <6>1
        <5> QED BY <4>2, <5>1, <5>2
      <4> QED BY <2>3, <2>5, <4>1, <4>2
    <3> QED BY <3>1, <3>2 DEF Backed
  <2>10. \A i \in DOMAIN t.routes :
            \/ i \in DOMAIN s.routes /\ Size(t, i) = Size(s, i)
            \/ Size(t, i) = d /\ i \in Nat
    <3>1. DOMAIN t.routes = 1..Len(t.routes)
      BY <2>3, <2>5, ListFacts
    <3> QED BY <2>3, <2>5, <3>1 DEF Size
  <2>11. Bounded(t, d)
    BY <1>1, <2>10 DEF Bounded
  <2>12. Sorted(t)
    <3>1. \A i, j \in DOMAIN t.routes : i <= j /\ j \in DOMAIN s.routes => i \in DOMAIN s.routes
      <4>1. DOMAIN t.routes = 1..Len(t.routes)
        BY <2>3, <2>5, ListFacts
      <4> QED BY <1>2, <4>1
    <3>2. \A i \in DOMAIN s.routes : i \in DOMAIN t.routes /\ Size(t, i) = Size(s, i)
      <4>1. DOMAIN t.routes = 1..Len(t.routes) /\ Len(t.routes) \in Nat
        BY <2>3, <2>5, ListFacts
      <4> QED BY <1>2, <2>3, <2>5, <4>1 DEF Size
    <3> SUFFICES ASSUME NEW i \in DOMAIN t.routes, NEW j \in DOMAIN t.routes, i <= j
                 PROVE  Size(t, i) <= Size(t, j)
      BY DEF Sorted
    <3>3. CASE j \in DOMAIN s.routes
      BY <1>1, <3>1, <3>2, <3>3 DEF Sorted
    <3>4. CASE j \notin DOMAIN s.routes
      BY <2>10, <2>11, <3>4 DEF Bounded
    <3> QED BY <3>3, <3>4
  <2> QED
    BY <2>6, <2>7, <2>8, <2>9, <2>11, <2>12 DEF Searching, t
<1> QED
  BY <1>3, <1>4

Enqueued(c, n, a) ==
    /\ Searching(c[1], a, c[4]) /\ Extends(c[1], c[2], a)
    /\ \A i \in 1..n : Routed(a, c[1].label[c[3][i].node], c[4])
EQ == INSTANCE FoldTheorems WITH Op <- EnqueueRoute, Holds <- Enqueued

(* Some routes more, all of the same length.                               *)
LEMMA EnqueueAll ==
  ASSUME NEW g, NEW s, NEW d \in Nat, Searching(g, s, d), NEW e, IsList(e),
         \A i \in DOMAIN e : /\ IsRoute(g, e[i]) /\ Len(e[i].chain.labels) = d
                             /\ \A p \in 1..(d - 1) : Routed(s, e[i].chain.labels[p], p)
  PROVE  /\ Searching(g, FoldLeft(EnqueueRoute, s, e), d)
         /\ Extends(g, s, FoldLeft(EnqueueRoute, s, e))
         /\ \A i \in DOMAIN e : Routed(FoldLeft(EnqueueRoute, s, e), g.label[e[i].node], d)
<1> DEFINE c == <<g, s, e, d>>
<1>1. Len(e) \in Nat /\ DOMAIN e = 1..Len(e)
  BY ListFacts
<1>2. c[1] = g /\ c[2] = s /\ c[3] = e /\ c[4] = d
  OBVIOUS
<1> HIDE DEF c
<1>3. Enqueued(c, 0, s)
  <2>1. \A i \in 1..0 : FALSE
    OBVIOUS
  <2> QED BY <1>2, <2>1, ExtendsItself DEF Enqueued
<1>4. ASSUME NEW k \in 1..Len(e), NEW a, Enqueued(c, k - 1, a)
      PROVE  Enqueued(c, k, EnqueueRoute(a, e[k]))
  <2>1. /\ Searching(g, a, d) /\ Extends(g, s, a)
        /\ \A i \in 1..(k - 1) : Routed(a, g.label[e[i].node], d)
    BY <1>2, <1>4 DEF Enqueued
  <2>2. IsSearch(g, s) /\ IsSearch(g, a)
    BY <2>1 DEF Searching
  <2>3. /\ IsRoute(g, e[k]) /\ Len(e[k].chain.labels) = d
        /\ \A p \in 1..(d - 1) : Routed(s, e[k].chain.labels[p], p)
    BY <1>1
  <2>4. \A p \in 1..(d - 1) : Routed(a, e[k].chain.labels[p], p)
    BY <2>1, <2>2, <2>3, RoutedStays
  <2> DEFINE b == EnqueueRoute(a, e[k])
  <2>5. Searching(g, b, d) /\ Extends(g, a, b) /\ Routed(b, g.label[e[k].node], d)
    BY <2>1, <2>3, <2>4, EnqueueFacts
  <2> HIDE DEF b
  <2>6. IsSearch(g, b)
    BY <2>5 DEF Searching
  <2>7. Extends(g, s, b)
    BY <2>1, <2>2, <2>5, <2>6, ExtendsFurther
  <2>8. \A i \in 1..k : Routed(b, g.label[e[i].node], d)
    <3> TAKE i \in 1..k
    <3>1. CASE i \in 1..(k - 1)
      BY <2>1, <2>2, <2>5, <2>6, <3>1, RoutedStays
    <3>2. CASE i = k
      BY <2>5, <3>2
    <3> QED BY <3>1, <3>2
  <2>9. Enqueued(c, k, b)
    BY <1>2, <2>5, <2>7, <2>8 DEF Enqueued
  <2> QED BY <2>9 DEF b
<1>5. Enqueued(c, Len(e), EQ!FoldLeft(EnqueueRoute, s, e))
  BY <1>1, <1>3, <1>4, EQ!FoldHolds
<1>6. EQ!FoldLeft(EnqueueRoute, s, e) = FoldLeft(EnqueueRoute, s, e)
  BY DEF EQ!FoldLeft, FoldLeft, EQ!MapThenFoldSet, MapThenFoldSet, EQ!Max, Max
<1> QED
  BY <1>1, <1>2, <1>5, <1>6 DEF Enqueued

(* What a node requires that its chain has not been through.               *)
LEMMA OpenTargetsAre ==
  ASSUME NEW g, IsGraph(g), NEW r, r.node \in DOMAIN g.label
  PROVE  /\ IsList(OpenTargets(g, r))
         /\ ToSet(OpenTargets(g, r)) =
                {t \in ToSet(g.targets[r.node]) : g.label[t] \notin ToSet(r.chain.labels)}
<1> DEFINE s == g.targets[r.node]
           f == [i \in DOMAIN s |-> IF g.label[s[i]] \notin ToSet(r.chain.labels)
                                    THEN <<s[i]>> ELSE <<>>]
<1>1. IsList(s) /\ Len(s) \in Nat /\ DOMAIN s = 1..Len(s)
  BY ListFacts DEF IsGraph
<1>2. OpenTargets(g, r) = Joined(f)
  BY DEF OpenTargets, Passing
<1>3. /\ DOMAIN f = DOMAIN s /\ f = [i \in DOMAIN s |-> f[i]]
      /\ \A i \in DOMAIN s : f[i] \in {<<>>, <<s[i]>>}
      /\ \A i \in DOMAIN s : f[i] # <<>> <=> g.label[s[i]] \notin ToSet(r.chain.labels)
  OBVIOUS
<1> HIDE DEF f, s
<1>4. IsList(Joined(f))
  <2>1. IsList(f) /\ \A i \in DOMAIN f : IsList(f[i])
    BY <1>1, <1>3, MapIsList, FewIsList
  <2> QED BY <2>1, JoinedIsList
<1>5. ToSet(Joined(f)) = {s[i] : i \in {j \in DOMAIN s : f[j] # <<>>}}
  BY <1>1, <1>3, PassedIsKept
<1>6. {s[i] : i \in {j \in DOMAIN s : f[j] # <<>>}}
        = {t \in ToSet(s) : g.label[t] \notin ToSet(r.chain.labels)}
  BY <1>3 DEF ToSet
<1> QED
  BY <1>2, <1>4, <1>5, <1>6 DEF s

IsChain(c) == c = [f \in ChainNames |-> c[f]]

(* A chain goes on to what its last package requires.                      *)
LEMMA ChainGoesOn ==
  ASSUME NEW g, IsGraph(g), NEW r, IsRoute(g, r), NEW t \in ToSet(g.targets[r.node]),
         NEW c, IsChain(c), c.manifest = r.chain.manifest,
         c.labels = Append(r.chain.labels, g.label[t])
  PROVE  /\ ChainTo(g, g.label[t], c) /\ Len(c.labels) = Len(r.chain.labels) + 1
         /\ \A p \in 1..Len(r.chain.labels) : c.labels[p] = r.chain.labels[p]
<1> DEFINE s == r.chain.labels
           x == g.label[t]
           u == Append(s, x)
<1>1. /\ r.node \in DOMAIN g.label /\ ChainTo(g, g.label[r.node], r.chain)
      /\ r.chain = [f \in ChainNames |-> r.chain[f]] /\ IsList(s) /\ s # <<>>
      /\ Last(s) = g.label[r.node] /\ IsParentChain(g, r.chain)
  BY DEF IsRoute, ChainTo
<1>2. /\ IsList(u) /\ Len(u) = Len(s) + 1 /\ Len(s) \in Nat /\ DOMAIN s = 1..Len(s)
      /\ DOMAIN u = 1..(Len(s) + 1)
      /\ u[Len(s) + 1] = x /\ \A i \in 1..Len(s) : u[i] = s[i]
  BY <1>1, AppendFacts
<1> HIDE DEF u
<1>3. c = [f \in ChainNames |-> c[f]] /\ c.labels = u /\ c.manifest = r.chain.manifest
  BY DEF u, IsChain
<1>4. Len(s) \in Nat \ {0}
  BY <1>1, <1>2
<1>5. Last(u) = x /\ u # <<>>
  BY <1>2, <1>4 DEF Last
<1>6. Head(u) = u[1] /\ Head(s) = s[1] /\ u[1] = s[1]
  BY <1>2, <1>4 DEF Head
<1>7. \E q \in ToSet(g.seeds) :
            q.chain.manifest = c.manifest /\ g.label[q.node] = Head(c.labels)
  BY <1>1, <1>3, <1>6 DEF IsParentChain
<1>8. ASSUME NEW i \in 1..(Len(u) - 1) PROVE Requires(g, u[i], u[i + 1])
  <2>1. CASE i \in 1..(Len(s) - 1)
    <3>1. Requires(g, s[i], s[i + 1])
      BY <1>1, <2>1 DEF IsParentChain
    <3>2. u[i] = s[i] /\ u[i + 1] = s[i + 1]
      BY <1>2, <2>1
    <3> QED BY <3>1, <3>2
  <2>2. CASE i = Len(s)
    <3>1. u[Len(s)] = g.label[r.node] /\ u[Len(s) + 1] = g.label[t]
      <4>1. s[Len(s)] = g.label[r.node]
        BY <1>1 DEF Last
      <4>2. Len(s) \in 1..Len(s)
        BY <1>4
      <4> QED BY <1>2, <4>1, <4>2
    <3>3. Requires(g, u[Len(s)], u[Len(s) + 1])
      BY <1>1, <3>1 DEF Requires
    <3> QED BY <2>2, <3>3
  <2> QED BY <1>2, <1>4, <2>1, <2>2
<1>9. IsParentChain(g, c)
  BY <1>3, <1>7, <1>8 DEF IsParentChain
<1> QED
  BY <1>2, <1>3, <1>5, <1>9 DEF ChainTo

(* The routes that one is extended to.                                     *)
LEMMA ExtendedAre ==
  ASSUME NEW g, IsGraph(g), NEW r, IsRoute(g, r)
  PROVE  /\ IsList(Extended(g, r))
         /\ \A i \in DOMAIN Extended(g, r) :
                /\ IsRoute(g, Extended(g, r)[i])
                /\ Len(Extended(g, r)[i].chain.labels) = Len(r.chain.labels) + 1
                /\ \A p \in 1..Len(r.chain.labels) :
                        Extended(g, r)[i].chain.labels[p] = r.chain.labels[p]
         /\ Len(r.chain.labels) < MaxParentDepth =>
                \A t \in ToSet(g.targets[r.node]) :
                    \/ g.label[t] \in ToSet(r.chain.labels)
                    \/ \E i \in DOMAIN Extended(g, r) : Extended(g, r)[i].node = t
<1>1. Len(r.chain.labels) \in Nat
  BY ListFacts DEF IsRoute, ChainTo
<1>2. CASE Len(r.chain.labels) >= MaxParentDepth
  <2>1. Extended(g, r) = <<>>
    BY <1>2 DEF Extended
  <2>2. IsList(<<>>) /\ DOMAIN <<>> = {}
    BY FewIsList
  <2>3. ~(Len(r.chain.labels) < MaxParentDepth)
    BY <1>1, <1>2, ParentLimits
  <2> QED BY <2>1, <2>2, <2>3
<1>3. CASE ~(Len(r.chain.labels) >= MaxParentDepth)
  <2> DEFINE o == OpenTargets(g, r)
             e == [i \in DOMAIN o |->
                    [node |-> o[i], chain |-> [r.chain EXCEPT !.labels = Append(@, g.label[o[i]])]]]
  <2>1. Extended(g, r) = e
    BY <1>3 DEF Extended, Onward
  <2>2. /\ IsList(o) /\ r.node \in DOMAIN g.label
        /\ ToSet(o) = {t \in ToSet(g.targets[r.node]) : g.label[t] \notin ToSet(r.chain.labels)}
    BY OpenTargetsAre DEF IsRoute
  <2> HIDE DEF o
  <2>3. DOMAIN e = DOMAIN o /\ e = [i \in DOMAIN o |-> e[i]]
    OBVIOUS
  <2>4. IsList(e)
    <3> HIDE DEF e
    <3> QED BY <2>2, <2>3, MapIsList
  <2>5. ASSUME NEW i \in DOMAIN e
        PROVE  /\ e[i].node = o[i] /\ o[i] \in ToSet(g.targets[r.node])
               /\ e[i].chain = [f \in ChainNames |-> e[i].chain[f]]
               /\ e[i].chain.manifest = r.chain.manifest
               /\ e[i].chain.labels = Append(r.chain.labels, g.label[o[i]])
    <3>1. o[i] \in ToSet(o)
      BY <2>5 DEF ToSet
    <3>2. e[i].node = o[i] /\ e[i].chain = [r.chain EXCEPT !.labels = Append(@, g.label[o[i]])]
      OBVIOUS
    <3>3. r.chain = [f \in ChainNames |-> r.chain[f]]
      BY DEF IsRoute, ChainTo
    <3> HIDE DEF e
    <3> QED BY <2>2, <3>1, <3>2, <3>3 DEF ChainNames
  <2> HIDE DEF e
  <2>6. ASSUME NEW i \in DOMAIN e
        PROVE  /\ IsRoute(g, e[i]) /\ Len(e[i].chain.labels) = Len(r.chain.labels) + 1
               /\ \A p \in 1..Len(r.chain.labels) : e[i].chain.labels[p] = r.chain.labels[p]
    <3>1. o[i] \in DOMAIN g.label
      BY <2>2, <2>5 DEF IsGraph
    <3>2. /\ ChainTo(g, g.label[o[i]], e[i].chain)
          /\ Len(e[i].chain.labels) = Len(r.chain.labels) + 1
          /\ \A p \in 1..Len(r.chain.labels) : e[i].chain.labels[p] = r.chain.labels[p]
      <4> DEFINE c == e[i].chain
                 t == o[i]
      <4>1. /\ t \in ToSet(g.targets[r.node]) /\ IsChain(c)
            /\ c.manifest = r.chain.manifest /\ c.labels = Append(r.chain.labels, g.label[t])
        BY <2>5 DEF IsChain
      <4> HIDE DEF c, t
      <4>2. /\ ChainTo(g, g.label[t], c) /\ Len(c.labels) = Len(r.chain.labels) + 1
            /\ \A p \in 1..Len(r.chain.labels) : c.labels[p] = r.chain.labels[p]
        BY <4>1, ChainGoesOn
      <4> QED BY <4>2 DEF c, t
    <3> QED BY <2>5, <3>1, <3>2 DEF IsRoute
  <2>7. ASSUME NEW t \in ToSet(g.targets[r.node]), g.label[t] \notin ToSet(r.chain.labels)
        PROVE  \E i \in DOMAIN e : e[i].node = t
    <3>1. t \in ToSet(o)
      BY <2>2, <2>7
    <3>2. PICK i \in DOMAIN o : o[i] = t
      BY <3>1 DEF ToSet
    <3> QED BY <2>3, <2>5, <3>2
  <2> QED
    BY <2>1, <2>4, <2>6, <2>7
<1> QED
  BY <1>2, <1>3

(* No route is longer by more than one than those that are to be followed, *)
(* and where the followed ones lead to is routed.                          *)
Nearby(s, k) == \A i, j \in DOMAIN s.routes : i > k => Size(s, j) <= Size(s, i) + 1
Closed(g, s, k) ==
    \A j \in DOMAIN s.routes : j <= k /\ Size(s, j) < MaxParentDepth =>
        \A t \in ToSet(g.targets[s.routes[j].node]) : Routed(s, g.label[t], Size(s, j) + 1)

Followed(c, k, s) ==
    /\ IsSearch(c[1], s) /\ Backed(c[1], s) /\ Sorted(s)
    /\ Nearby(s, k) /\ Closed(c[1], s, k) /\ Extends(c[1], c[2], s)
FR == INSTANCE FoldTheorems WITH Op <- FollowRoute, Holds <- Followed

(* Within more packages, too.                                              *)
LEMMA RoutedFurther ==
  ASSUME NEW g, NEW s, IsSearch(g, s), NEW l, NEW d \in Nat, NEW e \in Nat, d <= e, Routed(s, l, d)
  PROVE  Routed(s, l, e)
<1>1. PICK q \in ToSet(s.routes) : s.graph.label[q.node] = l /\ Len(q.chain.labels) <= d
  BY DEF Routed
<1>2. Len(q.chain.labels) \in Nat
  BY ListFacts DEF IsSearch, IsRoute, ChainTo
<1>3. Len(q.chain.labels) <= e
  BY <1>1, <1>2
<1> QED
  BY <1>1, <1>3 DEF Routed

(* One route is followed.                                                  *)
LEMMA FollowStep ==
  ASSUME NEW g, IsGraph(g), NEW s0, IsSearch(g, s0), NEW c, c[1] = g, c[2] = s0,
         NEW k \in Nat \ {0}, NEW s, Followed(c, k - 1, s)
  PROVE  Followed(c, k, FollowRoute(s, k))
<1>1. /\ IsSearch(g, s) /\ Backed(g, s) /\ Sorted(s) /\ Nearby(s, k - 1) /\ Closed(g, s, k - 1)
      /\ Extends(g, s0, s) /\ s.graph = g
  BY DEF Followed, IsSearch
<1>2. DOMAIN s.routes = 1..Len(s.routes) /\ Len(s.routes) \in Nat
  BY <1>1, ListFacts DEF IsSearch
<1>3. CASE k > Len(s.routes)
  <2>1. FollowRoute(s, k) = s
    BY <1>3 DEF FollowRoute
  <2>2. \A j \in DOMAIN s.routes : j <= k - 1 /\ ~(j > k)
    BY <1>2, <1>3
  <2>3. Nearby(s, k) /\ Closed(g, s, k)
    BY <1>1, <2>2 DEF Nearby, Closed
  <2> QED BY <1>1, <2>1, <2>3 DEF Followed
<1>4. CASE ~(k > Len(s.routes))
  <2> DEFINE r == s.routes[k]
             e == Extended(g, r)
             z == Size(s, k)
             t == FoldLeft(EnqueueRoute, s, e)
  <2>1. FollowRoute(s, k) = t
    BY <1>1, <1>4 DEF FollowRoute
  <2>2. k \in DOMAIN s.routes
    BY <1>2, <1>4
  <2>3. /\ z \in Nat \ {0} /\ r \in ToSet(s.routes) /\ z = Len(r.chain.labels)
        /\ \A j \in DOMAIN s.routes : Size(s, j) \in Nat
    BY <1>1, <2>2, RouteSizes DEF Size
  <2>4. IsRoute(g, r)
    BY <1>1, <2>3 DEF IsSearch
  <2> HIDE DEF z, r
  <2>5. /\ IsList(e)
        /\ \A i \in DOMAIN e :
            /\ IsRoute(g, e[i]) /\ Len(e[i].chain.labels) = z + 1
            /\ \A p \in 1..z : e[i].chain.labels[p] = r.chain.labels[p]
        /\ z < MaxParentDepth =>
             \A w \in ToSet(g.targets[r.node]) :
                \/ g.label[w] \in ToSet(r.chain.labels)
                \/ \E i \in DOMAIN e : e[i].node = w
    <3>1. /\ IsList(Extended(g, r))
          /\ \A i \in DOMAIN Extended(g, r) :
                /\ IsRoute(g, Extended(g, r)[i])
                /\ Len(Extended(g, r)[i].chain.labels) = z + 1
                /\ \A p \in 1..z : Extended(g, r)[i].chain.labels[p] = r.chain.labels[p]
      BY <2>3, <2>4, ExtendedAre
    <3>2. z < MaxParentDepth =>
             \A w \in ToSet(g.targets[r.node]) :
                \/ g.label[w] \in ToSet(r.chain.labels)
                \/ \E i \in DOMAIN Extended(g, r) : Extended(g, r)[i].node = w
      BY <2>3, <2>4, ExtendedAre
    <3> QED BY <3>1, <3>2
  <2>6. \A p \in 1..z : Routed(s, r.chain.labels[p], p)
    BY <1>1, <2>3 DEF Backed
  <2> HIDE DEF e
  <2>7. \A i \in DOMAIN e : /\ IsRoute(g, e[i]) /\ Len(e[i].chain.labels) = z + 1
                            /\ \A p \in 1..((z + 1) - 1) : Routed(s, e[i].chain.labels[p], p)
    <3> TAKE i \in DOMAIN e
    <3>1. (z + 1) - 1 = z
      BY <2>3
    <3>2. \A p \in 1..z : e[i].chain.labels[p] = r.chain.labels[p]
      BY <2>5
    <3>3. \A p \in 1..z : Routed(s, e[i].chain.labels[p], p)
      BY <2>6, <3>2
    <3> QED BY <2>5, <3>1, <3>3
  <2>8. Bounded(s, z + 1)
    BY <1>1, <2>2 DEF Nearby, Bounded, z
  <2>9. Searching(g, s, z + 1) /\ z + 1 \in Nat
    BY <1>1, <2>3, <2>8 DEF Searching
  <2>10. /\ Searching(g, t, z + 1) /\ Extends(g, s, t)
         /\ \A i \in DOMAIN e : Routed(t, g.label[e[i].node], z + 1)
    BY <2>5, <2>7, <2>9, EnqueueAll
  <2> HIDE DEF t
  <2>11. IsSearch(g, t) /\ Backed(g, t) /\ Sorted(t) /\ Bounded(t, z + 1)
    BY <2>10 DEF Searching
  <2>12. /\ DOMAIN t.routes = 1..Len(t.routes) /\ Len(t.routes) \in Nat
         /\ Len(s.routes) <= Len(t.routes)
         /\ \A j \in DOMAIN s.routes : j \in DOMAIN t.routes /\ t.routes[j] = s.routes[j]
    <3>1. DOMAIN t.routes = 1..Len(t.routes) /\ Len(t.routes) \in Nat
      BY <2>11, ListFacts DEF IsSearch
    <3> QED BY <1>2, <2>10, <3>1 DEF Extends
  <2>13. \A j \in DOMAIN t.routes : Size(t, j) \in Nat
    BY <2>11, RouteSizes
  <2>14. Size(t, k) = z /\ k \in DOMAIN t.routes /\ t.routes[k] = r
    BY <2>2, <2>12 DEF Size, z, r
  <2>15. Nearby(t, k)
    <3> SUFFICES ASSUME NEW i \in DOMAIN t.routes, NEW j \in DOMAIN t.routes, i > k
                 PROVE  Size(t, j) <= Size(t, i) + 1
      BY DEF Nearby
    <3>1. Size(t, k) <= Size(t, i)
      BY <2>11, <2>12, <2>14 DEF Sorted
    <3>2. Size(t, j) <= z + 1
      BY <2>11 DEF Bounded
    <3> QED BY <2>3, <2>13, <2>14, <3>1, <3>2
  <2>16. Closed(g, t, k)
    <3> SUFFICES ASSUME NEW j \in DOMAIN t.routes, j <= k, Size(t, j) < MaxParentDepth,
                        NEW w \in ToSet(g.targets[t.routes[j].node])
                 PROVE  Routed(t, g.label[w], Size(t, j) + 1)
      BY DEF Closed
    <3>1. CASE j = k
      <4>1. z < MaxParentDepth /\ w \in ToSet(g.targets[r.node])
        BY <2>14, <3>1
      <4>2. CASE \E i \in DOMAIN e : e[i].node = w
        BY <2>10, <2>14, <3>1, <4>2
      <4>3. CASE g.label[w] \in ToSet(r.chain.labels)
        <5>1. DOMAIN r.chain.labels = 1..z
          BY <2>3, <2>4, ListFacts DEF IsRoute, ChainTo
        <5>2. PICK p \in 1..z : r.chain.labels[p] = g.label[w]
          BY <4>3, <5>1 DEF ToSet
        <5>3. Routed(t, g.label[w], p)
          BY <1>1, <2>6, <2>10, <2>11, <5>2, RoutedStays
        <5>4. p \in Nat /\ p <= z + 1
          BY <2>3
        <5>5. Routed(t, g.label[w], z + 1)
          BY <2>9, <2>11, <5>3, <5>4, RoutedFurther
        <5> QED BY <2>14, <3>1, <5>5
      <4> QED BY <2>5, <4>1, <4>2, <4>3
    <3>2. CASE j # k
      <4>1. j \in DOMAIN s.routes /\ j <= k - 1
        BY <1>2, <2>2, <2>12, <3>2
      <4>2. t.routes[j] = s.routes[j] /\ Size(t, j) = Size(s, j)
        BY <2>12, <4>1 DEF Size
      <4>3. Routed(s, g.label[w], Size(s, j) + 1)
        BY <1>1, <4>1, <4>2 DEF Closed
      <4>4. Routed(t, g.label[w], Size(s, j) + 1)
        BY <1>1, <2>10, <2>11, <4>3, RoutedStays
      <4> QED BY <4>2, <4>4
    <3> QED BY <3>1, <3>2
  <2>17. Extends(g, s0, t)
    BY <1>1, <2>10, <2>11, ExtendsFurther
  <2>18. Followed(c, k, t)
    BY <2>11, <2>15, <2>16, <2>17 DEF Followed
  <2> QED BY <2>1, <2>18
<1> QED
  BY <1>3, <1>4

(* A search begins with the seeds, whose chains are of one package.        *)
LEMMA SearchBegins ==
  ASSUME NEW g, IsGraph(g), NEW s, s = FoldLeft(EnqueueRoute, SearchStart(g), g.seeds)
  PROVE  /\ Searching(g, s, 1)
         /\ \A q \in ToSet(g.seeds) : Routed(s, g.label[q.node], 1)
<1> DEFINE b == SearchStart(g)
<1>1. /\ b = [f \in SearchNames |-> b[f]] /\ b.graph = g /\ b.routes = <<>>
      /\ b.chains = [l \in LabelsOf(g) |-> b.chains[l]]
      /\ \A l \in LabelsOf(g) : b.chains[l] = <<>>
  BY DEF SearchStart, SearchNames, LabelsOf
<1>2. IsList(<<>>) /\ ToSet(<<>>) = {} /\ DOMAIN <<>> = {}
  BY FewIsList DEF ToSet
<1> HIDE DEF b
<1>3. IsSearch(g, b)
  BY <1>1, <1>2 DEF IsSearch
<1>4. Searching(g, b, 1)
  BY <1>1, <1>2, <1>3 DEF Searching, Backed, Sorted, Bounded
<1>5. ASSUME NEW i \in DOMAIN g.seeds
      PROVE  /\ IsRoute(g, g.seeds[i]) /\ Len(g.seeds[i].chain.labels) = 1
             /\ \A p \in 1..(1 - 1) : Routed(b, g.seeds[i].chain.labels[p], p)
  <2> DEFINE q == g.seeds[i]
  <2>1. q \in ToSet(g.seeds)
    BY DEF ToSet
  <2> HIDE DEF q
  <2>2. /\ q.node \in DOMAIN g.label /\ q.chain = [f \in ChainNames |-> q.chain[f]]
        /\ q.chain.labels = <<g.label[q.node]>>
    BY <2>1 DEF IsGraph
  <2> DEFINE u == q.chain.labels
             x == g.label[q.node]
  <2>3. IsList(u) /\ Len(u) = 1 /\ u # <<>> /\ Last(u) = x /\ Head(u) = x
    <3>1. IsList(<<x>>)
      BY FewIsList
    <3>2. u = <<x>>
      BY <2>2
    <3> HIDE DEF u, x
    <3> QED BY <3>1, <3>2 DEF Last
  <2> HIDE DEF u, x
  <2>4. \A p \in 1..(1 - 1) : FALSE
    OBVIOUS
  <2>5. \A p \in 1..(Len(u) - 1) : FALSE
    BY <2>3
  <2>6. IsParentChain(g, q.chain)
    BY <2>1, <2>3, <2>5 DEF IsParentChain, u, x
  <2>7. IsRoute(g, q)
    BY <2>2, <2>3, <2>6 DEF IsRoute, ChainTo, u, x
  <2> QED BY <2>3, <2>4, <2>7 DEF q, u
<1>6. IsList(g.seeds)
  BY DEF IsGraph
<1>7. /\ Searching(g, s, 1)
      /\ \A i \in DOMAIN g.seeds : Routed(s, g.label[g.seeds[i].node], 1)
  BY <1>4, <1>5, <1>6, EnqueueAll DEF b
<1> QED
  BY <1>7 DEF ToSet

(* The whole search.                                                       *)
LEMMA SearchIs ==
  ASSUME NEW g, IsGraph(g), NEW s0, s0 = FoldLeft(EnqueueRoute, SearchStart(g), g.seeds)
  PROVE  Followed(<<g, s0>>, MaxRoutes, SearchOf(g))
<1> DEFINE c == <<g, s0>>
           m == [i \in 1..MaxRoutes |-> i]
<1>1. c[1] = g /\ c[2] = s0
  OBVIOUS
<1>2. DOMAIN m = 1..MaxRoutes /\ MaxRoutes \in Nat /\ \A i \in 1..MaxRoutes : m[i] = i
  BY ParentLimits
<1>3. SearchOf(g) = FoldLeft(FollowRoute, s0, m)
  BY DEF SearchOf
<1> HIDE DEF c, m
<1>4. Searching(g, s0, 1) /\ IsSearch(g, s0)
  BY SearchBegins DEF Searching
<1>5. Followed(c, 0, s0)
  <2>1. Nearby(s0, 0) /\ Closed(g, s0, 0)
    <3>1. \A j \in DOMAIN s0.routes : Size(s0, j) \in Nat \ {0} /\ Size(s0, j) <= 1 /\ ~(j <= 0)
      <4>1. \A j \in DOMAIN s0.routes : Size(s0, j) \in Nat \ {0} /\ j \in 1..Len(s0.routes)
              /\ Len(s0.routes) \in Nat
        BY <1>4, RouteSizes
      <4> QED BY <1>4, <4>1 DEF Searching, Bounded
    <3> QED BY <3>1 DEF Nearby, Closed
  <2> QED BY <1>1, <1>4, <2>1, ExtendsItself DEF Followed, Searching
<1>6. ASSUME NEW k \in 1..MaxRoutes, NEW a, Followed(c, k - 1, a)
      PROVE  Followed(c, k, FollowRoute(a, m[k]))
  BY <1>1, <1>2, <1>4, <1>6, FollowStep
<1>7. Followed(c, MaxRoutes, FR!FoldLeft(FollowRoute, s0, m))
  BY <1>2, <1>5, <1>6, FR!FoldHolds
<1>8. FR!FoldLeft(FollowRoute, s0, m) = FoldLeft(FollowRoute, s0, m)
  BY DEF FR!FoldLeft, FoldLeft, FR!MapThenFoldSet, MapThenFoldSet, FR!Max, Max
<1> QED
  BY <1>3, <1>7, <1>8 DEF c

(* A label is direct exactly if a seed has it.                             *)
Seeded(g, l) == \E q \in ToSet(g.seeds) : g.label[q.node] = l
HasShort(chains) == \E c \in ToSet(chains) : Len(c.labels) = 1

(* What the whole search leaves: chains that are true, a chain of one      *)
(* package for each label of a seed and for no other, and everything       *)
(* routed that what was followed leads to.                                 *)
LEMMA SearchFacts ==
  ASSUME NEW g, IsGraph(g)
  PROVE  /\ IsSearch(g, SearchOf(g))
         /\ \A l \in LabelsOf(g) : SearchOf(g).chains[l] # <<>> =>
                (HasShort(SearchOf(g).chains[l]) <=> Seeded(g, l))
         /\ Closed(g, SearchOf(g), MaxRoutes)
         /\ \A q \in ToSet(g.seeds) : Routed(SearchOf(g), g.label[q.node], 1)
<1> DEFINE s0 == FoldLeft(EnqueueRoute, SearchStart(g), g.seeds)
           c == <<g, s0>>
           s == SearchOf(g)
<1>1. Followed(c, MaxRoutes, s)
  BY SearchIs
<1>2. /\ Searching(g, s0, 1)
      /\ \A q \in ToSet(g.seeds) : Routed(s0, g.label[q.node], 1)
  BY SearchBegins
<1>3. c[1] = g /\ c[2] = s0
  OBVIOUS
<1> HIDE DEF c, s0, s
<1>4. /\ IsSearch(g, s) /\ Closed(g, s, MaxRoutes) /\ Extends(g, s0, s)
      /\ IsSearch(g, s0) /\ Backed(g, s0) /\ Bounded(s0, 1)
  BY <1>1, <1>2, <1>3 DEF Followed, Searching
<1>5. \A q \in ToSet(g.seeds) : Routed(s, g.label[q.node], 1)
  BY <1>2, <1>4, RoutedStays
<1>6. ASSUME NEW l \in LabelsOf(g), s.chains[l] # <<>>, HasShort(s.chains[l])
      PROVE  Seeded(g, l)
  <2>1. PICK d \in ToSet(s.chains[l]) : Len(d.labels) = 1
    BY <1>6 DEF HasShort
  <2>2. ChainTo(g, l, d)
    BY <1>4 DEF IsSearch
  <2>3. IsList(d.labels) /\ Last(d.labels) = l /\ IsParentChain(g, d)
    BY <2>2 DEF ChainTo
  <2>4. Last(d.labels) = d.labels[1] /\ Head(d.labels) = d.labels[1]
    BY <2>1 DEF Last, Head
  <2> QED BY <2>3, <2>4 DEF IsParentChain, Seeded
<1>7. ASSUME NEW l \in LabelsOf(g), Seeded(g, l) PROVE HasShort(s.chains[l])
  <2>1. PICK q \in ToSet(g.seeds) : g.label[q.node] = l
    BY <1>7 DEF Seeded
  <2>2. PICK r \in ToSet(s0.routes) : g.label[r.node] = l
    BY <1>2, <1>4, <2>1 DEF Routed, IsSearch
  <2>3. s0.chains[l] # <<>> /\ IsList(s0.chains[l])
    BY <1>4, <2>2 DEF IsSearch
  <2>4. s0.chains[l][1] \in ToSet(s0.chains[l])
    <3>1. 1 \in DOMAIN s0.chains[l]
      BY <2>3, ListFacts
    <3> QED BY <3>1 DEF ToSet
  <2> DEFINE d == s0.chains[l][1]
  <2>5. PICK w \in ToSet(s0.routes) : w.chain = d
    BY <1>4, <2>4 DEF Backed
  <2>6. PICK j \in DOMAIN s0.routes : w = s0.routes[j]
    BY DEF ToSet
  <2> HIDE DEF d
  <2>7. Len(d.labels) = 1
    <3>1. Size(s0, j) = Len(d.labels)
      BY <2>5, <2>6 DEF Size
    <3>2. Size(s0, j) \in Nat \ {0} /\ Size(s0, j) <= 1
      BY <1>4, RouteSizes DEF Bounded
    <3>3. \A z \in Nat \ {0} : z <= 1 => z = 1
      OBVIOUS
    <3>4. Size(s0, j) = 1
      BY <3>2, <3>3
    <3> QED BY <3>1, <3>4
  <2>8. s.chains[l] # <<>> /\ s.chains[l][1] = d /\ IsList(s.chains[l])
    BY <1>4, <2>3 DEF Extends, IsSearch, d
  <2>9. d \in ToSet(s.chains[l])
    <3>1. 1 \in DOMAIN s.chains[l]
      BY <2>8, ListFacts
    <3> QED BY <2>8, <3>1 DEF ToSet
  <2> QED BY <2>7, <2>9 DEF HasShort
<1>8. \A l \in LabelsOf(g) : s.chains[l] # <<>> => (HasShort(s.chains[l]) <=> Seeded(g, l))
  BY <1>6, <1>7
<1> QED
  BY <1>4, <1>5, <1>8 DEF s

(* What is reached in so many steps is routed within one package more.     *)
Far(c, k, a) ==
    /\ a = [f \in {"graph", "nodes"} |-> a[f]] /\ a.graph = c
    /\ \A n \in a.nodes : n \in DOMAIN c.label /\ Routed(SearchOf(c), c.label[n], k + 1)
OF == INSTANCE FoldTheorems WITH Op <- OneFurther, Holds <- Far

Twice(g) == \E m, n \in DOMAIN g.label : m # n /\ g.label[m] = g.label[n]

(* When every route was followed and no label stands for two nodes,        *)
(* whatever a manifest reaches within the depth of a search has a chain.   *)
LEMMA ReachedIsRouted ==
  ASSUME NEW g, IsGraph(g), ~Twice(g), ~(Len(SearchOf(g).routes) > MaxRoutes)
  PROVE  \A n \in ReachedIn(g, MaxParentDepth) :
            g.label[n] \in LabelsOf(g) /\ SearchOf(g).chains[g.label[n]] # <<>>
<1> DEFINE s == SearchOf(g)
           N == MaxParentDepth - 1
           m == [d \in 1..N |-> d]
           b == [graph |-> g, nodes |-> {q.node : q \in ToSet(g.seeds)}]
<1>1. N \in Nat /\ DOMAIN m = 1..N
  BY ParentLimits
<1>2. /\ b = [f \in {"graph", "nodes"} |-> b[f]] /\ b.graph = g
      /\ b.nodes = {q.node : q \in ToSet(g.seeds)}
  OBVIOUS
<1>3. ReachedIn(g, MaxParentDepth) = FoldLeft(OneFurther, b, m).nodes
  BY DEF ReachedIn
<1> HIDE DEF b, m
<1>4. /\ IsSearch(g, s) /\ Closed(g, s, MaxRoutes)
      /\ \A q \in ToSet(g.seeds) : Routed(s, g.label[q.node], 1)
  BY SearchFacts
<1> HIDE DEF s
<1>5. Far(g, 0, b)
  <2>1. ASSUME NEW n \in b.nodes PROVE n \in DOMAIN g.label /\ Routed(s, g.label[n], 0 + 1)
    <3>1. PICK q \in ToSet(g.seeds) : n = q.node
      BY <1>2
    <3>2. q.node \in DOMAIN g.label
      BY DEF IsGraph
    <3> QED BY <1>4, <3>1, <3>2
  <2> QED BY <1>2, <2>1 DEF Far, s
<1>6. DOMAIN s.routes = 1..Len(s.routes) /\ Len(s.routes) \in Nat /\ Len(s.routes) <= MaxRoutes
  BY <1>4, ListFacts, ParentLimits DEF IsSearch, s
<1>7. ASSUME NEW k \in 1..N, NEW a, Far(g, k - 1, a) PROVE Far(g, k, OneFurther(a, m[k]))
  <2> DEFINE more == a.nodes \cup UNION {ToSet(a.graph.targets[n]) : n \in a.nodes}
             o == OneFurther(a, m[k])
  <2>1. /\ a = [f \in {"graph", "nodes"} |-> a[f]] /\ a.graph = g
        /\ \A n \in a.nodes : n \in DOMAIN g.label /\ Routed(s, g.label[n], (k - 1) + 1)
    BY <1>7 DEF Far, s
  <2>2. /\ o = [f \in {"graph", "nodes"} |-> o[f]] /\ o.graph = g /\ o.nodes = more
    <3> HIDE DEF more, o
    <3>1. o = [a EXCEPT !.nodes = more]
      BY DEF OneFurther, more, o
    <3> QED BY <2>1, <3>1
  <2> HIDE DEF o
  <2>3. (k - 1) + 1 = k /\ k \in Nat /\ k + 1 \in Nat /\ k <= k + 1 /\ k < MaxParentDepth
    BY <1>1, ParentLimits
  <2>4. ASSUME NEW n \in more PROVE n \in DOMAIN g.label /\ Routed(s, g.label[n], k + 1)
    <3>1. CASE n \in a.nodes
      BY <1>4, <2>1, <2>3, <3>1, RoutedFurther
    <3>2. CASE n \notin a.nodes
      <4>1. PICK p \in a.nodes : n \in ToSet(g.targets[p])
        BY <2>1, <3>2
      <4>2. p \in DOMAIN g.label /\ n \in DOMAIN g.label
        BY <2>1, <4>1 DEF IsGraph
      <4>3. PICK q \in ToSet(s.routes) : g.label[q.node] = g.label[p] /\ Len(q.chain.labels) <= k
        BY <1>4, <2>1, <2>3 DEF Routed, IsSearch
      <4>4. q.node = p
        BY <1>4, <4>2, <4>3 DEF Twice, IsSearch, IsRoute
      <4>5. PICK j \in DOMAIN s.routes : q = s.routes[j]
        BY DEF ToSet
      <4>6. Size(s, j) \in Nat /\ Size(s, j) <= k
        BY <1>4, <4>3, <4>5, RouteSizes DEF Size
      <4>7. Routed(s, g.label[n], Size(s, j) + 1)
        <5>1. j <= MaxRoutes /\ Size(s, j) < MaxParentDepth
          BY <1>6, <2>3, <4>6, ParentLimits
        <5>2. s.routes[j].node = p
          BY <4>4, <4>5
        <5> QED BY <1>4, <4>1, <5>1, <5>2 DEF Closed
      <4>8. Size(s, j) + 1 \in Nat /\ Size(s, j) + 1 <= k + 1
        BY <2>3, <4>6
      <4> QED BY <1>4, <2>3, <4>2, <4>7, <4>8, RoutedFurther
    <3> QED BY <3>1, <3>2
  <2> HIDE DEF more
  <2>5. Far(g, k, o)
    BY <2>2, <2>4 DEF Far, s
  <2> QED BY <2>5 DEF o
<1>8. Far(g, N, OF!FoldLeft(OneFurther, b, m))
  BY <1>1, <1>5, <1>7, OF!FoldHolds
<1>9. OF!FoldLeft(OneFurther, b, m) = FoldLeft(OneFurther, b, m)
  BY DEF OF!FoldLeft, FoldLeft, OF!MapThenFoldSet, MapThenFoldSet, OF!Max, Max
<1>10. \A n \in ReachedIn(g, MaxParentDepth) : n \in DOMAIN g.label /\ Routed(s, g.label[n], N + 1)
  BY <1>3, <1>8, <1>9 DEF Far, s
<1>11. ASSUME NEW n \in ReachedIn(g, MaxParentDepth)
       PROVE  g.label[n] \in LabelsOf(g) /\ s.chains[g.label[n]] # <<>>
  <2>1. PICK q \in ToSet(s.routes) : g.label[q.node] = g.label[n]
    BY <1>4, <1>10 DEF Routed, IsSearch
  <2> QED BY <1>4, <1>10, <2>1 DEF IsSearch, LabelsOf
<1> QED
  BY <1>11 DEF s

(* What there is in a project and its lockfiles.                           *)
LEMMA LockFacts ==
  ASSUME NEW p \in Inventoried
  PROVE  /\ IsList(p.manifests) /\ IsList(p.lockfiles)
         /\ \A m \in ToSet(p.manifests) : IsList(m.entries)
         /\ \A l \in ToSet(p.lockfiles) :
                /\ l.malformed \in BOOLEAN /\ l.file # "none"
                /\ l.kind \in {"npm", "pnpm", "yarn", "tree"}
                /\ IsList(l.packages) /\ IsList(l.importers)
                /\ l.kind # "tree" => \A d \in ToSet(l.packages) : IsList(d.requires)
                /\ \A i \in ToSet(l.importers) : IsList(i.requires)
<1>1. AreLists(<<p.manifests, p.lockfiles>>)
  BY InventoriedInLists
<1>2. \A a, b : AreLists(<<a, b>>) => IsList(a) /\ IsList(b)
  <2> TAKE a, b
  <2> HAVE AreLists(<<a, b>>)
  <2>1. DOMAIN <<a, b>> = {1, 2} /\ <<a, b>>[1] = a /\ <<a, b>>[2] = b
    OBVIOUS
  <2> QED BY <2>1 DEF AreLists
<1> QED
  BY <1>1, <1>2, InventoriedInLists

(* Those that were found.                                                  *)
LEMMA WithoutGapsIs ==
  ASSUME NEW s, IsList(s), NEW D, \A i \in DOMAIN s : s[i] \in D \cup {0}
  PROVE  IsList(WithoutGaps(s)) /\ ToSet(WithoutGaps(s)) \subseteq D
<1> DEFINE f == [i \in DOMAIN s |-> IF s[i] # 0 THEN <<s[i]>> ELSE <<>>]
<1>1. WithoutGaps(s) = Joined(f)
  BY DEF WithoutGaps, Passing
<1>2. /\ DOMAIN f = DOMAIN s /\ f = [i \in DOMAIN s |-> f[i]]
      /\ \A i \in DOMAIN s : f[i] \in {<<>>, <<s[i]>>} /\ (f[i] # <<>> => s[i] # 0)
  OBVIOUS
<1> HIDE DEF f
<1>3. IsList(f) /\ \A i \in DOMAIN f : IsList(f[i])
  BY <1>2, MapIsList, FewIsList
<1>4. IsList(Joined(f))
  BY <1>3, JoinedIsList
<1>5. ToSet(Joined(f)) = {s[i] : i \in {j \in DOMAIN s : f[j] # <<>>}}
  BY <1>2, PassedIsKept
<1>6. {s[i] : i \in {j \in DOMAIN s : f[j] # <<>>}} \subseteq D
  BY <1>2
<1> QED
  BY <1>1, <1>4, <1>5, <1>6

(* The seeds of some nodes.                                                *)
SeedsAt(label, M) ==
    {[node |-> n, chain |-> [manifest |-> m, labels |-> <<label[n]>>]] : n \in DOMAIN label, m \in M}

(* A graph is one when its targets are its nodes and its seeds are at      *)
(* nodes.                                                                  *)
LEMMA GraphIs ==
  ASSUME NEW g, NEW M, IsList(g.seeds), ToSet(g.seeds) \subseteq SeedsAt(g.label, M),
         DOMAIN g.targets = DOMAIN g.label,
         \A n \in DOMAIN g.label :
            IsList(g.targets[n]) /\ ToSet(g.targets[n]) \subseteq DOMAIN g.label
  PROVE  IsGraph(g)
<1>1. ASSUME NEW s \in ToSet(g.seeds)
      PROVE  /\ s.node \in DOMAIN g.label /\ s.chain = [f \in ChainNames |-> s.chain[f]]
             /\ s.chain.labels = <<g.label[s.node]>>
  <2>1. PICK n \in DOMAIN g.label, m \in M :
            s = [node |-> n, chain |-> [manifest |-> m, labels |-> <<g.label[n]>>]]
    BY DEF SeedsAt
  <2>2. s.node = n /\ s.chain = [manifest |-> m, labels |-> <<g.label[n]>>]
    BY <2>1
  <2>3. s.chain = [f \in ChainNames |-> s.chain[f]] /\ s.chain.labels = <<g.label[n]>>
    BY <2>2 DEF ChainNames
  <2> QED BY <2>2, <2>3
<1> QED
  BY <1>1 DEF IsGraph

(* An importer's seeds are a list.                                         *)
LEMMA SeedListIs ==
  ASSUME NEW label, NEW M, NEW m \in M, NEW nodes, IsList(nodes), ToSet(nodes) \subseteq DOMAIN label,
         NEW s, DOMAIN s = DOMAIN nodes, s = [n \in DOMAIN nodes |-> s[n]],
         \A n \in DOMAIN nodes :
            s[n] = [node |-> nodes[n], chain |-> [manifest |-> m, labels |-> <<label[nodes[n]]>>]]
  PROVE  IsList(s) /\ ToSet(s) \subseteq SeedsAt(label, M)
<1>1. IsList(s)
  BY MapIsList
<1>2. ASSUME NEW n \in DOMAIN nodes PROVE s[n] \in SeedsAt(label, M)
  <2>1. nodes[n] \in DOMAIN label
    BY DEF ToSet
  <2> QED BY <2>1 DEF SeedsAt
<1> QED
  BY <1>1, <1>2 DEF ToSet

-----------------------------------------------------------------------------
(* What names lead to are packages of the lockfile.                        *)
LEMMA ResolvedNpmIs ==
  ASSUME NEW lock, IsList(lock.packages), NEW dir, NEW path, NEW names, IsList(names)
  PROVE  /\ IsList(ResolvedNpm(lock, dir, path, names))
         /\ ToSet(ResolvedNpm(lock, dir, path, names)) \subseteq DOMAIN lock.packages
<1> DEFINE D == DOMAIN lock.packages
           s == [i \in DOMAIN names |-> ResolveNpmPackagePath(lock, dir, path, names[i])]
<1>1. Len(lock.packages) \in Nat /\ D = 1..Len(lock.packages)
  BY ListFacts
<1>2. \A place : InstalledAt(lock, place) \in D \cup {0}
  <2> TAKE place
  <2> DEFINE S == {n \in D : lock.packages[n].dir = place.dir /\ lock.packages[n].path = place.path}
  <2>1. S \subseteq D
    OBVIOUS
  <2>2. InstalledAt(lock, place) = Earliest(S)
    BY DEF InstalledAt
  <2> HIDE DEF S, D
  <2>3. (S = {} => Earliest(S) = 0) /\ (S # {} => Earliest(S) \in S)
    BY <1>1, <2>1, Earliests
  <2> QED BY <2>1, <2>2, <2>3
<1>3. \A name : ResolveNpmPackagePath(lock, dir, path, name) \in D \cup {0}
  <2> HIDE DEF D
  <2> QED BY <1>2 DEF ResolveNpmPackagePath
<1>4. ResolvedNpm(lock, dir, path, names) = WithoutGaps(s)
  BY DEF ResolvedNpm
<1>5. /\ DOMAIN s = DOMAIN names /\ s = [i \in DOMAIN names |-> s[i]]
      /\ \A i \in DOMAIN s : s[i] \in D \cup {0}
  BY <1>3
<1> HIDE DEF s, D
<1>6. IsList(s)
  BY <1>5, MapIsList
<1> QED
  BY <1>4, <1>5, <1>6, WithoutGapsIs DEF D

(* npm's graph is one, and its labels are those of the packages.           *)
LEMMA NpmGraphIs ==
  ASSUME NEW lock, IsList(lock.packages), IsList(lock.importers),
         \A d \in ToSet(lock.packages) : IsList(d.requires),
         \A i \in ToSet(lock.importers) : IsList(i.requires)
  PROVE  /\ IsGraph(NpmGraph(lock))
         /\ \A p \in ToSet(lock.packages) : NpmLabel(p) \in LabelsOf(NpmGraph(lock))
<1> DEFINE D == DOMAIN lock.packages
           g == NpmGraph(lock)
           label == [n \in D |-> NpmLabel(lock.packages[n])]
           T(p) == ResolvedNpm(lock, p.dir, p.path, p.requires)
           nodes(i) == ResolvedNpm(lock, i.dir, <<>>, i.requires)
           seeds(i) == [n \in DOMAIN nodes(i) |->
                          [node |-> nodes(i)[n],
                           chain |-> [manifest |-> i.manifest, labels |-> <<label[nodes(i)[n]]>>]]]
           parts == [i \in DOMAIN lock.importers |-> seeds(lock.importers[i])]
           M == {i.manifest : i \in ToSet(lock.importers)}
<1>1. /\ g.label = label
      /\ g.targets = [n \in D |-> T(lock.packages[n])]
      /\ g.seeds = Joined(parts)
  BY DEF NpmGraph, Seed
<1>2. DOMAIN label = D /\ \A n \in D : label[n] = NpmLabel(lock.packages[n])
  OBVIOUS
<1> HIDE DEF g, label
<1>3. ASSUME NEW n \in D PROVE IsList(g.targets[n]) /\ ToSet(g.targets[n]) \subseteq D
  <2>1. lock.packages[n] \in ToSet(lock.packages)
    BY DEF ToSet
  <2>2. g.targets[n] = T(lock.packages[n])
    BY <1>1
  <2> QED BY <2>1, <2>2, ResolvedNpmIs
<1>4. ASSUME NEW i \in ToSet(lock.importers)
      PROVE  IsList(seeds(i)) /\ ToSet(seeds(i)) \subseteq SeedsAt(label, M)
  <2>1. IsList(nodes(i)) /\ ToSet(nodes(i)) \subseteq DOMAIN label
    BY <1>2, ResolvedNpmIs
  <2>2. i.manifest \in M
    OBVIOUS
  <2>3. /\ DOMAIN seeds(i) = DOMAIN nodes(i) /\ seeds(i) = [n \in DOMAIN nodes(i) |-> seeds(i)[n]]
        /\ \A n \in DOMAIN nodes(i) :
             seeds(i)[n] = [node |-> nodes(i)[n],
                            chain |-> [manifest |-> i.manifest, labels |-> <<label[nodes(i)[n]]>>]]
    OBVIOUS
  <2> HIDE DEF nodes, seeds, M
  <2> QED BY <2>1, <2>2, <2>3, SeedListIs
<1>5. /\ DOMAIN parts = DOMAIN lock.importers /\ parts = [i \in DOMAIN lock.importers |-> parts[i]]
      /\ \A i \in DOMAIN parts : IsList(parts[i]) /\ ToSet(parts[i]) \subseteq SeedsAt(label, M)
  <2>1. \A i \in DOMAIN lock.importers : lock.importers[i] \in ToSet(lock.importers)
    BY DEF ToSet
  <2> HIDE DEF seeds, M
  <2> QED BY <1>4, <2>1
<1> HIDE DEF parts, M
<1>6. IsList(parts)
  BY <1>5, MapIsList
<1>7. IsList(Joined(parts)) /\ ToSet(Joined(parts)) \subseteq SeedsAt(label, M)
  BY <1>5, <1>6, JoinedIsList, JoinedInside
<1>8. DOMAIN g.targets = D
  BY <1>1
<1>9. IsGraph(g)
  BY <1>1, <1>2, <1>3, <1>7, <1>8, GraphIs
<1>10. \A p \in ToSet(lock.packages) : NpmLabel(p) \in LabelsOf(g)
  BY <1>1, <1>2 DEF LabelsOf, ToSet
<1> QED
  BY <1>9, <1>10 DEF g

(* The packages that have a label.                                         *)
LEMMA PackagesOfAre ==
  ASSUME NEW lock, IsList(lock.packages), NEW l
  PROVE  IsList(PackagesOf(lock, l)) /\ ToSet(PackagesOf(lock, l)) \subseteq ToSet(lock.packages)
<1> DEFINE s == lock.packages
           f == [i \in DOMAIN s |-> IF s[i].label = l THEN <<s[i]>> ELSE <<>>]
<1>1. PackagesOf(lock, l) = Joined(f)
  BY DEF PackagesOf, Passing
<1>2. /\ DOMAIN f = DOMAIN s /\ f = [i \in DOMAIN s |-> f[i]]
      /\ \A i \in DOMAIN s : f[i] \in {<<>>, <<s[i]>>}
  OBVIOUS
<1> HIDE DEF f
<1>3. IsList(f) /\ \A i \in DOMAIN f : IsList(f[i])
  BY <1>2, MapIsList, FewIsList
<1>4. IsList(Joined(f))
  BY <1>3, JoinedIsList
<1>5. ToSet(Joined(f)) = {s[i] : i \in {j \in DOMAIN s : f[j] # <<>>}}
  BY <1>2, PassedIsKept
<1> QED
  BY <1>1, <1>4, <1>5 DEF ToSet

(* So is pnpm's, whose nodes are its labels.                               *)
LEMMA PnpmGraphIs ==
  ASSUME NEW lock, IsList(lock.packages), IsList(lock.importers),
         \A d \in ToSet(lock.packages) : IsList(d.requires),
         \A i \in ToSet(lock.importers) : IsList(i.requires)
  PROVE  /\ IsGraph(PnpmGraph(lock))
         /\ \A p \in ToSet(lock.packages) : p.label \in LabelsOf(PnpmGraph(lock))
<1> DEFINE D == PnpmLabels(lock)
           g == PnpmGraph(lock)
           label == [l \in D |-> l]
           wants(l) == [v \in DOMAIN PackagesOf(lock, l) |-> PackagesOf(lock, l)[v].requires]
           seeds(i) == [n \in DOMAIN i.requires |->
                          [node |-> i.requires[n],
                           chain |-> [manifest |-> i.manifest, labels |-> <<label[i.requires[n]]>>]]]
           parts == [i \in DOMAIN lock.importers |-> seeds(lock.importers[i])]
           M == {i.manifest : i \in ToSet(lock.importers)}
<1>1. /\ g.label = label
      /\ g.targets = [l \in D |-> Joined(wants(l))]
      /\ g.seeds = Joined(parts)
  BY DEF PnpmGraph, Seed
<1>2. DOMAIN label = D /\ \A n \in D : label[n] = n
  OBVIOUS
<1>3. /\ \A p \in ToSet(lock.packages) : p.label \in D
      /\ \A r \in ToSet(lock.packages) \cup ToSet(lock.importers) : ToSet(r.requires) \subseteq D
  BY DEF PnpmLabels
<1> HIDE DEF g, label, D
<1>4. ASSUME NEW l \in D PROVE IsList(g.targets[l]) /\ ToSet(g.targets[l]) \subseteq D
  <2> DEFINE w == wants(l)
  <2>1. /\ IsList(PackagesOf(lock, l))
        /\ \A v \in DOMAIN PackagesOf(lock, l) : PackagesOf(lock, l)[v] \in ToSet(lock.packages)
    BY PackagesOfAre DEF ToSet
  <2>2. /\ w = [v \in DOMAIN PackagesOf(lock, l) |-> w[v]]
        /\ DOMAIN w = DOMAIN PackagesOf(lock, l)
        /\ \A v \in DOMAIN w : IsList(w[v]) /\ ToSet(w[v]) \subseteq D
    BY <1>3, <2>1
  <2>3. g.targets[l] = Joined(w)
    BY <1>1
  <2> HIDE DEF w
  <2>4. IsList(w)
    BY <2>1, <2>2, MapIsList
  <2> QED BY <2>2, <2>3, <2>4, JoinedIsList, JoinedInside
<1>5. ASSUME NEW i \in ToSet(lock.importers)
      PROVE  IsList(seeds(i)) /\ ToSet(seeds(i)) \subseteq SeedsAt(label, M)
  <2>1. IsList(i.requires) /\ ToSet(i.requires) \subseteq DOMAIN label
    BY <1>2, <1>3
  <2>2. i.manifest \in M
    OBVIOUS
  <2>3. /\ DOMAIN seeds(i) = DOMAIN i.requires /\ seeds(i) = [n \in DOMAIN i.requires |-> seeds(i)[n]]
        /\ \A n \in DOMAIN i.requires :
             seeds(i)[n] = [node |-> i.requires[n],
                            chain |-> [manifest |-> i.manifest, labels |-> <<label[i.requires[n]]>>]]
    OBVIOUS
  <2> HIDE DEF seeds, M
  <2> QED BY <2>1, <2>2, <2>3, SeedListIs
<1>6. /\ DOMAIN parts = DOMAIN lock.importers /\ parts = [i \in DOMAIN lock.importers |-> parts[i]]
      /\ \A i \in DOMAIN parts : IsList(parts[i]) /\ ToSet(parts[i]) \subseteq SeedsAt(label, M)
  <2>1. \A i \in DOMAIN lock.importers : lock.importers[i] \in ToSet(lock.importers)
    BY DEF ToSet
  <2> HIDE DEF seeds, M
  <2> QED BY <1>5, <2>1
<1> HIDE DEF parts, M
<1>7. IsList(parts)
  BY <1>6, MapIsList
<1>8. IsList(Joined(parts)) /\ ToSet(Joined(parts)) \subseteq SeedsAt(label, M)
  BY <1>6, <1>7, JoinedIsList, JoinedInside
<1>9. DOMAIN g.targets = D
  BY <1>1
<1>10. IsGraph(g)
  BY <1>1, <1>2, <1>4, <1>8, <1>9, GraphIs
<1>11. \A p \in ToSet(lock.packages) : p.label \in LabelsOf(g)
  <2>1. ASSUME NEW p \in ToSet(lock.packages) PROVE p.label \in LabelsOf(g)
    <3>1. p.label \in DOMAIN g.label /\ g.label[p.label] = p.label
      BY <1>1, <1>2, <1>3
    <3> QED BY <3>1 DEF LabelsOf
  <2> QED BY <2>1
<1> QED
  BY <1>10, <1>11 DEF g

-----------------------------------------------------------------------------
(* What the manifests declare is a list.                                   *)
LEMMA DeclarationsAre ==
  ASSUME NEW project, IsList(project.manifests),
         \A m \in ToSet(project.manifests) : IsList(m.entries), NEW name
  PROVE  IsList(DeclarationsOf(project, name))
<1> DEFINE s == project.manifests
           few(m) == [e \in DOMAIN m.entries |->
                        IF m.entries[e].name = name THEN <<m.entries[e]>> ELSE <<>>]
           own(m) == Joined(few(s[m]))
           part(m) == [e \in DOMAIN own(m) |->
                        [name |-> name, range |-> own(m)[e].range, scope |-> own(m)[e].scope,
                         manifest |-> s[m].path]]
           parts == [m \in DOMAIN s |-> part(m)]
<1>1. DeclarationsOf(project, name) = Joined(parts)
  BY DEF DeclarationsOf, Passing
<1>2. ASSUME NEW m \in DOMAIN s PROVE IsList(part(m))
  <2>1. IsList(s[m].entries)
    BY DEF ToSet
  <2> DEFINE f == few(s[m])
  <2>2. /\ f = [e \in DOMAIN s[m].entries |-> f[e]] /\ DOMAIN f = DOMAIN s[m].entries
        /\ \A e \in DOMAIN f : f[e] = <<>> \/ f[e] = <<s[m].entries[e]>>
    OBVIOUS
  <2>3. own(m) = Joined(f)
    OBVIOUS
  <2> HIDE DEF f, few, own
  <2>4. IsList(f) /\ \A e \in DOMAIN f : IsList(f[e])
    BY <2>1, <2>2, MapIsList, FewIsList
  <2>5. IsList(own(m))
    BY <2>3, <2>4, JoinedIsList
  <2>6. part(m) = [e \in DOMAIN own(m) |-> part(m)[e]]
    OBVIOUS
  <2> HIDE DEF part
  <2> QED BY <2>5, <2>6, MapIsList
<1>3. parts = [m \in DOMAIN s |-> parts[m]] /\ \A m \in DOMAIN parts : IsList(parts[m])
  <2> HIDE DEF part
  <2> QED BY <1>2
<1> HIDE DEF parts
<1>4. IsList(parts)
  BY <1>3, MapIsList
<1> QED
  BY <1>1, <1>3, <1>4, JoinedIsList

(* All of them, name by name.                                              *)
LEMMA AllDeclarationsAre ==
  ASSUME NEW project, IsList(project.manifests), \A m \in ToSet(project.manifests) : IsList(m.entries)
  PROVE  IsList(AllDeclarations(project))
<1> DEFINE s == project.manifests
           called(m) == [e \in DOMAIN s[m].entries |-> s[m].entries[e].name]
           lists == [m \in DOMAIN s |-> called(m)]
           names == Distinct(Joined(lists))
           parts == [n \in DOMAIN names |-> DeclarationsOf(project, names[n])]
<1>1. AllDeclarations(project) = Joined(parts)
  BY DEF AllDeclarations
<1>2. ASSUME NEW m \in DOMAIN s PROVE IsList(called(m))
  <2>1. IsList(s[m].entries)
    BY DEF ToSet
  <2>2. called(m) = [e \in DOMAIN s[m].entries |-> called(m)[e]]
    OBVIOUS
  <2> HIDE DEF called
  <2> QED BY <2>1, <2>2, MapIsList
<1>3. lists = [m \in DOMAIN s |-> lists[m]] /\ \A m \in DOMAIN lists : IsList(lists[m])
  <2> HIDE DEF called
  <2> QED BY <1>2
<1>4. IsList(names)
  <2> HIDE DEF lists
  <2>1. IsList(lists)
    BY <1>3, MapIsList
  <2> QED BY <1>3, <2>1, JoinedIsList, DistinctIsList
<1>5. parts = [n \in DOMAIN names |-> parts[n]] /\ \A n \in DOMAIN parts : IsList(parts[n])
  <2> HIDE DEF names
  <2> QED BY DeclarationsAre
<1> HIDE DEF names, parts
<1>6. IsList(parts)
  BY <1>4, <1>5, MapIsList
<1> QED
  BY <1>1, <1>5, <1>6, JoinedIsList

(* A selector leads to a package of the lockfile, or to none.              *)
LEMMA ProviderIs ==
  ASSUME NEW lock, IsList(lock.packages), NEW selector
  PROVE  Provider(lock, selector) \in DOMAIN lock.packages \cup {0}
<1> DEFINE D == DOMAIN lock.packages
           S == {n \in D : selector \in lock.packages[n].selectors}
<1>1. Len(lock.packages) \in Nat /\ D = 1..Len(lock.packages)
  BY ListFacts
<1>2. S \subseteq D /\ Provider(lock, selector) = Latest(S)
  BY DEF Provider
<1> HIDE DEF S, D
<1>3. (S = {} => Latest(S) = 0) /\ (S # {} => Latest(S) \in S)
  BY <1>1, <1>2, Latests
<1> QED BY <1>2, <1>3 DEF D

(* So what selectors lead to are packages.                                 *)
LEMMA ResolvedYarnIs ==
  ASSUME NEW lock, IsList(lock.packages), NEW selectors, IsList(selectors)
  PROVE  /\ IsList(ResolvedYarn(lock, selectors))
         /\ ToSet(ResolvedYarn(lock, selectors)) \subseteq DOMAIN lock.packages
<1> DEFINE s == [i \in DOMAIN selectors |-> Provider(lock, selectors[i])]
<1>1. ResolvedYarn(lock, selectors) = WithoutGaps(s)
  BY DEF ResolvedYarn
<1>2. /\ DOMAIN s = DOMAIN selectors /\ s = [i \in DOMAIN selectors |-> s[i]]
      /\ \A i \in DOMAIN s : s[i] \in DOMAIN lock.packages \cup {0}
  BY ProviderIs
<1> HIDE DEF s
<1>3. IsList(s)
  BY <1>2, MapIsList
<1> QED
  BY <1>1, <1>2, <1>3, WithoutGapsIs

(* And yarn's, whose seeds are what any manifest declares.                 *)
LEMMA YarnGraphIs ==
  ASSUME NEW lock, NEW project, IsList(lock.packages), \A d \in ToSet(lock.packages) : IsList(d.requires),
         IsList(project.manifests), \A m \in ToSet(project.manifests) : IsList(m.entries)
  PROVE  /\ IsGraph(YarnGraph(lock, project))
         /\ \A p \in ToSet(lock.packages) : p.label \in LabelsOf(YarnGraph(lock, project))
<1> DEFINE D == DOMAIN lock.packages
           g == YarnGraph(lock, project)
           label == [n \in D |-> lock.packages[n].label]
           all == AllDeclarations(project)
           At(d) == Provider(lock, <<d.name, d.range>>)
           f == [i \in DOMAIN all |-> IF At(all[i]) # 0 THEN <<all[i]>> ELSE <<>>]
           required == Joined(f)
           seeds == [i \in DOMAIN required |->
                       [node |-> At(required[i]),
                        chain |-> [manifest |-> required[i].manifest,
                                   labels |-> <<label[At(required[i])]>>]]]
           M == {required[i].manifest : i \in DOMAIN required}
<1>1. /\ g.label = label
      /\ g.targets = [n \in D |-> ResolvedYarn(lock, lock.packages[n].requires)]
      /\ g.seeds = seeds
  BY DEF YarnGraph, Seed, Passing
<1>2. DOMAIN label = D /\ \A n \in D : label[n] = lock.packages[n].label
  OBVIOUS
<1>3. IsList(all)
  BY AllDeclarationsAre
<1>4. \A d : At(d) \in D \cup {0}
  BY ProviderIs
<1>5. /\ DOMAIN f = DOMAIN all /\ f = [i \in DOMAIN all |-> f[i]]
      /\ \A i \in DOMAIN all : f[i] \in {<<>>, <<all[i]>>} /\ (f[i] # <<>> => At(all[i]) # 0)
  <2> HIDE DEF At, all
  <2> QED OBVIOUS
<1> HIDE DEF g, label, f, all, At
<1>6. IsList(required) /\ \A i \in DOMAIN required : At(required[i]) \in D
  <2>1. IsList(f) /\ \A i \in DOMAIN f : IsList(f[i])
    BY <1>3, <1>5, MapIsList, FewIsList
  <2>2. IsList(required)
    BY <2>1, JoinedIsList
  <2>3. ToSet(required) = {all[i] : i \in {j \in DOMAIN all : f[j] # <<>>}}
    BY <1>3, <1>5, PassedIsKept
  <2> HIDE DEF required
  <2>4. ASSUME NEW i \in DOMAIN required PROVE At(required[i]) \in D
    <3>1. required[i] \in ToSet(required)
      BY DEF ToSet
    <3>2. PICK j \in DOMAIN all : f[j] # <<>> /\ required[i] = all[j]
      BY <2>3, <3>1
    <3>3. At(required[i]) # 0 /\ At(required[i]) \in D \cup {0}
      BY <1>4, <1>5, <3>2
    <3> QED BY <3>3
  <2> QED BY <2>2, <2>4
<1> HIDE DEF required
<1>7. IsList(seeds) /\ ToSet(seeds) \subseteq SeedsAt(label, M)
  <2>1. IsList(seeds)
    <3>1. seeds = [i \in DOMAIN required |-> seeds[i]]
      OBVIOUS
    <3> HIDE DEF seeds
    <3> QED BY <1>6, <3>1, MapIsList
  <2>2. ASSUME NEW i \in DOMAIN required PROVE seeds[i] \in SeedsAt(label, M)
    <3>1. At(required[i]) \in DOMAIN label /\ required[i].manifest \in M
      BY <1>2, <1>6
    <3>2. seeds[i] = [node |-> At(required[i]),
                      chain |-> [manifest |-> required[i].manifest,
                                 labels |-> <<label[At(required[i])]>>]]
      OBVIOUS
    <3> HIDE DEF M, seeds
    <3> QED BY <3>1, <3>2 DEF SeedsAt
  <2>3. DOMAIN seeds = DOMAIN required
    OBVIOUS
  <2> HIDE DEF seeds
  <2> QED BY <2>1, <2>2, <2>3 DEF ToSet
<1>8. ASSUME NEW n \in D PROVE IsList(g.targets[n]) /\ ToSet(g.targets[n]) \subseteq D
  <2>1. IsList(lock.packages[n].requires)
    BY DEF ToSet
  <2>2. g.targets[n] = ResolvedYarn(lock, lock.packages[n].requires)
    BY <1>1
  <2> QED BY <2>1, <2>2, ResolvedYarnIs
<1>9. DOMAIN g.targets = D
  BY <1>1
<1>10. IsGraph(g)
  <2> HIDE DEF seeds, M
  <2> QED BY <1>1, <1>2, <1>7, <1>8, <1>9, GraphIs
<1>11. \A p \in ToSet(lock.packages) : p.label \in LabelsOf(g)
  BY <1>1, <1>2 DEF LabelsOf, ToSet
<1> QED
  BY <1>10, <1>11 DEF g

-----------------------------------------------------------------------------
(* Whatever its kind, a lockfile that is no tree has a graph, with the     *)
(* labels of its packages.                                                 *)
LEMMA GraphOfLock ==
  ASSUME NEW project \in Inventoried, NEW lock \in ToSet(project.lockfiles), lock.kind # "tree"
  PROVE  /\ IsGraph(Graph(lock, project))
         /\ \A p \in ToSet(lock.packages) : LabelOf(lock, p) \in LabelsOf(Graph(lock, project))
<1>1. /\ IsList(project.manifests) /\ \A m \in ToSet(project.manifests) : IsList(m.entries)
      /\ lock.kind \in {"npm", "pnpm", "yarn", "tree"}
      /\ IsList(lock.packages) /\ IsList(lock.importers)
      /\ \A d \in ToSet(lock.packages) : IsList(d.requires)
      /\ \A i \in ToSet(lock.importers) : IsList(i.requires)
  BY LockFacts
<1>2. CASE lock.kind = "npm"
  <2>1. Graph(lock, project) = NpmGraph(lock) /\ \A p : LabelOf(lock, p) = NpmLabel(p)
    BY <1>2 DEF Graph, LabelOf
  <2> QED BY <1>1, <2>1, NpmGraphIs
<1>3. CASE lock.kind = "pnpm"
  <2>1. Graph(lock, project) = PnpmGraph(lock) /\ \A p : LabelOf(lock, p) = p.label
    BY <1>3 DEF Graph, LabelOf
  <2> QED BY <1>1, <2>1, PnpmGraphIs
<1>4. CASE lock.kind = "yarn"
  <2>1. Graph(lock, project) = YarnGraph(lock, project) /\ \A p : LabelOf(lock, p) = p.label
    BY <1>4 DEF Graph, LabelOf
  <2> QED BY <1>1, <2>1, YarnGraphIs
<1> QED
  BY <1>1, <1>2, <1>3, <1>4

DistinctFrom(s, n, a) == IsList(a) /\ ToSet(a) = {s[i] : i \in 1..n}
DF == INSTANCE FoldTheorems WITH Op <- AddNew, Holds <- DistinctFrom

(* Nothing is lost where it is not repeated.                               *)
LEMMA DistinctElements ==
  ASSUME NEW s, IsList(s) PROVE IsList(Distinct(s)) /\ ToSet(Distinct(s)) = ToSet(s)
<1>1. Len(s) \in Nat /\ DOMAIN s = 1..Len(s) /\ ToSet(s) = {s[i] : i \in 1..Len(s)}
  BY ListFacts DEF ToSet
<1>2. DistinctFrom(s, 0, <<>>)
  <2>1. ToSet(<<>>) = {} /\ {s[i] : i \in 1..0} = {}
    BY DEF ToSet
  <2> QED BY <2>1, FewIsList DEF DistinctFrom
<1>3. ASSUME NEW k \in 1..Len(s), NEW a, DistinctFrom(s, k - 1, a)
      PROVE  DistinctFrom(s, k, AddNew(a, s[k]))
  <2>1. IsList(a) /\ ToSet(a) = {s[i] : i \in 1..(k - 1)}
    BY <1>3 DEF DistinctFrom
  <2>2. IsList(AddNew(a, s[k])) /\ ToSet(AddNew(a, s[k])) = ToSet(a) \cup {s[k]}
    BY <2>1, AddNewFacts
  <2>3. 1..k = 1..(k - 1) \cup {k}
    OBVIOUS
  <2>4. {s[i] : i \in 1..k} = {s[i] : i \in 1..(k - 1)} \cup {s[k]}
    BY <2>3
  <2> QED BY <2>1, <2>2, <2>4 DEF DistinctFrom
<1>4. DistinctFrom(s, Len(s), DF!FoldLeft(AddNew, <<>>, s))
  BY <1>1, <1>2, <1>3, DF!FoldHolds
<1>5. DF!FoldLeft(AddNew, <<>>, s) = Distinct(s)
  BY DEF Distinct, DF!FoldLeft, FoldLeft, DF!MapThenFoldSet, MapThenFoldSet, DF!Max, Max
<1> QED
  BY <1>1, <1>4, <1>5 DEF DistinctFrom

(* A cut list keeps elements of the list, one at least.                    *)
LEMMA CutElements ==
  ASSUME NEW s, IsList(s), NEW n \in Nat \ {0}
  PROVE  /\ IsList(UpTo(s, n)) /\ ToSet(UpTo(s, n)) \subseteq ToSet(s)
         /\ s # <<>> => UpTo(s, n) # <<>>
<1> DEFINE m == IF n < Len(s) THEN n ELSE Len(s)
<1>1. s \in Seq(ToSet(s)) /\ Len(s) \in Nat
  BY DEF IsList
<1>2. m \in 0..Len(s) /\ (s # <<>> => m # 0)
  BY <1>1
<1>3. UpTo(s, n) = SubSeq(s, 1, m)
  BY DEF UpTo
<1> HIDE DEF m
<1>4. SubSeq(s, 1, m) \in Seq(ToSet(s)) /\ Len(SubSeq(s, 1, m)) = m
  BY <1>1, <1>2
<1>5. IsList(UpTo(s, n)) /\ ToSet(UpTo(s, n)) \subseteq ToSet(s)
  BY <1>3, <1>4, ListOf
<1>6. s # <<>> => UpTo(s, n) # <<>>
  BY <1>2, <1>3, <1>4
<1> QED BY <1>5, <1>6

-----------------------------------------------------------------------------
RecordNames == {"label", "lockfile", "chains", "relationship", "manifest", "scope"}

(* The chains that the search of a lockfile keeps for a label.             *)
ChainsKept(project, l, label) == SearchOf(Graph(l, project)).chains[label]

(* What a record says of a package of a lockfile.                          *)
Honest(project, l, r) ==
    /\ r.lockfile = l.file
    /\ \E p \in ToSet(l.packages) : r.label = LabelOf(l, p)
    /\ l.kind # "tree" =>
        LET kept == ChainsKept(project, l, r.label)
        IN  /\ ToSet(r.chains) \subseteq ToSet(kept)
            /\ kept # <<>> => /\ r.chains # <<>>
                              /\ r.relationship = "direct" <=> HasShort(kept)

(* A record is one of a package, or of a declaration.                      *)
IsRecord(project, r) ==
    /\ r = [f \in RecordNames |-> r[f]] /\ IsList(r.chains)
    /\ \/ r.lockfile = "none"
       \/ \E l \in ToSet(project.lockfiles) : Honest(project, l, r)

AreRecords(project, records) == IsList(records) /\ \A r \in ToSet(records) : IsRecord(project, r)

(* There is a record of each package.                                      *)
Has(records, lockfile, label) ==
    \E r \in ToSet(records) : r.lockfile = lockfile /\ r.label = label

(* What a lockfile that is read gives.                                     *)
LEMMA RecordsAre ==
  ASSUME NEW project \in Inventoried, NEW l \in ToSet(project.lockfiles)
  PROVE  /\ AreRecords(project, RecordsOf(project, l))
         /\ \A p \in ToSet(l.packages) : Has(RecordsOf(project, l), l.file, LabelOf(l, p))
<1> DEFINE s == l.packages
           R == RecordsOf(project, l)
           C == ChainsOf(project, l)
<1>1. IsList(s) /\ l.kind \in {"npm", "pnpm", "yarn", "tree"} /\ Len(s) \in Nat /\ DOMAIN s = 1..Len(s)
  BY LockFacts, ListFacts
<1>2. /\ R = [n \in DOMAIN s |-> Dependency(project, l, LabelOf(l, s[n]), s[n].development, C[n])]
  BY DEF RecordsOf
<1>3. DOMAIN R = DOMAIN s /\ R = [n \in DOMAIN s |-> R[n]]
  BY <1>2
<1> HIDE DEF C, R
<1>4. ASSUME NEW n \in DOMAIN s
      PROVE  /\ R[n] = [f \in RecordNames |-> R[n][f]]
             /\ R[n].lockfile = l.file /\ R[n].label = LabelOf(l, s[n]) /\ R[n].chains = C[n]
             /\ C[n] # <<>> => (R[n].relationship = "direct" <=> HasShort(C[n]))
  <2> DEFINE r == Dependency(project, l, LabelOf(l, s[n]), s[n].development, C[n])
  <2>1. R[n] = r
    BY <1>2
  <2>2. /\ r = [f \in RecordNames |-> r[f]] /\ r.lockfile = l.file
        /\ r.label = LabelOf(l, s[n]) /\ r.chains = C[n]
    BY DEF Dependency, RecordNames
  <2>3. C[n] # <<>> => r.relationship = IF HasShort(C[n]) THEN "direct" ELSE "transitive"
    BY DEF Dependency, HasShort
  <2> HIDE DEF r
  <2> QED BY <2>1, <2>2, <2>3
<1>5. ASSUME NEW n \in DOMAIN s PROVE IsRecord(project, R[n])
  <2>1. s[n] \in ToSet(s)
    BY DEF ToSet
  <2>2. CASE l.kind = "tree"
    <3>1. C[n] = <<[manifest |-> "package.json", labels |-> s[n].path]>>
      BY <2>2 DEF C, ChainsOf
    <3>2. IsList(C[n])
      BY <3>1, FewIsList
    <3>3. Honest(project, l, R[n])
      BY <1>4, <2>1, <2>2 DEF Honest
    <3> QED BY <1>4, <3>2, <3>3 DEF IsRecord
  <2>3. CASE l.kind # "tree"
    <3> DEFINE g == Graph(l, project)
               kept == ChainsKept(project, l, LabelOf(l, s[n]))
    <3>1. IsGraph(g) /\ LabelOf(l, s[n]) \in LabelsOf(g)
      BY <2>1, <2>3, GraphOfLock
    <3>2. C[n] = kept
      BY <2>3 DEF C, ChainsOf, ParentChains, ChainsKept
    <3>3. IsList(kept)
      BY <3>1, SearchFacts DEF IsSearch, ChainsKept
    <3> HIDE DEF kept
    <3>4. Honest(project, l, R[n])
      <4>1. /\ R[n].chains = kept /\ R[n].label = LabelOf(l, s[n]) /\ R[n].lockfile = l.file
            /\ kept # <<>> => (R[n].relationship = "direct" <=> HasShort(kept))
        BY <1>4, <3>2
      <4>2. ChainsKept(project, l, R[n].label) = kept
        BY <4>1 DEF kept
      <4>3. \E p \in ToSet(l.packages) : R[n].label = LabelOf(l, p)
        BY <2>1, <4>1
      <4>4. /\ ToSet(R[n].chains) \subseteq ToSet(kept)
            /\ kept # <<>> => /\ R[n].chains # <<>>
                              /\ R[n].relationship = "direct" <=> HasShort(kept)
        BY <4>1
      <4> QED BY <4>1, <4>2, <4>3, <4>4 DEF Honest
    <3> QED BY <1>4, <3>2, <3>3, <3>4 DEF IsRecord
  <2> QED BY <2>2, <2>3
<1>6. IsList(R)
  BY <1>1, <1>3, MapIsList
<1>7. AreRecords(project, R)
  BY <1>3, <1>5, <1>6 DEF AreRecords, ToSet
<1>8. ASSUME NEW p \in ToSet(s) PROVE Has(R, l.file, LabelOf(l, p))
  <2>1. PICK n \in DOMAIN s : s[n] = p
    BY DEF ToSet
  <2>2. R[n] \in ToSet(R)
    BY <1>3 DEF ToSet
  <2> QED BY <1>4, <2>1, <2>2 DEF Has
<1> QED
  BY <1>7, <1>8 DEF R

(* Of two honest records of a package one honest record.                   *)
LEMMA MergedIsHonest ==
  ASSUME NEW project, NEW l, NEW r, NEW x, NEW y, Honest(project, l, r), Honest(project, l, x),
         r.label = x.label, IsList(r.chains), IsList(x.chains),
         y.lockfile = r.lockfile, y.label = r.label, y.relationship = r.relationship,
         y.chains = UpTo(Distinct(r.chains \o x.chains), MaxParentChains)
  PROVE  Honest(project, l, y) /\ IsList(y.chains)
<1> DEFINE both == r.chains \o x.chains
           kept == ChainsKept(project, l, r.label)
<1>1. IsList(both) /\ ToSet(both) = ToSet(r.chains) \cup ToSet(x.chains)
  BY ConcatIsList, ConcatElements
<1> HIDE DEF both, kept
<1>2. IsList(Distinct(both)) /\ ToSet(Distinct(both)) = ToSet(both)
  BY <1>1, DistinctElements
<1>3. MaxParentChains \in Nat \ {0} /\ y.chains = UpTo(Distinct(both), MaxParentChains)
  BY ParentLimits DEF both
<1>4. /\ IsList(y.chains) /\ ToSet(y.chains) \subseteq ToSet(Distinct(both))
      /\ Distinct(both) # <<>> => y.chains # <<>>
  BY <1>2, <1>3, CutElements
<1>5. r.chains # <<>> => y.chains # <<>>
  <2> HAVE r.chains # <<>>
  <2>1. 1 \in DOMAIN r.chains
    BY ListFacts
  <2>2. r.chains[1] \in ToSet(Distinct(both))
    BY <1>1, <1>2, <2>1 DEF ToSet
  <2>3. Distinct(both) # <<>>
    BY <2>2 DEF ToSet
  <2> QED BY <1>4, <2>3
<1>6. ASSUME l.kind # "tree"
      PROVE  /\ ToSet(y.chains) \subseteq ToSet(kept)
             /\ kept # <<>> => /\ y.chains # <<>>
                               /\ y.relationship = "direct" <=> HasShort(kept)
  <2>1. /\ ToSet(r.chains) \subseteq ToSet(kept) /\ ToSet(x.chains) \subseteq ToSet(kept)
        /\ kept # <<>> => /\ r.chains # <<>>
                          /\ r.relationship = "direct" <=> HasShort(kept)
    BY <1>6 DEF Honest, kept
  <2> QED BY <1>1, <1>2, <1>4, <1>5, <2>1
<1>7. \E p \in ToSet(l.packages) : y.label = LabelOf(l, p)
  BY DEF Honest
<1>8. y.lockfile = l.file
  BY DEF Honest
<1>9. ChainsKept(project, l, y.label) = kept
  BY DEF kept
<1> QED
  BY <1>4, <1>6, <1>7, <1>8, <1>9 DEF Honest

(* Files have names of their own.                                          *)
LEMMA FilesAreOwn ==
  ASSUME NEW project \in Inventoried, NEW l \in ToSet(project.lockfiles),
         NEW m \in ToSet(project.lockfiles), l.file = m.file
  PROVE  l = m
<1>1. PICK i \in DOMAIN project.lockfiles : project.lockfiles[i] = l
  BY DEF ToSet
<1>2. PICK j \in DOMAIN project.lockfiles : project.lockfiles[j] = m
  BY DEF ToSet
<1>3. i = j
  BY <1>1, <1>2, InventoriedInLists
<1> QED BY <1>1, <1>2, <1>3

(* One record more.                                                        *)
LEMMA MergeRecordIs ==
  ASSUME NEW project \in Inventoried, NEW a, AreRecords(project, a), NEW x, IsRecord(project, x),
         x.lockfile # "none"
  PROVE  /\ AreRecords(project, MergeRecord(a, x))
         /\ Has(MergeRecord(a, x), x.lockfile, x.label)
         /\ \A file, label : Has(a, file, label) => Has(MergeRecord(a, x), file, label)
<1> DEFINE S == {j \in DOMAIN a : a[j].lockfile = x.lockfile /\ a[j].label = x.label}
           i == Earliest(S)
           chains == UpTo(Distinct(a[i].chains \o x.chains), MaxParentChains)
           b == MergeRecord(a, x)
<1>1. IsList(a) /\ Len(a) \in Nat /\ DOMAIN a = 1..Len(a) /\ a = [j \in DOMAIN a |-> a[j]]
  BY ListFacts DEF AreRecords
<1>2. (S = {} => i = 0) /\ (S # {} => i \in S)
  <2>1. S \subseteq 1..Len(a)
    BY <1>1
  <2> HIDE DEF S
  <2> QED BY <1>1, <2>1, Earliests
<1>3. b = IF i = 0 THEN Append(a, x) ELSE [a EXCEPT ![i].chains = chains]
  BY DEF MergeRecord
<1> HIDE DEF b, i, chains
<1>4. CASE S = {}
  <2>1. b = Append(a, x)
    BY <1>2, <1>3, <1>4
  <2>2. /\ IsList(b) /\ DOMAIN b = 1..(Len(a) + 1) /\ b[Len(a) + 1] = x
        /\ \A j \in 1..Len(a) : b[j] = a[j]
    BY <1>1, <2>1, AppendFacts
  <2>3. ToSet(b) = ToSet(a) \cup {x}
    <3> HIDE DEF S
    <3> QED BY <1>1, <2>2 DEF ToSet
  <2>4. AreRecords(project, b)
    BY <2>2, <2>3 DEF AreRecords
  <2> HIDE DEF S
  <2> QED BY <2>3, <2>4 DEF Has, b
<1>5. CASE S # {}
  <2>1. /\ i \in DOMAIN a /\ i # 0 /\ a[i].lockfile = x.lockfile /\ a[i].label = x.label
    BY <1>1, <1>2, <1>5
  <2> HIDE DEF S
  <2>2. b = [a EXCEPT ![i].chains = chains]
    BY <1>3, <2>1
  <2>3. IsRecord(project, a[i])
    BY <2>1 DEF AreRecords, ToSet
  <2> DEFINE y == b[i]
  <2>4. /\ y = [f \in RecordNames |-> y[f]] /\ y.lockfile = a[i].lockfile /\ y.label = a[i].label
        /\ y.relationship = a[i].relationship /\ y.chains = chains
    <3>1. b[i] = [a[i] EXCEPT !.chains = chains]
      BY <1>1, <2>1, <2>2
    <3>2. a[i] = [f \in RecordNames |-> a[i][f]]
      BY <2>3 DEF IsRecord
    <3> QED BY <3>1, <3>2 DEF RecordNames
  <2>5. DOMAIN b = DOMAIN a /\ \A j \in DOMAIN a : j # i => b[j] = a[j]
    BY <1>1, <2>1, <2>2
  <2> HIDE DEF y
  <2>6. IsList(b)
    <3>1. b = [j \in DOMAIN a |-> b[j]]
      BY <1>1, <2>2
    <3> QED BY <1>1, <3>1, MapIsList
  <2>7. IsRecord(project, y)
    <3>1. PICK l \in ToSet(project.lockfiles) : Honest(project, l, a[i])
      BY <2>1, <2>3 DEF IsRecord
    <3>2. PICK m \in ToSet(project.lockfiles) : Honest(project, m, x)
      BY DEF IsRecord
    <3>3. l = m
      BY <2>1, <3>1, <3>2, FilesAreOwn DEF Honest
    <3>4. y.chains = UpTo(Distinct(a[i].chains \o x.chains), MaxParentChains)
      BY <2>4 DEF chains
    <3>5. IsList(a[i].chains) /\ IsList(x.chains)
      BY <2>3 DEF IsRecord
    <3>6. Honest(project, l, y) /\ IsList(y.chains)
      BY <2>1, <2>4, <3>1, <3>2, <3>3, <3>4, <3>5, MergedIsHonest
    <3> QED BY <2>4, <3>6 DEF IsRecord
  <2>8. ASSUME NEW j \in DOMAIN b PROVE IsRecord(project, b[j])
    <3>1. CASE j = i
      BY <2>7, <3>1 DEF y
    <3>2. CASE j # i
      BY <2>5, <3>2 DEF AreRecords, ToSet
    <3> QED BY <3>1, <3>2
  <2>9. AreRecords(project, b)
    BY <2>6, <2>8 DEF AreRecords, ToSet
  <2>10. ASSUME NEW file, NEW label, Has(a, file, label) PROVE Has(b, file, label)
    <3>1. PICK j \in DOMAIN a : a[j].lockfile = file /\ a[j].label = label
      BY <2>10 DEF Has, ToSet
    <3>2. b[j].lockfile = file /\ b[j].label = label
      <4>1. CASE j = i
        BY <2>4, <3>1, <4>1 DEF y
      <4>2. CASE j # i
        BY <2>5, <3>1, <4>2
      <4> QED BY <4>1, <4>2
    <3>3. b[j] \in ToSet(b)
      BY <2>5 DEF ToSet
    <3> QED BY <3>2, <3>3 DEF Has
  <2>11. Has(a, x.lockfile, x.label)
    BY <2>1 DEF Has, ToSet
  <2> QED BY <2>9, <2>10, <2>11 DEF b
<1> QED
  BY <1>4, <1>5

Merging(c, n, a) ==
    AreRecords(c[1], a) /\ \A i \in 1..n : Has(a, c[2][i].lockfile, c[2][i].label)
ME == INSTANCE FoldTheorems WITH Op <- MergeRecord, Holds <- Merging

(* All records of all lockfiles.                                           *)
LEMMA MergedAre ==
  ASSUME NEW project \in Inventoried, NEW s, AreRecords(project, s),
         \A x \in ToSet(s) : x.lockfile # "none"
  PROVE  /\ AreRecords(project, FoldLeft(MergeRecord, <<>>, s))
         /\ \A x \in ToSet(s) : Has(FoldLeft(MergeRecord, <<>>, s), x.lockfile, x.label)
<1> DEFINE c == <<project, s>>
<1>1. Len(s) \in Nat /\ DOMAIN s = 1..Len(s)
  BY ListFacts DEF AreRecords
<1>2. c[1] = project /\ c[2] = s
  OBVIOUS
<1> HIDE DEF c
<1>3. Merging(c, 0, <<>>)
  <2>1. \A i \in 1..0 : FALSE
    OBVIOUS
  <2>2. ToSet(<<>>) = {}
    BY DEF ToSet
  <2> QED BY <1>2, <2>1, <2>2, FewIsList DEF Merging, AreRecords
<1>4. ASSUME NEW k \in 1..Len(s), NEW a, Merging(c, k - 1, a)
      PROVE  Merging(c, k, MergeRecord(a, s[k]))
  <2>1. s[k] \in ToSet(s)
    BY <1>1 DEF ToSet
  <2>2. IsRecord(project, s[k]) /\ s[k].lockfile # "none"
    BY <2>1 DEF AreRecords
  <2>3. /\ AreRecords(project, a)
        /\ \A i \in 1..(k - 1) : Has(a, s[i].lockfile, s[i].label)
    BY <1>2, <1>4 DEF Merging
  <2> DEFINE b == MergeRecord(a, s[k])
  <2>4. /\ AreRecords(project, b) /\ Has(b, s[k].lockfile, s[k].label)
        /\ \A file, label : Has(a, file, label) => Has(b, file, label)
    BY <2>2, <2>3, MergeRecordIs
  <2> HIDE DEF b
  <2>5. \A i \in 1..k : i \in 1..(k - 1) \/ i = k
    OBVIOUS
  <2>6. \A i \in 1..k : Has(b, s[i].lockfile, s[i].label)
    BY <2>3, <2>4, <2>5
  <2> QED BY <1>2, <2>4, <2>6 DEF Merging, b
<1>5. Merging(c, Len(s), ME!FoldLeft(MergeRecord, <<>>, s))
  BY <1>1, <1>3, <1>4, ME!FoldHolds
<1>6. ME!FoldLeft(MergeRecord, <<>>, s) = FoldLeft(MergeRecord, <<>>, s)
  BY DEF ME!FoldLeft, FoldLeft, ME!MapThenFoldSet, MapThenFoldSet, ME!Max, Max
<1> QED
  BY <1>1, <1>2, <1>5, <1>6 DEF Merging, ToSet

(* Declarations add records that are of no lockfile.                       *)
Adding(c, n, a) ==
    AreRecords(c[1], a) /\ \A file, label : Has(c[2], file, label) => Has(a, file, label)
AD == INSTANCE FoldTheorems WITH Op <- AddDeclaration, Holds <- Adding

(* They lose nothing of what there was.                                    *)
LEMMA DeclaredAre ==
  ASSUME NEW project, NEW b, AreRecords(project, b), NEW s, IsList(s)
  PROVE  /\ AreRecords(project, FoldLeft(AddDeclaration, b, s))
         /\ \A file, label : Has(b, file, label) => Has(FoldLeft(AddDeclaration, b, s), file, label)
<1> DEFINE c == <<project, b>>
<1>1. Len(s) \in Nat /\ DOMAIN s = 1..Len(s)
  BY ListFacts
<1>2. c[1] = project /\ c[2] = b
  OBVIOUS
<1> HIDE DEF c
<1>3. Adding(c, 0, b)
  BY <1>2 DEF Adding
<1>4. ASSUME NEW k \in 1..Len(s), NEW a, Adding(c, k - 1, a)
      PROVE  Adding(c, k, AddDeclaration(a, s[k]))
  <2> DEFINE d == s[k]
             x == [label |-> <<d.name, 0>>, lockfile |-> "none", chains |-> <<>>,
                   relationship |-> "direct", manifest |-> d.manifest, scope |-> d.scope]
             t == AddDeclaration(a, d)
  <2>1. t = a \/ t = Append(a, x)
    BY DEF AddDeclaration
  <2>2. /\ x = [f \in RecordNames |-> x[f]] /\ x.chains = <<>> /\ x.lockfile = "none"
    BY DEF RecordNames
  <2> HIDE DEF d, x, t
  <2>3. IsRecord(project, x)
    BY <2>2, FewIsList DEF IsRecord
  <2>4. IsList(a) /\ Len(a) \in Nat /\ DOMAIN a = 1..Len(a) /\ AreRecords(project, a)
        /\ \A file, label : Has(b, file, label) => Has(a, file, label)
    BY <1>2, <1>4, ListFacts DEF Adding, AreRecords
  <2>5. IsList(t) /\ ToSet(a) \subseteq ToSet(t) /\ ToSet(t) \subseteq ToSet(a) \cup {x}
    <3>1. CASE t = a
      BY <2>4, <3>1
    <3>2. CASE t = Append(a, x)
      <4>1. /\ IsList(t) /\ DOMAIN t = 1..(Len(a) + 1) /\ t[Len(a) + 1] = x
            /\ \A j \in 1..Len(a) : t[j] = a[j]
        BY <2>4, <3>2, AppendFacts
      <4> QED BY <2>4, <4>1 DEF ToSet
    <3> QED BY <2>1, <3>1, <3>2
  <2>6. AreRecords(project, t)
    BY <2>3, <2>4, <2>5 DEF AreRecords
  <2>7. \A file, label : Has(a, file, label) => Has(t, file, label)
    BY <2>5 DEF Has
  <2>8. Adding(c, k, t)
    BY <1>2, <2>4, <2>6, <2>7 DEF Adding
  <2> QED BY <2>8 DEF t, d
<1>5. Adding(c, Len(s), AD!FoldLeft(AddDeclaration, b, s))
  BY <1>1, <1>3, <1>4, AD!FoldHolds
<1>6. AD!FoldLeft(AddDeclaration, b, s) = FoldLeft(AddDeclaration, b, s)
  BY DEF AD!FoldLeft, FoldLeft, AD!MapThenFoldSet, MapThenFoldSet, AD!Max, Max
<1> QED
  BY <1>2, <1>5, <1>6 DEF Adding

-----------------------------------------------------------------------------
(* The invariant: what is listed, and what the inventory has, is true of   *)
(* the lockfiles, and no package of a lockfile that was read is missing.   *)
AllRecorded(records, l) == \A p \in ToSet(l.packages) : Has(records, l.file, LabelOf(l, p))

InventoryInvariant ==
    /\ inventoried \in Inventoried
    /\ IsList(unread) /\ ToSet(unread) \subseteq ToSet(inventoried.lockfiles)
    /\ AreRecords(inventoried, listed) /\ \A x \in ToSet(listed) : x.lockfile # "none"
    /\ \A l \in ToSet(inventoried.lockfiles) :
            l \in ToSet(unread) \/ l.malformed \/ AllRecorded(listed, l)
    /\ inventory # <<>> =>
            /\ AreRecords(inventoried, inventory)
            /\ \A l \in ToSet(inventoried.lockfiles) : l.malformed \/ AllRecorded(inventory, l)

(* Before a lockfile is read there is nothing to be wrong.                 *)
LEMMA InventoryStarts == InventoryInit => InventoryInvariant
<1> SUFFICES ASSUME InventoryInit PROVE InventoryInvariant
  OBVIOUS
<1>1. inventoried \in Inventoried /\ unread = inventoried.lockfiles /\ listed = <<>> /\ inventory = <<>>
  BY DEF InventoryInit
<1>2. IsList(unread)
  BY <1>1, LockFacts
<1>3. ToSet(<<>>) = {} /\ IsList(<<>>)
  BY FewIsList DEF ToSet
<1> QED
  BY <1>1, <1>2, <1>3 DEF InventoryInvariant, AreRecords

(* A list is its first element and the rest.                               *)
LEMMA TailFacts ==
  ASSUME NEW s, IsList(s), s # <<>>
  PROVE  /\ IsList(Tail(s)) /\ ToSet(s) = {Head(s)} \cup ToSet(Tail(s))
<1>1. s \in Seq(ToSet(s)) /\ Len(s) \in Nat \ {0} /\ DOMAIN s = 1..Len(s)
  BY ListFacts
<1>2. Tail(s) \in Seq(ToSet(s)) /\ Len(Tail(s)) = Len(s) - 1 /\ Head(s) = s[1]
  BY <1>1
<1>3. DOMAIN Tail(s) = 1..(Len(s) - 1) /\ \A i \in 1..(Len(s) - 1) : Tail(s)[i] = s[i + 1]
  BY <1>1, <1>2
<1>4. IsList(Tail(s)) /\ ToSet(Tail(s)) \subseteq ToSet(s)
  BY <1>2, ListOf
<1>5. ASSUME NEW i \in DOMAIN s PROVE s[i] \in {Head(s)} \cup ToSet(Tail(s))
  <2>1. CASE i = 1
    BY <1>2, <2>1
  <2>2. CASE i # 1
    <3>1. i - 1 \in DOMAIN Tail(s) /\ Tail(s)[i - 1] = s[i]
      BY <1>1, <1>3, <2>2
    <3> QED BY <3>1 DEF ToSet
  <2> QED BY <2>1, <2>2
<1>6. Head(s) \in ToSet(s)
  BY <1>1, <1>2 DEF ToSet
<1>7. ToSet(s) \subseteq {Head(s)} \cup ToSet(Tail(s))
  BY <1>5 DEF ToSet
<1> QED
  BY <1>4, <1>6, <1>7

(* Each lockfile adds records that are true of it, and the merge keeps     *)
(* them so.                                                                *)
LEMMA InventoryGoesOn == InventoryInvariant /\ [InventoryNext]_inventoryVars => InventoryInvariant'
<1> SUFFICES ASSUME InventoryInvariant, [InventoryNext]_inventoryVars PROVE InventoryInvariant'
  OBVIOUS
<1>1. /\ inventoried \in Inventoried
      /\ IsList(unread) /\ ToSet(unread) \subseteq ToSet(inventoried.lockfiles)
      /\ AreRecords(inventoried, listed) /\ \A x \in ToSet(listed) : x.lockfile # "none"
      /\ \A l \in ToSet(inventoried.lockfiles) :
            l \in ToSet(unread) \/ l.malformed \/ AllRecorded(listed, l)
  BY DEF InventoryInvariant
<1>2. CASE ReadLockfile
  <2> DEFINE l == Head(unread)
  <2>1. unread # <<>> /\ unread' = Tail(unread) /\ inventoried' = inventoried /\ inventory' = inventory
    BY <1>2 DEF ReadLockfile
  <2>2. IsList(unread') /\ ToSet(unread) = {l} \cup ToSet(unread')
    BY <1>1, <2>1, TailFacts
  <2>3. l \in ToSet(inventoried.lockfiles)
    BY <1>1, <2>2
  <2>4. /\ l.malformed => listed' = listed
        /\ ~l.malformed => listed' = listed \o RecordsOf(inventoried, l)
    BY <1>2 DEF ReadLockfile
  <2> HIDE DEF l
  <2>5. CASE l.malformed
    <3>1. listed' = listed
      BY <2>4, <2>5
    <3> QED BY <1>1, <2>1, <2>2, <2>5, <3>1 DEF InventoryInvariant
  <2>6. CASE ~l.malformed
    <3> DEFINE R == RecordsOf(inventoried, l)
    <3>1. /\ AreRecords(inventoried, R)
          /\ \A p \in ToSet(l.packages) : Has(R, l.file, LabelOf(l, p))
      BY <1>1, <2>3, RecordsAre
    <3>2. listed' = listed \o R
      BY <2>4, <2>6
    <3>3. \A x \in ToSet(R) : x.lockfile # "none"
      <4>1. DOMAIN R = DOMAIN l.packages /\ \A n \in DOMAIN R : R[n].lockfile = l.file
        BY DEF RecordsOf, Dependency
      <4>2. l.file # "none"
        BY <1>1, <2>3, LockFacts
      <4> HIDE DEF R
      <4> QED BY <4>1, <4>2 DEF ToSet
    <3> HIDE DEF R
    <3>4. IsList(listed') /\ ToSet(listed') = ToSet(listed) \cup ToSet(R)
      BY <1>1, <3>1, <3>2, ConcatIsList, ConcatElements DEF AreRecords
    <3>5. AreRecords(inventoried, listed') /\ \A x \in ToSet(listed') : x.lockfile # "none"
      BY <1>1, <3>1, <3>3, <3>4 DEF AreRecords
    <3>6. \A m : AllRecorded(listed, m) => AllRecorded(listed', m)
      BY <3>4 DEF AllRecorded, Has
    <3>7. AllRecorded(listed', l)
      BY <3>1, <3>4 DEF AllRecorded, Has
    <3>8. \A m \in ToSet(inventoried.lockfiles) :
             m \in ToSet(unread') \/ m.malformed \/ AllRecorded(listed', m)
      BY <1>1, <2>2, <3>6, <3>7
    <3>9. /\ inventoried' \in Inventoried
          /\ IsList(unread') /\ ToSet(unread') \subseteq ToSet(inventoried'.lockfiles)
          /\ AreRecords(inventoried', listed') /\ \A x \in ToSet(listed') : x.lockfile # "none"
          /\ \A m \in ToSet(inventoried'.lockfiles) :
                m \in ToSet(unread') \/ m.malformed \/ AllRecorded(listed', m)
      BY <1>1, <2>1, <2>2, <3>5, <3>8
    <3>10. inventory' # <<>> =>
              /\ AreRecords(inventoried', inventory')
              /\ \A m \in ToSet(inventoried'.lockfiles) : m.malformed \/ AllRecorded(inventory', m)
      BY <2>1 DEF InventoryInvariant
    <3> QED BY <3>9, <3>10 DEF InventoryInvariant
  <2> QED BY <2>5, <2>6
<1>3. CASE ResolvedInventory
  <2> DEFINE b == FoldLeft(MergeRecord, <<>>, listed)
             d == AllDeclarations(inventoried)
             t == FoldLeft(AddDeclaration, b, d)
  <2>1. /\ unread = <<>> /\ inventory' = t /\ inventoried' = inventoried /\ unread' = unread
        /\ listed' = listed
    BY <1>3 DEF ResolvedInventory
  <2>2. /\ AreRecords(inventoried, b) /\ \A x \in ToSet(listed) : Has(b, x.lockfile, x.label)
    BY <1>1, MergedAre
  <2>3. IsList(d)
    BY <1>1, LockFacts, AllDeclarationsAre
  <2>4. /\ AreRecords(inventoried, t)
        /\ \A file, label : Has(b, file, label) => Has(t, file, label)
    <3> HIDE DEF b, d
    <3> QED BY <2>2, <2>3, DeclaredAre
  <2> HIDE DEF b, d, t
  <2>5. \A file, label : Has(listed, file, label) => Has(t, file, label)
    BY <2>2, <2>4 DEF Has
  <2>6. \A l : AllRecorded(listed, l) => AllRecorded(t, l)
    BY <2>5 DEF AllRecorded
  <2>7. ToSet(unread) = {}
    BY <2>1 DEF ToSet
  <2>8. \A l \in ToSet(inventoried.lockfiles) : l.malformed \/ AllRecorded(t, l)
    BY <1>1, <2>6, <2>7
  <2> QED BY <1>1, <2>1, <2>4, <2>8 DEF InventoryInvariant
<1>4. CASE UNCHANGED inventoryVars
  BY <1>4 DEF InventoryInvariant, inventoryVars
<1> QED
  BY <1>2, <1>3, <1>4 DEF InventoryNext

(* What the records say of their chains is what the search says of the     *)
(* graph.                                                                  *)
LEMMA InvariantMakesInventory == InventoryInvariant => InventoryIsTrue
<1> SUFFICES ASSUME InventoryInvariant, inventory # <<>>, NEW l \in ToSet(inventoried.lockfiles),
                    ~l.malformed, l.kind # "tree"
             PROVE  LET graph == Graph(l, inventoried)
                        twice == \E m, n \in DOMAIN graph.label :
                                    m # n /\ graph.label[m] = graph.label[n]
                        cut == Len(SearchOf(graph).routes) > MaxRoutes
                        reached == {graph.label[n] : n \in ReachedIn(graph, MaxParentDepth)}
                    IN  /\ {LabelOf(l, p) : p \in ToSet(l.packages)} = {r.label : r \in RecordsFrom(l)}
                        /\ \A r \in RecordsFrom(l) :
                            /\ \A c \in ToSet(r.chains) :
                                    Last(c.labels) = r.label /\ IsParentChain(graph, c)
                            /\ r.chains # <<>> => (r.relationship = "direct" <=>
                                    \E s \in ToSet(graph.seeds) : graph.label[s.node] = r.label)
                            /\ r.label \in reached /\ ~twice /\ ~cut => r.chains # <<>>
  BY DEF InventoryIsTrue
<1> DEFINE g == Graph(l, inventoried)
           reached == {g.label[n] : n \in ReachedIn(g, MaxParentDepth)}
<1>1. /\ inventoried \in Inventoried /\ AreRecords(inventoried, inventory) /\ AllRecorded(inventory, l)
  BY DEF InventoryInvariant
<1>2. IsGraph(g) /\ \A p \in ToSet(l.packages) : LabelOf(l, p) \in LabelsOf(g)
  BY <1>1, GraphOfLock
<1>3. ASSUME NEW r \in RecordsFrom(l) PROVE Honest(inventoried, l, r)
  <2>1. IsRecord(inventoried, r) /\ r.lockfile = l.file
    BY <1>1 DEF RecordsFrom, AreRecords
  <2>2. l.file # "none"
    BY <1>1, LockFacts
  <2>3. PICK m \in ToSet(inventoried.lockfiles) : Honest(inventoried, m, r)
    BY <2>1, <2>2 DEF IsRecord
  <2>4. l = m
    BY <1>1, <2>1, <2>3, FilesAreOwn DEF Honest
  <2> QED BY <2>3, <2>4
<1>4. {LabelOf(l, p) : p \in ToSet(l.packages)} = {r.label : r \in RecordsFrom(l)}
  <2>1. ASSUME NEW p \in ToSet(l.packages) PROVE \E r \in RecordsFrom(l) : r.label = LabelOf(l, p)
    BY <1>1 DEF AllRecorded, Has, RecordsFrom
  <2>2. ASSUME NEW r \in RecordsFrom(l) PROVE \E p \in ToSet(l.packages) : r.label = LabelOf(l, p)
    BY <1>3 DEF Honest
  <2> QED BY <2>1, <2>2
<1>5. ASSUME NEW r \in RecordsFrom(l)
      PROVE  /\ \A c \in ToSet(r.chains) : Last(c.labels) = r.label /\ IsParentChain(g, c)
             /\ r.chains # <<>> => (r.relationship = "direct" <=> Seeded(g, r.label))
             /\ r.label \in reached /\ ~Twice(g) /\ ~(Len(SearchOf(g).routes) > MaxRoutes)
                    => r.chains # <<>>
  <2> DEFINE kept == SearchOf(g).chains[r.label]
  <2>1. Honest(inventoried, l, r)
    BY <1>3
  <2>2. r.label \in LabelsOf(g)
    BY <1>2, <2>1 DEF Honest
  <2>3. /\ ToSet(r.chains) \subseteq ToSet(kept)
        /\ kept # <<>> => /\ r.chains # <<>>
                          /\ r.relationship = "direct" <=> HasShort(kept)
    BY <2>1 DEF Honest, ChainsKept
  <2>4. /\ \A c \in ToSet(kept) : ChainTo(g, r.label, c)
        /\ kept # <<>> => (HasShort(kept) <=> Seeded(g, r.label))
    BY <1>2, <2>2, SearchFacts DEF IsSearch
  <2>5. r.label \in reached /\ ~Twice(g) /\ ~(Len(SearchOf(g).routes) > MaxRoutes) => kept # <<>>
    <3> HAVE r.label \in reached /\ ~Twice(g) /\ ~(Len(SearchOf(g).routes) > MaxRoutes)
    <3>1. PICK n \in ReachedIn(g, MaxParentDepth) : r.label = g.label[n]
      OBVIOUS
    <3> QED BY <1>2, <3>1, ReachedIsRouted
  <2> HIDE DEF kept, g, reached
  <2>6. r.chains # <<>> => kept # <<>>
    <3> HAVE r.chains # <<>>
    <3>1. IsList(r.chains)
      BY <1>1 DEF RecordsFrom, AreRecords, IsRecord
    <3>2. 1 \in DOMAIN r.chains
      BY <3>1, ListFacts
    <3>3. r.chains[1] \in ToSet(kept)
      BY <2>3, <3>2 DEF ToSet
    <3> QED BY <3>3 DEF ToSet
  <2>7. \A c \in ToSet(r.chains) : Last(c.labels) = r.label /\ IsParentChain(g, c)
    BY <2>3, <2>4 DEF ChainTo
  <2>8. r.chains # <<>> => (r.relationship = "direct" <=> Seeded(g, r.label))
    BY <2>3, <2>4, <2>6
  <2> QED BY <2>3, <2>5, <2>7, <2>8
<1> QED
  BY <1>4, <1>5 DEF Seeded, Twice

(* Every chain of an inventory leads from a manifest to its package over   *)
(* what requires what, a package is direct exactly if a manifest requires  *)
(* it, however many other ways there are to it, and what a manifest        *)
(* reaches has a chain, where every route is followed and no label is      *)
(* installed twice: for any lockfiles, numbers of chains, depths and       *)
(* numbers of routes.                                                      *)
THEOREM InventoryHolds == InventorySpec => []InventoryIsTrue
<1>1. InventoryInit => InventoryInvariant
  BY InventoryStarts
<1>2. InventoryInvariant /\ [InventoryNext]_inventoryVars => InventoryInvariant'
  BY InventoryGoesOn
<1>3. InventoryInvariant => InventoryIsTrue
  BY InvariantMakesInventory
<1> QED
  BY <1>1, <1>2, <1>3, PTL DEF InventorySpec
=============================================================================
