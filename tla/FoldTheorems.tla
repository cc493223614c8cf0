---------------------------- MODULE FoldTheorems ----------------------------
(***************************************************************************)
(* What a fold over a sequence computes, for every operator Op: the last   *)
(* of the values that Op makes one after the other of the elements.  A     *)
(* module with proofs instantiates it with an operator of its own, and     *)
(* with what it knows of each of those values (Holds).                     *)
(***************************************************************************)
EXTENDS Naturals, SequencesExt, WellFoundedInduction, TLAPS

CONSTANTS
    Op(_, _),           \* (what the fold has so far, the next element)
    Holds(_, _, _)      \* (anything, how many elements, what the fold has)

(* What induction rests on: the order of the naturals is well founded.     *)
LEMMA Induction ==
  ASSUME NEW P \in SUBSET Nat, 0 \in P, \A n \in P : n + 1 \in P PROVE P = Nat
<1> DEFINE T == Nat \ P
           R == {ss \in Nat \X Nat : ss[1] < ss[2]}
<1> SUFFICES ASSUME T # {} PROVE FALSE
  OBVIOUS
<1>1. IsWellFoundedOn(R, Nat)
  BY NatLessThanWellFounded DEF OpToRel
<1>2. PICK x \in T : \A y \in T : ~(<<y, x>> \in R)
  <2>1. T \in SUBSET Nat
    OBVIOUS
  <2> HIDE DEF R, T
  <2> QED BY <1>1, <2>1, WFMin
<1>3. x \in Nat /\ x # 0 /\ x - 1 \in Nat
  OBVIOUS
<1>4. x - 1 \notin T
  <2>1. <<x - 1, x>> \in R
    BY <1>3
  <2> HIDE DEF R, T
  <2> QED BY <1>2, <2>1
<1>5. (x - 1) + 1 \in P
  BY <1>3, <1>4
<1> QED BY <1>3, <1>5

(* A set of naturals has a least element.                                  *)
LEMMA LeastOf ==
  ASSUME NEW S \in SUBSET Nat, S # {}
  PROVE  \E i \in S : \A j \in S : i <= j
<1> DEFINE P == {n \in Nat : \A m \in S : n <= m}
<1> SUFFICES ASSUME \A i \in S : \E j \in S : ~(i <= j) PROVE FALSE
  OBVIOUS
<1>1. 0 \in P
  OBVIOUS
<1>2. ASSUME NEW n \in P PROVE n + 1 \in P
  <2>1. n \notin S
    OBVIOUS
  <2>2. \A m \in S : n <= m /\ n # m /\ m \in Nat
    BY <2>1
  <2> QED
    BY <2>2
<1>3. P = Nat
  <2>1. P \in SUBSET Nat
    OBVIOUS
  <2> HIDE DEF P
  <2> QED
    BY <1>1, <1>2, <2>1, Induction
<1>4. PICK i \in S : TRUE
  OBVIOUS
<1>5. i + 1 \in P
  BY <1>3
<1> QED
  BY <1>4, <1>5

(* The recursive function of a fold exists.                                *)
Folds(f, b, s, N) ==
    f = [T \in SUBSET (1..N) |-> IF T = {} THEN b ELSE Op(f[T \ {Max(T)}], s[Max(T)])]

LEMMA FoldExists ==
  ASSUME NEW b, NEW s, NEW N \in Nat PROVE \E f : Folds(f, b, s, N)
<1> DEFINE P == {n \in Nat : \E f : Folds(f, b, s, n)}
<1>1. 0 \in P
  <2>1. Folds([T \in SUBSET (1..0) |-> b], b, s, 0)
    BY DEF Folds
  <2> QED BY <2>1
<1>2. ASSUME NEW n \in P PROVE n + 1 \in P
  <2>1. PICK f : Folds(f, b, s, n)
    OBVIOUS
  <2> DEFINE g == [T \in SUBSET (1..(n + 1)) |->
                    IF n + 1 \in T THEN Op(f[T \ {n + 1}], s[n + 1]) ELSE f[T]]
  <2>2. ASSUME NEW T \in SUBSET (1..(n + 1))
        PROVE  g[T] = IF T = {} THEN b ELSE Op(g[T \ {Max(T)}], s[Max(T)])
    <3>1. CASE n + 1 \in T
      <4>1. Max(T) = n + 1
        <5>1. n \in Nat /\ T \subseteq Nat /\ \A y \in T : n + 1 >= y
          OBVIOUS
        <5>2. \A x \in T : (\A y \in T : x >= y) => x = n + 1
          BY <3>1, <5>1
        <5> HIDE DEF g
        <5> QED BY <3>1, <5>1, <5>2 DEF Max
      <4>2. T \ {n + 1} \in SUBSET (1..(n + 1)) /\ n + 1 \notin T \ {n + 1}
        OBVIOUS
      <4>3. g[T \ {n + 1}] = f[T \ {n + 1}]
        BY <4>2
      <4>4. g[T] = Op(f[T \ {n + 1}], s[n + 1])
        BY <3>1
      <4> HIDE DEF g
      <4> QED BY <3>1, <4>1, <4>3, <4>4
    <3>2. CASE n + 1 \notin T
      <4>1. T \in SUBSET (1..n)
        BY <3>2
      <4>2. \A U \in SUBSET (1..n) : g[U] = f[U]
        OBVIOUS
      <4>3. f[T] = IF T = {} THEN b ELSE Op(f[T \ {Max(T)}], s[Max(T)])
        BY <2>1, <4>1 DEF Folds
      <4>4. T \ {Max(T)} \in SUBSET (1..n)
        BY <4>1
      <4> HIDE DEF g
      <4> QED BY <4>1, <4>2, <4>3, <4>4
    <3> QED BY <3>1, <3>2
  <2>3. Folds(g, b, s, n + 1)
    <3>1. DOMAIN g = SUBSET (1..(n + 1))
      OBVIOUS
    <3>2. g = [T \in SUBSET (1..(n + 1)) |-> g[T]]
      OBVIOUS
    <3> HIDE DEF g
    <3> QED BY <2>2, <3>1, <3>2 DEF Folds
  <2> HIDE DEF g
  <2> QED BY <2>3
<1>3. P = Nat
  <2> HIDE DEF P
  <2>1. P \in SUBSET Nat
    BY DEF P
  <2> QED BY <1>1, <1>2, <2>1, Induction
<1> QED BY <1>3

(* The values of a fold.                                                   *)
THEOREM FoldSteps ==
  ASSUME NEW b, NEW s, NEW N \in Nat, DOMAIN s = 1..N
  PROVE  \E h : /\ h[0] = b
                /\ \A k \in 1..N : h[k] = Op(h[k - 1], s[k])
                /\ h[N] = FoldLeft(Op, b, s)
<1> DEFINE F == CHOOSE f : Folds(f, b, s, N)
           h == [k \in 0..N |-> F[1..k]]
<1>1. Folds(F, b, s, N)
  BY FoldExists
<1>2. FoldLeft(Op, b, s) = F[1..N]
  BY DEF FoldLeft, MapThenFoldSet, Folds
<1> HIDE DEF F
<1>3. h[0] = b
  <2>1. h[0] = F[{}] /\ {} \in SUBSET (1..N)
    OBVIOUS
  <2> QED BY <2>1, <1>1 DEF Folds
<1>4. ASSUME NEW k \in 1..N PROVE h[k] = Op(h[k - 1], s[k])
  <2>1. 1..k \in SUBSET (1..N) /\ 1..k # {}
    <3>1. k \in 1..k
      OBVIOUS
    <3>2. 1..k \in SUBSET (1..N)
      OBVIOUS
    <3> QED BY <3>1, <3>2
  <2>2. Max(1..k) = k
    BY DEF Max
  <2>3. (1..k) \ {k} = 1..(k - 1)
    OBVIOUS
  <2>4. F[1..k] = Op(F[1..(k - 1)], s[k])
    BY <2>1, <2>2, <2>3, <1>1 DEF Folds
  <2>5. h[k] = F[1..k] /\ h[k - 1] = F[1..(k - 1)]
    OBVIOUS
  <2> HIDE DEF h
  <2> QED BY <2>4, <2>5
<1>5. h[N] = F[1..N]
  OBVIOUS
<1> HIDE DEF h
<1> QED BY <1>2, <1>3, <1>4, <1>5

(* What holds at the beginning, and of the next value if it holds of one,  *)
(* holds of what the fold computes.                                        *)
THEOREM FoldHolds ==
  ASSUME NEW c, NEW b, NEW s, NEW N \in Nat, DOMAIN s = 1..N,
         Holds(c, 0, b),
         \A k \in 1..N : \A a : Holds(c, k - 1, a) => Holds(c, k, Op(a, s[k]))
  PROVE  Holds(c, N, FoldLeft(Op, b, s))
<1>1. PICK h : /\ h[0] = b
               /\ \A k \in 1..N : h[k] = Op(h[k - 1], s[k])
               /\ h[N] = FoldLeft(Op, b, s)
  BY FoldSteps
<1> DEFINE P == {n \in Nat : n <= N => Holds(c, n, h[n])}
<1>2. 0 \in P
  BY <1>1
<1>3. ASSUME NEW n \in P PROVE n + 1 \in P
  <2> SUFFICES ASSUME n + 1 <= N PROVE Holds(c, n + 1, h[n + 1])
    OBVIOUS
  <2>1. n + 1 \in 1..N /\ (n + 1) - 1 = n /\ Holds(c, n, h[n])
    OBVIOUS
  <2>2. h[n + 1] = Op(h[n], s[n + 1])
    BY <1>1, <2>1
  <2> QED BY <2>1, <2>2
<1>4. P = Nat
  <2> HIDE DEF P
  <2>1. P \in SUBSET Nat
    BY DEF P
  <2> QED BY <1>2, <1>3, <2>1, Induction
<1>5. Holds(c, N, h[N])
  BY <1>4
<1> QED BY <1>1, <1>5
=============================================================================
