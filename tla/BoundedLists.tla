---------------------------- MODULE BoundedLists ----------------------------
(***************************************************************************)
(* Lists that are filtered, joined and cut.  Each is a fold of an operator *)
(* that has a name, so that proofs can use what is known of folds.         *)
(***************************************************************************)
EXTENDS Naturals, Sequences, FiniteSets, SequencesExt

CONSTANT
    Spare           \* the room that limits leave when lists are not to be cut

ASSUME SpareIsNumber == Spare \in Nat

(* A list is a sequence of its elements.                                   *)
IsList(s) == s \in Seq(ToSet(s))
AreLists(lists) == \A i \in DOMAIN lists : IsList(lists[i])

UpTo(s, n) == SubSeq(s, 1, IF n < Len(s) THEN n ELSE Len(s))

Joining(s, t) == s \o t

Joined(lists) == FoldLeft(Joining, <<>>, lists)

(* The elements that pass a test, in their order.                          *)
Passing(s, Test(_)) == Joined([i \in DOMAIN s |-> IF Test(s[i]) THEN <<s[i]>> ELSE <<>>])

AddNew(kept, x) == IF x \in ToSet(kept) THEN kept ELSE Append(kept, x)

(* Numbers are in the order in which what they stand for is sorted.        *)
Least(S, n) == {x \in S : Cardinality({y \in S \ {x} : y < x}) < n}

(* Every element once, at its first place.                                 *)
Distinct(s) == FoldLeft(AddNew, <<>>, s)

(* What may be missing is a sequence of at most one value.                 *)
FirstSuch(s, Test(_)) == UpTo(Passing(s, Test), 1)
=============================================================================
