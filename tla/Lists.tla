-------------------------------- MODULE Lists --------------------------------
(***************************************************************************)
(* Array.prototype.filter.                                                 *)
(***************************************************************************)
EXTENDS Integers, Sequences, FiniteSets

(* The places up to i of list s that hold an element of K.                 *)
Kept(s, K, i) == {k \in 1..i : s[k] \in K}

(* The elements of s that are in K, in their order: SelectSeq by places,   *)
(* which proofs can use.                                                   *)
Filtered(s, K) ==
  [n \in 1..Cardinality(Kept(s, K, Len(s))) |->
     s[CHOOSE i \in DOMAIN s : s[i] \in K /\ Cardinality(Kept(s, K, i)) = n]]
=============================================================================
