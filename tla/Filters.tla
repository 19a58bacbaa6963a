------------------------------ MODULE Filters ------------------------------
(***************************************************************************)
(* The elements of a list that belong to a set, in their order: what is    *)
(* left of a std::list or a circular buffer when a loop erases the others. *)
(* SelectSeq says the same by recursion; here the k-th element kept is the *)
(* one at the position of rank k, which can be reasoned about without      *)
(* induction.                                                              *)
(***************************************************************************)
EXTENDS Integers, FiniteSets

(* How many positions of P are not after i.                                *)
Rank(P, i) == Cardinality({j \in P : j <= i})

Keep(s, S) ==
    LET P == {i \in DOMAIN s : s[i] \in S} IN
    [k \in 1..Cardinality(P) |-> s[CHOOSE i \in P : Rank(P, i) = k]]
=============================================================================
