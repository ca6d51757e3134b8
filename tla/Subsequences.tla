----------------------------- MODULE Subsequences -----------------------------
(***************************************************************************)
(* Python's [x for x in s if test(x)], without recursion: an element of a  *)
(* subsequence is found by its rank among the positions that stay.         *)
(***************************************************************************)
EXTENDS Naturals, FiniteSets, Sequences

Rank(D, i) == Cardinality({j \in D : j <= i})

(* The k-th of a set of positions. *)
Nth(D, k) == CHOOSE i \in D : Rank(D, i) = k

(* The elements of s at the positions D, in their order. *)
Picked(s, D) == [k \in 1..Cardinality(D) |-> s[Nth(D, k)]]

Where(s, Test(_)) == Picked(s, {i \in DOMAIN s : Test(s[i])})
=============================================================================
