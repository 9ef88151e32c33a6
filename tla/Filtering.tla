------------------------------ MODULE Filtering ------------------------------
(***************************************************************************)
(* Array.prototype.filter, without the recursion of SelectSeq: what is     *)
(* left of a sequence keeps its order.                                     *)
(***************************************************************************)
EXTENDS Naturals, Sequences, FiniteSets

\* The sequences, in fact one, of the elements of s that are not in out.
Without(s, out) ==
  LET open == {i \in DOMAIN s : s[i] \notin out}
      left == 1 .. Cardinality(open)
  IN {[i \in left |-> s[kept[i]]] :
        kept \in {k \in [left -> open] : \A i, j \in left : i < j => k[i] < k[j]}}

=============================================================================
