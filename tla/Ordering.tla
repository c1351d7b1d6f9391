------------------------------ MODULE Ordering ------------------------------
(***************************************************************************)
(* What sorted(), a filter and a slice of Python do to a list, told of the *)
(* places in it: a finite set is put in an order.  An order is a set of    *)
(* pairs <<x, y>>, x coming before y.  To put a set in order by counting   *)
(* what comes before each of its members says what any sorting algorithm   *)
(* computes, and can be reasoned about.                                    *)
(***************************************************************************)
EXTENDS Naturals, FiniteSets, Sequences

Rank(set, before, x) == Cardinality({y \in set : <<y, x>> \in before})
InOrder(set, before) ==
  [k \in 1..Cardinality(set) |-> CHOOSE x \in set : Rank(set, before, x) = k - 1]

\* The members of s at the places in the set, in that order.
Arranged(s, set, before) ==
  LET at == InOrder(set, before) IN [k \in 1..Cardinality(set) |-> s[at[k]]]

Ascending(set) == {p \in set \X set : p[1] < p[2]}

\* A filter: what is at these places, in the order of the list.
Sifted(s, set) == Arranged(s, set, Ascending(set))

\* A slice: the first n of a list, or all if it has fewer.
FirstOf(s, n) == [k \in 1..(IF n < Len(s) THEN n ELSE Len(s)) |-> s[k]]
=============================================================================
