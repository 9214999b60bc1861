--------------------------------- MODULE Ranking ---------------------------------
(***************************************************************************)
(* Sorting and filtering as the other modules use them, in a form that can *)
(* be reasoned about: an item's place in the sorted list is the number of  *)
(* items that precede it.  The code sorts with sorted() and list.sort(),   *)
(* whose result is this one when no two items are equal, and filters with  *)
(* list comprehensions.                                                    *)
(***************************************************************************)
EXTENDS Integers, FiniteSets

\* The members of S that the relation R puts before x.
Preceding(S, R, x) == {y \in S: <<y, x>> \in R}

\* S as a list, in the order of the pairs of R.
Ranked(S, R) ==
    [k \in 1 .. Cardinality(S) |->
        CHOOSE x \in S: Cardinality(Preceding(S, R, x)) = k - 1]

\* A set of numbers as a list, from the least to the greatest.
Ascending(S) ==
    [k \in 1 .. Cardinality(S) |-> CHOOSE x \in S: Cardinality({y \in S: y < x}) = k - 1]

\* The items of a list at the positions I, in the list's order.
ItemsAt(s, I) ==
    LET position == Ascending(I) IN [k \in DOMAIN position |-> s[position[k]]]
=================================================================================
