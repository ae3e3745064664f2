-------------------------------- MODULE Listing --------------------------------
(***************************************************************************)
(* What sorted() makes of a set of numbers, and a comprehension with a     *)
(* condition of a list: as closed expressions, which can be reasoned about *)
(* where SortSeq and SelectSeq compute.                                    *)
(***************************************************************************)
EXTENDS Integers, Sequences, FiniteSets

\* The numbers of a set, upwards.
InOrder(set) ==
    CHOOSE s \in [1..Cardinality(set) -> set] : \A i, j \in DOMAIN s : i < j => s[i] < s[j]

\* The elements of a list at some of its places, in their order.  (With SubSeq,
\* TLC works them out once.)
Picked(list, places) ==
    LET order == InOrder(places)
        n == Cardinality(places)
    IN  SubSeq([i \in 1..n |-> list[order[i]]], 1, n)
=============================================================================
