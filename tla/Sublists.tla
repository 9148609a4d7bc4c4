------------------------------ MODULE Sublists ------------------------------
(* Filtering a list, as the code's loops with an if and an append do,      *)
(* stated by the places of what is kept: proofs cannot use recursion.      *)
EXTENDS Naturals, Sequences, FiniteSets

Place(i, places) == Cardinality({j \in places : j <= i})

\* The elements of s that are in S, in the order they have in s.
Sublist(s, S) ==
    LET places == {i \in DOMAIN s : s[i] \in S}
    IN  [k \in 1 .. Cardinality(places) |-> s[CHOOSE i \in places : Place(i, places) = k]]

=============================================================================
