------------------------------ MODULE InOrder ------------------------------
\* The numbers of a finite set in increasing order, without sorting: what a loop meets
\* that goes through places from the first to the last.
EXTENDS Integers, FiniteSets

\* How many numbers of S are not above i.
Rank(S, i) == Cardinality({j \in S : j <= i})

Nth(S, k) == CHOOSE i \in S : Rank(S, i) = k

InOrder(S) == [k \in 1 .. Cardinality(S) |-> Nth(S, k)]
=============================================================================
