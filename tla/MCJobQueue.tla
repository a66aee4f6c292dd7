----------------------------- MODULE MCJobQueue -----------------------------
\* Instances of JobQueue for TLC.
EXTENDS JobQueue, TLC

CONSTANTS j1, j2, w1, w2

\* j2 is more urgent than j1, so it overtakes it whenever both wait.
UrgentSecond == [j \in Jobs |-> IF j = j2 THEN 0 ELSE 10]

SamePrio == [j \in Jobs |-> 10]

Symmetry == Permutations(Workers) \cup Permutations(Jobs)
=============================================================================
