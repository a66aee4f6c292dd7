---------------------------- MODULE MCSiteCrawl ----------------------------
\* Instances of SiteCrawl for TLC; Symmetry permutes the pages other than the root.
EXTENDS SiteCrawl

Symmetry == Permutations(Pages \ {Root})
=============================================================================
