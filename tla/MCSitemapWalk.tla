---------------------------- MODULE MCSitemapWalk ----------------------------
\* Instances of SitemapWalk for TLC; Symmetry permutes the sitemaps other than the root.
EXTENDS SitemapWalk

Symmetry == Permutations(Sitemaps \ {Root})
=============================================================================
