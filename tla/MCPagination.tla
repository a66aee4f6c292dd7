---------------------------- MODULE MCPagination ----------------------------
\* Instances of Pagination for TLC.
EXTENDS Pagination

OmittedToFour == -1 .. 4 \cup {NoLimit}
=============================================================================
