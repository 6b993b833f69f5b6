--------------------------- MODULE MCSearchIndex ---------------------------
EXTENDS SearchIndex

TwoActivities == 1..2
=============================================================================
