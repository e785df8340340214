------------------------------ MODULE MCPages ------------------------------
EXTENDS Pages

MCTimes == {0, 1, None}
MCFilters == {None, "u"}
=============================================================================
