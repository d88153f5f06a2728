---------------------------- MODULE MCPageCache ----------------------------
EXTENDS PageCache, TLC

CONSTANTS p1, p2, c1, c2, c3
=============================================================================
