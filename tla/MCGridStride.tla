---------------------------- MODULE MCGridStride ----------------------------
EXTENDS GridStride

MCTotals == 0 .. 9
MCGrids  == 1 .. 5
=============================================================================
