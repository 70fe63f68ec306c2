----------------------- MODULE MCReturnReconciliation -----------------------
EXTENDS ReturnReconciliation, TLC

MCRequests == 1..2
MCSymmetry == Permutations(Refunds) \union Permutations(Procs)
=============================================================================
