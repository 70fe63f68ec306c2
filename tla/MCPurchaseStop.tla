--------------------------- MODULE MCPurchaseStop ---------------------------
EXTENDS PurchaseStop, TLC

MCSymmetry == Permutations(Staff) \union Permutations(Requests)
=============================================================================
