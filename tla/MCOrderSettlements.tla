-------------------------- MODULE MCOrderSettlements --------------------------
(* Small instances of OrderSettlements for TLC. *)
EXTENDS OrderSettlements, TLC

CONSTANTS j1, j2, r1, r2

\* A refund that leaves something and one that takes all the cash.
MCRefundAmount == [f \in Refunds |-> IF f = r1 THEN 1 ELSE 2]

Symmetry == Permutations(Jobs)
=============================================================================
