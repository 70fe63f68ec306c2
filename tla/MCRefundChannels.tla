--------------------------- MODULE MCRefundChannels ---------------------------
(* Small instances of RefundChannels for TLC. *)
EXTENDS RefundChannels, TLC

CONSTANTS f1, f2

\* One refund takes half of the order, the other one all of it.
MCAmount == [f \in Refunds |-> IF f = f1 THEN 1 ELSE 2]

Symmetry == Permutations(Jobs)
=============================================================================
