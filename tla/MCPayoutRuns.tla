---------------------------- MODULE MCPayoutRuns ----------------------------
(* Small instances of PayoutRuns for TLC. *)
EXTENDS PayoutRuns, TLC

\* Runs, operators, requests and bank references are interchangeable.
Symmetry == Permutations(Runs) \cup Permutations(Operators)
              \cup Permutations(Calls) \cup Permutations(TransferIds)
=============================================================================
