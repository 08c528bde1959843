--------------------------- MODULE MCBudgetLedger ---------------------------
(* BudgetLedger on two concurrent requests, for TLC. *)
EXTENDS BudgetLedger, TLC
CONSTANTS r1, r2

MCRequests == {r1, r2}

\* The requests are interchangeable.
Symmetry == Permutations(MCRequests)
=============================================================================
