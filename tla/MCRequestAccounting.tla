------------------------ MODULE MCRequestAccounting ------------------------
(* RequestAccounting on a few concurrent requests, for TLC. *)
EXTENDS RequestAccounting, TLC
CONSTANTS r1, r2, r3

MCRequests == {r1, r2, r3}
MCPair == {r1, r2}

\* The requests are interchangeable.
Symmetry == Permutations(MCRequests)
=============================================================================
