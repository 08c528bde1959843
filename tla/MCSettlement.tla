---------------------------- MODULE MCSettlement ----------------------------
(* Settlement on a few settlements, for TLC. *)
EXTENDS Settlement
CONSTANTS s1, s2, s3

MCWork == {s1, s2, s3}

\* The settlements are interchangeable: no action or invariant names one.
Symmetry == Permutations(MCWork)
=============================================================================
