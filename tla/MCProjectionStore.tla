--------------------------- MODULE MCProjectionStore ---------------------------
(* Small instances of the projection store for TLC. *)
EXTENDS ProjectionProperties, TLC

CONSTANTS w1, w2, w3, i1, i2, c1, c2

Symmetry == Permutations(Workers) \cup Permutations(Identities) \cup Permutations(Contents)
=============================================================================
