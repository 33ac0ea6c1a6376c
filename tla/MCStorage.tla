----------------------------- MODULE MCStorage -----------------------------
(* write_atomic on four inodes: enough for the vault, its predecessor that  *)
(* a power failure may bring back, and one temporary file per writer.       *)
EXTENDS Storage, TLC

CONSTANTS w1, w2, v1, v2, i1, i2, i3, i4

MCWriters == {w1, w2}
MCValues == {v1, v2}
MCInodes == {i1, i2, i3, i4}
Symmetry == Permutations(MCWriters) \cup Permutations(MCValues) \cup Permutations(MCInodes)

=============================================================================
