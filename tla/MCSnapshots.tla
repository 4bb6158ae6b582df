---------------------------- MODULE MCSnapshots ----------------------------
(* A table, a clone, a name and two statements.                            *)
EXTENDS Snapshots, TLC

CONSTANTS t, u, c, m, n, s1, s2

Symmetry == Permutations(Statements) \cup Permutations(Tables)
=============================================================================
