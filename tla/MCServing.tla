----------------------------- MODULE MCServing -----------------------------
(* One or two tables, two names for clones, two statements.                *)
EXTENDS Serving, TLC

CONSTANTS t, u, c, d, s1, s2

StatementSymmetry == Permutations(Statements)
NameSymmetry == Permutations(Names)
Symmetry == StatementSymmetry \cup NameSymmetry
=============================================================================
