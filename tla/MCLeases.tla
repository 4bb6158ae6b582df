------------------------------ MODULE MCLeases ------------------------------
(* Leases on a small instance: more readers than slots, so that collisions *)
(* happen, and enough names for two merges.                                *)
EXTENDS Leases, TLC

Symmetry == Permutations(Readers) \cup Permutations(Files)

=============================================================================
