--------------------------- MODULE MCReclamation ---------------------------
(* One reader, one snapshot and a handful of files: enough for a merge of  *)
(* a merge, a wait that outlasts its grace period, and pins that maintenance *)
(* learns of late, in part or not at all.                                  *)
EXTENDS Reclamation
=============================================================================
