-------------------------- MODULE SafeReclamation --------------------------
(***************************************************************************)
(* What reclamation promises a reader, with no mechanism in it.            *)
(*                                                                         *)
(* A table is a set of live files.  A reader resolves the table into the   *)
(* files that are live at that moment and holds them until it finishes.    *)
(* A merge replaces live files by new ones.  Reclamation deletes files     *)
(* that are neither live nor held: criterion S3 of ADR-0013, "no file is   *)
(* deleted while read".  Leases is shown to implement this specification.  *)
(***************************************************************************)
CONSTANTS
  Readers,    \* the statements that may be running
  Files       \* the names a data file may have

VARIABLES
  live,       \* the files the newest version of the log names
  onDisk,     \* the files that exist
  held        \* held[r]: the files reader r resolved and may still open

vars == << live, onDisk, held >>

TypeOK ==
  /\ live \subseteq Files
  /\ onDisk \subseteq Files
  /\ held \in [Readers -> SUBSET Files]

Init ==
  /\ live \in SUBSET Files
  /\ onDisk = live
  /\ held = [r \in Readers |-> {}]

(* A reader learns the live set.                                           *)
Resolve(r) ==
  /\ held[r] = {}
  /\ held' = [held EXCEPT ![r] = live]
  /\ UNCHANGED << live, onDisk >>

(* A reader is done with every file it resolved.                           *)
Finish(r) ==
  /\ held' = [held EXCEPT ![r] = {}]
  /\ UNCHANGED << live, onDisk >>

(* A merge writes new files and stops naming the ones they replace.        *)
Merge(inputs, outputs) ==
  /\ inputs \subseteq live
  /\ outputs \subseteq Files \ onDisk
  /\ live' = (live \ inputs) \cup outputs
  /\ onDisk' = onDisk \cup outputs
  /\ UNCHANGED held

(* Files nothing names and nobody holds are deleted.                       *)
Delete(gone) ==
  /\ gone \cap live = {}
  /\ \A r \in Readers : gone \cap held[r] = {}
  /\ onDisk' = onDisk \ gone
  /\ UNCHANGED << live, held >>

Next ==
  \/ \E r \in Readers : Resolve(r) \/ Finish(r)
  \/ \E inputs, outputs \in SUBSET Files : Merge(inputs, outputs)
  \/ \E gone \in SUBSET Files : Delete(gone)

Spec == Init /\ [][Next]_vars

(* Every file a reader may still open, and every file the table consists   *)
(* of, exists.                                                             *)
NothingVanishes ==
  /\ live \subseteq onDisk
  /\ \A r \in Readers : held[r] \subseteq onDisk

=============================================================================
