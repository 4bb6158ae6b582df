------------------------------- MODULE Leases -------------------------------
(***************************************************************************)
(* The reader registry of crates/sankhya-leases, one action per atomic     *)
(* operation, between the readers that pin it and the one maintenance      *)
(* thread that asks it whether a merge's inputs may be deleted.            *)
(*                                                                         *)
(* A reader (Server::run_statement) pins, resolves the table, reads, and   *)
(* drops the pin.  The sweeper (Maintainer::tick) commits a merge, marks   *)
(* the epoch, queues the inputs, and later deletes them when `drained'     *)
(* answers yes.  Every access in the code is sequentially consistent, so   *)
(* an interleaving of these actions is an execution of the code.           *)
(*                                                                         *)
(* Abstracted: which slot an epoch hashes to (any slot); the grace period, *)
(* which only delays a deletion (Reclamation models it).                   *)
(***************************************************************************)
EXTENDS Integers, FiniteSets

CONSTANTS
  Readers,      \* the statements that may be running at once
  Files,        \* the names a data file may have
  NSlots,       \* how many slots the registry has
  EpochBound    \* no pin or mark starts once the clock has reached this

ASSUME NSlotsAssumption == NSlots \in Nat \ {0}
ASSUME EpochBoundAssumption == EpochBound \in Nat
ASSUME ReadersAssumption == IsFiniteSet(Readers)

FREE == 0

Slots == 1..NSlots

VARIABLES
  (* the registry *)
  now,          \* the clock; starts at 1 so that FREE is no epoch
  slots,        \* slots[s]: the epoch announced there, or FREE
  unannounced,  \* how many readers are inside and in no slot
  (* each reader *)
  pc,           \* where the reader is between two atomic operations
  at,           \* the epoch the reader took
  index,        \* the slot the reader's epoch chose
  held,         \* the files the reader resolved and may still open
  (* the warehouse *)
  live,         \* the files the newest version of the log names
  fresh,        \* the names no file has had yet
  onDisk,       \* the files that exist
  (* the sweeper *)
  phase,        \* where the sweeper is between two operations
  job,          \* the merge it is working on: its inputs and its mark
  pending,      \* merges whose inputs await retirement
  cursor,       \* the slot the scan reads next
  seen          \* the announcements the scan has read

registry == << now, slots, unannounced >>
readers  == << pc, at, index, held >>
files    == << live, fresh, onDisk >>
sweeper  == << phase, job, pending, cursor, seen >>
vars     == << registry, readers, files, sweeper >>

Job == [inputs : SUBSET Files, mark : Nat]

NoJob == [inputs |-> {}, mark |-> 0]

(* A reader's states.  "announcing" is the window between taking a slot    *)
(* and giving back the blanket count; "pinned" and "uncounted" are a       *)
(* reader that has its Pin but has not resolved the table; "reading" and   *)
(* "readingUncounted" one that has.  The uncounted states are those of a   *)
(* reader whose slot was taken: Pin.announced is false.                    *)
States == { "idle", "counted", "stamped", "announcing",
            "pinned", "uncounted", "reading", "readingUncounted" }

(* The readers the blanket count stands for.                               *)
Counting == { "counted", "stamped", "announcing",
              "uncounted", "readingUncounted" }

(* The readers whose epoch is in their slot.                               *)
Announced == { "announcing", "pinned", "reading" }

(* The readers that have taken an epoch.                                   *)
Stamped == States \ { "idle", "counted" }

TypeOK ==
  /\ now \in Nat \ {0}
  /\ slots \in [Slots -> Nat]
  /\ unannounced \in Nat
  /\ pc \in [Readers -> States]
  /\ at \in [Readers -> Nat]
  /\ index \in [Readers -> Slots]
  /\ held \in [Readers -> SUBSET Files]
  /\ live \in SUBSET Files
  /\ fresh \in SUBSET Files
  /\ onDisk \in SUBSET Files
  /\ phase \in { "idle", "committed", "asking", "scanning", "retiring" }
  /\ job \in Job
  /\ pending \in SUBSET Job
  /\ cursor \in 1..(NSlots + 1)
  /\ seen \in SUBSET Nat

Init ==
  /\ now = 1
  /\ slots = [s \in Slots |-> FREE]
  /\ unannounced = 0
  /\ pc = [r \in Readers |-> "idle"]
  /\ at = [r \in Readers |-> 0]
  /\ index = [r \in Readers |-> 1]
  /\ held = [r \in Readers |-> {}]
  /\ live \in SUBSET Files
  /\ fresh = Files \ live
  /\ onDisk = live
  /\ phase = "idle"
  /\ job = NoJob
  /\ pending = {}
  /\ cursor = 1
  /\ seen = {}

-----------------------------------------------------------------------------
(* Readers: Leases::pin, the resolve of run_statement, and Pin::drop.      *)

Goto(r, from, to) ==
  /\ pc[r] = from
  /\ pc' = [pc EXCEPT ![r] = to]

(* unannounced.fetch_add: conservative from the instant the pin begins.    *)
CountIn(r) ==
  /\ now < EpochBound
  /\ Goto(r, "idle", "counted")
  /\ unannounced' = unannounced + 1
  /\ UNCHANGED << now, slots, at, index, held, files, sweeper >>

(* now.fetch_add: the reader's epoch.                                      *)
TakeEpoch(r) ==
  /\ Goto(r, "counted", "stamped")
  /\ at' = [at EXCEPT ![r] = now]
  /\ now' = now + 1
  /\ UNCHANGED << slots, unannounced, index, held, files, sweeper >>

(* Mutant: the slot is stored to rather than compared and exchanged.       *)
AnnounceByStore(r) ==
  \E s \in Slots :
    /\ index' = [index EXCEPT ![r] = s]
    /\ Goto(r, "stamped", "announcing")
    /\ slots' = [slots EXCEPT ![s] = at[r]]
    /\ UNCHANGED << now, unannounced, at, held, files, sweeper >>

(* The compare_exchange on the slot the epoch hashes to.  A slot already   *)
(* taken leaves the reader counted rather than announced.                  *)
Announce(r) ==
  \E s \in Slots :
    /\ index' = [index EXCEPT ![r] = s]
    /\ \/ /\ slots[s] = FREE
          /\ Goto(r, "stamped", "announcing")
          /\ slots' = [slots EXCEPT ![s] = at[r]]
       \/ /\ slots[s] # FREE
          /\ Goto(r, "stamped", "uncounted")
          /\ UNCHANGED slots
    /\ UNCHANGED << now, unannounced, at, held, files, sweeper >>

(* unannounced.fetch_sub: the slot now speaks for the reader.              *)
CountOut(r) ==
  /\ Goto(r, "announcing", "pinned")
  /\ unannounced' = unannounced - 1
  /\ UNCHANGED << now, slots, at, index, held, files, sweeper >>

(* The pinned statement resolves the table: it now holds the live files.   *)
Resolve(r) ==
  /\ \/ Goto(r, "pinned", "reading")
     \/ Goto(r, "uncounted", "readingUncounted")
  /\ held' = [held EXCEPT ![r] = live]
  /\ UNCHANGED << registry, at, index, files, sweeper >>

(* Mutant: every pin gives back the blanket count as it goes.              *)
DropUncounting(r) ==
  /\ Goto(r, "reading", "idle")
  /\ slots' = [slots EXCEPT ![index[r]] = FREE]
  /\ unannounced' = unannounced - 1
  /\ held' = [held EXCEPT ![r] = {}]
  /\ UNCHANGED << now, at, index, files, sweeper >>

(* Pin::drop of an announced reader, which clears the slot only if it      *)
(* still holds this reader's epoch.  A statement refused before it         *)
(* resolved anything drops its pin as well.                                *)
DropAnnounced(r) ==
  /\ \/ Goto(r, "pinned", "idle")
     \/ Goto(r, "reading", "idle")
  /\ slots' = IF slots[index[r]] = at[r]
                THEN [slots EXCEPT ![index[r]] = FREE]
                ELSE slots
  /\ held' = [held EXCEPT ![r] = {}]
  /\ UNCHANGED << now, unannounced, at, index, files, sweeper >>

(* Pin::drop of a reader that was counted.                                 *)
DropCounted(r) ==
  /\ \/ Goto(r, "uncounted", "idle")
     \/ Goto(r, "readingUncounted", "idle")
  /\ unannounced' = unannounced - 1
  /\ held' = [held EXCEPT ![r] = {}]
  /\ UNCHANGED << now, slots, at, index, files, sweeper >>

(* Mutant: the epoch is taken before the reader is counted, the swap the   *)
(* comment in Leases::pin warns of.                                        *)
EpochFirst(r) ==
  \/ /\ now < EpochBound
     /\ Goto(r, "idle", "counted")
     /\ at' = [at EXCEPT ![r] = now]
     /\ now' = now + 1
     /\ UNCHANGED << slots, unannounced, index, held, files, sweeper >>
  \/ /\ Goto(r, "counted", "stamped")
     /\ unannounced' = unannounced + 1
     /\ UNCHANGED << now, slots, at, index, held, files, sweeper >>
  \/ Announce(r)
  \/ CountOut(r)
  \/ Resolve(r)
  \/ DropAnnounced(r)
  \/ DropCounted(r)

(* Everything a reader does between calling pin and dropping what it got.  *)
Reader(r) ==
  \/ CountIn(r)
  \/ TakeEpoch(r)
  \/ Announce(r)
  \/ CountOut(r)
  \/ Resolve(r)
  \/ DropAnnounced(r)
  \/ DropCounted(r)

-----------------------------------------------------------------------------
(* The sweeper: the part of Maintainer::tick that merges, marks, asks and  *)
(* retires.                                                                *)

(* commit_tick: one version that adds the output and removes the inputs.   *)
Merge ==
  /\ phase = "idle"
  /\ now < EpochBound
  /\ \E inputs \in SUBSET live \ {{}}, output \in fresh :
       /\ live' = (live \ inputs) \cup {output}
       /\ fresh' = fresh \ {output}
       /\ onDisk' = onDisk \cup {output}
       /\ job' = [inputs |-> inputs, mark |-> 0]
  /\ phase' = "committed"
  /\ UNCHANGED << registry, readers, pending, cursor, seen >>

(* Leases::mark, after the commit, and the push onto the queue.            *)
Mark ==
  /\ phase = "committed"
  /\ pending' = pending \cup { [job EXCEPT !.mark = now] }
  /\ now' = now + 1
  /\ phase' = "idle"
  /\ job' = NoJob
  /\ UNCHANGED << slots, unannounced, readers, files, cursor, seen >>

(* retire_due takes up one queued merge.                                   *)
TakeUp ==
  /\ phase = "idle"
  /\ job' \in pending
  /\ phase' = "asking"
  /\ UNCHANGED << registry, readers, files, pending, cursor, seen >>

(* Mutant: the slots alone are asked, not the blanket count.               *)
ScanAtOnce ==
  /\ phase = "asking"
  /\ phase' = "scanning"
  /\ cursor' = 1
  /\ seen' = {}
  /\ UNCHANGED << registry, readers, files, job, pending >>

(* oldest_active reads the blanket count first.  Above zero it reports the *)
(* earliest epoch there is, and the merge goes on waiting.                 *)
LoadCount ==
  /\ phase = "asking"
  /\ \/ /\ unannounced > 0
        /\ phase' = "idle"
        /\ job' = NoJob
        /\ UNCHANGED << cursor, seen >>
     \/ /\ unannounced = 0
        /\ phase' = "scanning"
        /\ cursor' = 1
        /\ seen' = {}
        /\ UNCHANGED job
  /\ UNCHANGED << registry, readers, files, pending >>

(* ... then every slot, one load at a time.                                *)
LoadSlot ==
  /\ phase = "scanning"
  /\ cursor <= NSlots
  /\ seen' = seen \cup ({slots[cursor]} \ {FREE})
  /\ cursor' = cursor + 1
  /\ UNCHANGED << registry, readers, files, phase, job, pending >>

(* drained: nothing announced is older than the mark.                      *)
Drained == \A epoch \in seen : epoch >= job.mark

Decide ==
  /\ phase = "scanning"
  /\ cursor > NSlots
  /\ \/ /\ Drained
        /\ phase' = "retiring"
        /\ UNCHANGED job
     \/ /\ ~Drained
        /\ phase' = "idle"
        /\ job' = NoJob
  /\ UNCHANGED << registry, readers, files, pending, cursor, seen >>

(* retire_inputs removes the files.                                        *)
Retire ==
  /\ phase = "retiring"
  /\ onDisk' = onDisk \ job.inputs
  /\ pending' = pending \ {job}
  /\ phase' = "idle"
  /\ job' = NoJob
  /\ UNCHANGED << registry, readers, live, fresh, cursor, seen >>

(* Mutant: the mark is taken before the commit it is the deadline of.      *)
MarkFirst ==
  \/ /\ phase = "idle"
     /\ now < EpochBound
     /\ job' = [inputs |-> {}, mark |-> now]
     /\ now' = now + 1
     /\ phase' = "committed"
     /\ UNCHANGED << slots, unannounced, readers, files, pending, cursor, seen >>
  \/ /\ phase = "committed"
     /\ \E inputs \in SUBSET live \ {{}}, output \in fresh :
          /\ live' = (live \ inputs) \cup {output}
          /\ fresh' = fresh \ {output}
          /\ onDisk' = onDisk \cup {output}
          /\ pending' = pending \cup { [job EXCEPT !.inputs = inputs] }
     /\ job' = NoJob
     /\ phase' = "idle"
     /\ UNCHANGED << registry, readers, cursor, seen >>
  \/ TakeUp
  \/ LoadCount
  \/ LoadSlot
  \/ Decide
  \/ Retire

(* The maintenance thread, one table at a time.                            *)
Sweeper ==
  \/ Merge
  \/ Mark
  \/ TakeUp
  \/ LoadCount
  \/ LoadSlot
  \/ Decide
  \/ Retire

Next ==
  \/ \E r \in Readers : Reader(r)
  \/ Sweeper

Spec == Init /\ [][Next]_vars

-----------------------------------------------------------------------------
(* No file is deleted while a reader that resolved it may still open it,   *)
(* and none the table consists of: ADR-0013 S3, through the registry.      *)
NothingVanishes ==
  /\ live \subseteq onDisk
  /\ \A r \in Readers : held[r] \subseteq onDisk

(* At the moment the sweeper has been told yes, no reader that took its    *)
(* epoch before the mark is inside: what Leases::drained promises its      *)
(* caller, whatever the caller does with the answer.                       *)
DrainedMeansGone ==
  phase = "retiring" =>
    \A r \in Readers : pc[r] \in Stamped => at[r] >= job.mark

(* Every announced reader is in its slot, and the blanket count is exactly *)
(* the readers no slot speaks for: a drop never clears another reader's    *)
(* announcement and no reader is ever accounted for nowhere.               *)
EveryReaderAccountedFor ==
  /\ \A r \in Readers : pc[r] \in Announced => slots[index[r]] = at[r]
  /\ unannounced = Cardinality({ r \in Readers : pc[r] \in Counting })

(* Reclamation through the registry implements reclamation as promised: a  *)
(* reader resolves, a merge replaces, and every deletion is of files that  *)
(* are neither live nor held.                                              *)
Promise == INSTANCE SafeReclamation
ImplementsPromise == Promise!Spec

=============================================================================
