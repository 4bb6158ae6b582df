---------------------------- MODULE LeasesProofs ----------------------------
(***************************************************************************)
(* Leases for any number of readers, files and slots: the registry never   *)
(* answers yes too early, so no file is deleted while it is read.          *)
(*                                                                         *)
(* The argument.  A reader that holds a file of a queued merge took its    *)
(* epoch before the merge's mark (HoldersAreOlder): after the merge the    *)
(* log no longer names the file.  A scan that started with the blanket     *)
(* count at zero sees every such reader, because each is in a slot the     *)
(* scan has not reached yet or has already read (ScanMissesNobody).        *)
(***************************************************************************)
EXTENDS Leases, TLAPS, FiniteSetTheorems

-----------------------------------------------------------------------------
(* The inductive invariant.                                                *)

Counters == { r \in Readers : pc[r] \in Counting }

(* Epochs are taken from the clock and taken once.                         *)
Epochs ==
  /\ \A r \in Readers : pc[r] \in Stamped => at[r] # FREE /\ at[r] < now
  /\ \A r, q \in Readers :
       pc[r] \in Stamped /\ pc[q] \in Stamped /\ at[r] = at[q] => r = q

(* The files a reader holds, the live ones and the unused names.           *)
FilesApart ==
  /\ \A r \in Readers : held[r] # {} => pc[r] \in {"reading", "readingUncounted"}
  /\ \A r \in Readers : held[r] \cap fresh = {}
  /\ live \cap fresh = {}
  /\ onDisk \cap fresh = {}

(* What a merge took out of the log stays out of it.                       *)
JobsApart ==
  /\ \A p \in pending : p.mark < now /\ p.inputs \cap (live \cup fresh) = {}
  /\ phase = "committed" => job.inputs \cap (live \cup fresh) = {}
  /\ phase \in {"asking", "scanning", "retiring"} => job \in pending

HoldersAreOlder ==
  \A p \in pending, r \in Readers :
    held[r] \cap p.inputs # {} => at[r] < p.mark

ScanMissesNobody ==
  phase = "scanning" =>
    \A r \in Readers :
      pc[r] \in Stamped /\ at[r] < job.mark =>
        /\ pc[r] \in Announced
        /\ index[r] >= cursor \/ at[r] \in seen

IInv ==
  /\ TypeOK
  /\ Epochs
  /\ FilesApart
  /\ JobsApart
  /\ HoldersAreOlder
  /\ ScanMissesNobody
  /\ NothingVanishes
  /\ DrainedMeansGone
  /\ EveryReaderAccountedFor

-----------------------------------------------------------------------------
(* How one reader's step changes the number of counted readers.            *)

LEMMA CountersFinite == IsFiniteSet(Counters)
  BY ReadersAssumption, FS_Subset DEF Counters

LEMMA OneReaderMoves ==
  ASSUME NEW r \in Readers, NEW to,
         pc \in [Readers -> States],
         pc' = [pc EXCEPT ![r] = to]
  PROVE  /\ pc[r] \notin Counting /\ to \in Counting =>
              Cardinality(Counters') = Cardinality(Counters) + 1
         /\ pc[r] \in Counting /\ to \notin Counting =>
              Cardinality(Counters') = Cardinality(Counters) - 1
         /\ (pc[r] \in Counting <=> to \in Counting) => Counters' = Counters
<1>1. CASE pc[r] \notin Counting /\ to \in Counting
  <2>1. Counters' = Counters \cup {r} /\ r \notin Counters
    BY <1>1 DEF Counters
  <2> QED
    BY <1>1, <2>1, CountersFinite, FS_AddElement
<1>2. CASE pc[r] \in Counting /\ to \notin Counting
  <2>1. Counters' = Counters \ {r} /\ r \in Counters
    BY <1>2 DEF Counters
  <2> QED
    BY <1>2, <2>1, CountersFinite, FS_RemoveElement
<1>3. CASE pc[r] \in Counting <=> to \in Counting
  BY <1>3 DEF Counters
<1> QED
  BY <1>1, <1>2, <1>3

(* A blanket count of zero means that no reader is counted.                *)
LEMMA ZeroCountsNobody ==
  ASSUME EveryReaderAccountedFor, unannounced = 0
  PROVE  \A r \in Readers : pc[r] \notin Counting
<1>1. Counters = {}
  BY CountersFinite, FS_EmptySet DEF EveryReaderAccountedFor, Counters
<1> QED
  BY <1>1 DEF Counters

-----------------------------------------------------------------------------
(* The invariant is inductive.                                             *)

LEMMA Initially == Init => IInv
<1> SUFFICES ASSUME Init PROVE IInv
  OBVIOUS
<1> USE NSlotsAssumption DEF Init
<1>1. TypeOK
  BY DEF TypeOK, Slots, States, FREE, Job, NoJob
<1>2. Epochs /\ FilesApart /\ JobsApart /\ HoldersAreOlder /\ ScanMissesNobody
  BY DEF Epochs, Stamped, States, FilesApart, JobsApart, HoldersAreOlder,
         ScanMissesNobody
<1>3. NothingVanishes /\ DrainedMeansGone
  BY DEF NothingVanishes, DrainedMeansGone
<1>4. EveryReaderAccountedFor
  <2>1. Counters = {}
    BY DEF Counters, Counting
  <2> QED
    BY <2>1, FS_EmptySet DEF EveryReaderAccountedFor, Counters, Announced
<1> QED
  BY <1>1, <1>2, <1>3, <1>4 DEF IInv

LEMMA TypesKept == IInv /\ [Next]_vars => TypeOK'
<1> SUFFICES ASSUME TypeOK, EveryReaderAccountedFor, [Next]_vars
             PROVE  TypeOK'
  BY DEF IInv
<1> USE NSlotsAssumption DEF TypeOK, FREE, Job, NoJob
<1>1. ASSUME NEW r \in Readers, CountIn(r) PROVE TypeOK'
  BY <1>1 DEF CountIn, Goto, States, files, sweeper
<1>2. ASSUME NEW r \in Readers, TakeEpoch(r) PROVE TypeOK'
  BY <1>2 DEF TakeEpoch, Goto, States, files, sweeper
<1>3. ASSUME NEW r \in Readers, Announce(r) PROVE TypeOK'
  BY <1>3 DEF Announce, Goto, States, files, sweeper
<1>4. ASSUME NEW r \in Readers, CountOut(r) PROVE TypeOK'
  <2>1. unannounced - 1 \in Nat
    <3>1. pc[r] \in Counting
      BY <1>4 DEF CountOut, Goto, Counting
    <3> QED
      BY <3>1, ZeroCountsNobody
  <2> QED
    BY <1>4, <2>1 DEF CountOut, Goto, States, files, sweeper
<1>12. ASSUME NEW r \in Readers, DropCounted(r) PROVE TypeOK'
  <2>1. unannounced - 1 \in Nat
    <3>1. pc[r] \in Counting
      BY <1>12 DEF DropCounted, Goto, Counting
    <3> QED
      BY <3>1, ZeroCountsNobody
  <2> QED
    BY <1>12, <2>1 DEF DropCounted, Goto, States, files, sweeper
<1>5. ASSUME NEW r \in Readers, Resolve(r) PROVE TypeOK'
  BY <1>5 DEF Resolve, Goto, States, files, sweeper, registry
<1>6. ASSUME NEW r \in Readers, DropAnnounced(r) PROVE TypeOK'
  BY <1>6 DEF DropAnnounced, Goto, States, files, sweeper
<1>7. CASE Merge
  BY <1>7 DEF Merge, registry, readers
<1>8. CASE Mark
  BY <1>8 DEF Mark, readers, files
<1>9. CASE TakeUp
  BY <1>9 DEF TakeUp, registry, readers, files
<1>13. CASE LoadCount
  <2>1. cursor' \in 1..(NSlots + 1) /\ seen' \in SUBSET Nat
    <3>1. CASE cursor' = 1 /\ seen' = {}
      BY <3>1
    <3>2. CASE UNCHANGED << cursor, seen >>
      BY <3>2
    <3> QED
      BY <1>13, <3>1, <3>2 DEF LoadCount
  <2>2. phase' \in {"idle", "committed", "asking", "scanning", "retiring"}
    BY <1>13 DEF LoadCount
  <2>3. job' \in Job
    BY <1>13 DEF LoadCount
  <2> QED
    BY <1>13, <2>1, <2>2, <2>3 DEF LoadCount, registry, readers, files
<1>14. CASE Decide
  BY <1>14 DEF Decide, registry, readers, files
<1>15. CASE Retire
  BY <1>15 DEF Retire, registry, readers
<1>10. CASE LoadSlot
  <2>1. cursor \in Slots /\ cursor + 1 \in 1..(NSlots + 1)
    BY <1>10 DEF LoadSlot, Slots
  <2>2. seen' \in SUBSET Nat
    BY <1>10, <2>1 DEF LoadSlot
  <2> QED
    BY <1>10, <2>1, <2>2 DEF LoadSlot, registry, readers, files
<1>11. CASE UNCHANGED vars
  BY <1>11 DEF vars, registry, readers, files, sweeper
<1> QED
  BY <1>1, <1>2, <1>3, <1>4, <1>5, <1>6, <1>7, <1>8, <1>9, <1>10, <1>11,
     <1>12, <1>13, <1>14, <1>15 DEF Next, Reader, Sweeper

(* Only taking an epoch and passing the clock on touch the epochs.         *)
LEMMA EpochsKept == IInv /\ [Next]_vars => Epochs'
<1> SUFFICES ASSUME TypeOK, Epochs, [Next]_vars PROVE Epochs'
  BY DEF IInv
<1> USE DEF TypeOK, Epochs, Stamped, States, FREE
<1>1. ASSUME NEW r \in Readers, TakeEpoch(r) PROVE Epochs'
  <2>1. /\ pc[r] \notin Stamped
        /\ \A q \in Readers : q # r => pc'[q] = pc[q] /\ at'[q] = at[q]
        /\ at'[r] = now /\ now' = now + 1
    BY <1>1 DEF TakeEpoch, Goto
  <2> QED
    BY <2>1
<1>2. ASSUME NEW r \in Readers,
             CountIn(r) \/ Announce(r) \/ CountOut(r) \/ Resolve(r)
               \/ DropAnnounced(r) \/ DropCounted(r)
      PROVE  Epochs'
  <2>1. UNCHANGED << now, at >>
    BY <1>2 DEF CountIn, Announce, CountOut, Resolve, DropAnnounced,
                DropCounted, registry
  <2>2. \A q \in Readers : pc'[q] \in Stamped => pc[q] \in Stamped
    BY <1>2 DEF CountIn, Announce, CountOut, Resolve, DropAnnounced,
                DropCounted, Goto
  <2> QED
    BY <2>1, <2>2
<1>3. CASE Mark
  BY <1>3 DEF Mark, readers
<1>4. CASE Merge \/ TakeUp \/ LoadCount \/ LoadSlot \/ Decide \/ Retire
  BY <1>4 DEF Merge, TakeUp, LoadCount, LoadSlot, Decide, Retire, registry, readers
<1>5. CASE UNCHANGED vars
  BY <1>5 DEF vars, registry, readers
<1> QED
  BY <1>1, <1>2, <1>3, <1>4, <1>5 DEF Next, Reader, Sweeper

(* A reader holds files only while it reads, and never an unused name.     *)
LEMMA FilesApartKept == IInv /\ [Next]_vars => FilesApart'
<1> SUFFICES ASSUME TypeOK, FilesApart, [Next]_vars PROVE FilesApart'
  BY DEF IInv
<1> USE DEF TypeOK, FilesApart
<1>1. ASSUME NEW r \in Readers, Resolve(r) PROVE FilesApart'
  BY <1>1 DEF Resolve, Goto, files
<1>2. ASSUME NEW r \in Readers, DropAnnounced(r) \/ DropCounted(r)
      PROVE  FilesApart'
  BY <1>2 DEF DropAnnounced, DropCounted, Goto, files
<1>3. ASSUME NEW r \in Readers,
             CountIn(r) \/ TakeEpoch(r) \/ Announce(r) \/ CountOut(r)
      PROVE  FilesApart'
  BY <1>3 DEF CountIn, TakeEpoch, Announce, CountOut, Goto, files
<1>4. CASE Merge
  BY <1>4 DEF Merge, readers
<1>5. CASE Retire
  BY <1>5 DEF Retire, readers
<1>6. CASE Mark \/ TakeUp \/ LoadCount \/ LoadSlot \/ Decide
  BY <1>6 DEF Mark, TakeUp, LoadCount, LoadSlot, Decide, readers, files
<1>7. CASE UNCHANGED vars
  BY <1>7 DEF vars, readers, files
<1> QED
  BY <1>1, <1>2, <1>3, <1>4, <1>5, <1>6, <1>7 DEF Next, Reader, Sweeper

(* No later merge brings back a file an earlier one took out.              *)
LEMMA JobsApartKept == IInv /\ [Next]_vars => JobsApart'
<1> SUFFICES ASSUME TypeOK, FilesApart, JobsApart, [Next]_vars PROVE JobsApart'
  BY DEF IInv
<1> USE DEF TypeOK, FilesApart, JobsApart
<1>1. ASSUME NEW r \in Readers, Reader(r) PROVE JobsApart'
  <2>1. now' \in Nat /\ now' >= now /\ UNCHANGED << files, sweeper >>
    BY <1>1 DEF Reader, CountIn, TakeEpoch, Announce, CountOut, Resolve,
                DropAnnounced, DropCounted, registry
  <2>2. UNCHANGED << live, fresh, pending, phase, job >>
    BY <2>1 DEF files, sweeper
  <2>3. \A p \in pending : p.mark \in Nat
    BY DEF Job
  <2> QED
    BY <2>1, <2>2, <2>3
<1>2. CASE Merge
  <2>1. live' \cup fresh' \subseteq live \cup fresh
    BY <1>2 DEF Merge
  <2>2. job'.inputs \cap (live' \cup fresh') = {}
    BY <1>2 DEF Merge
  <2> QED
    BY <1>2, <2>1, <2>2 DEF Merge, registry
<1>3. CASE Mark
  <2> DEFINE marked == [job EXCEPT !.mark = now]
  <2>1. marked.inputs = job.inputs /\ marked.mark = now
    BY DEF Job
  <2>2. \A p \in pending' : p \in pending \/ p = marked
    BY <1>3 DEF Mark
  <2>3. now' = now + 1 /\ phase' = "idle" /\ UNCHANGED << live, fresh >>
    BY <1>3 DEF Mark, files
  <2>4. \A p \in pending : p.mark \in Nat
    BY DEF Job
  <2>5. phase = "committed"
    BY <1>3 DEF Mark
  <2> HIDE DEF marked
  <2> QED
    BY <2>1, <2>2, <2>3, <2>4, <2>5
<1>4. CASE TakeUp \/ LoadCount \/ LoadSlot \/ Decide
  BY <1>4 DEF TakeUp, LoadCount, LoadSlot, Decide, registry, files
<1>5. CASE Retire
  BY <1>5 DEF Retire, registry
<1>6. CASE UNCHANGED vars
  BY <1>6 DEF vars, registry, files, sweeper
<1> QED
  BY <1>1, <1>2, <1>3, <1>4, <1>5, <1>6 DEF Next, Sweeper

(* A reader resolves only live files, which no queued merge took out; a    *)
(* merge is marked with an epoch no reader inside has reached.             *)
LEMMA HoldersAreOlderKept == IInv /\ [Next]_vars => HoldersAreOlder'
<1> SUFFICES ASSUME TypeOK, Epochs, FilesApart, JobsApart, HoldersAreOlder,
                    [Next]_vars
             PROVE  HoldersAreOlder'
  BY DEF IInv
<1> USE DEF TypeOK, HoldersAreOlder
<1>1. ASSUME NEW r \in Readers, Resolve(r) PROVE HoldersAreOlder'
  <2>1. \A p \in pending : live \cap p.inputs = {}
    BY DEF JobsApart
  <2> QED
    BY <1>1, <2>1 DEF Resolve, sweeper
<1>2. ASSUME NEW r \in Readers, DropAnnounced(r) \/ DropCounted(r)
      PROVE  HoldersAreOlder'
  BY <1>2 DEF DropAnnounced, DropCounted, sweeper
<1>3. ASSUME NEW r \in Readers, TakeEpoch(r) PROVE HoldersAreOlder'
  <2>1. held[r] = {}
    BY <1>3 DEF TakeEpoch, Goto, FilesApart
  <2> QED
    BY <1>3, <2>1 DEF TakeEpoch, sweeper
<1>4. ASSUME NEW r \in Readers, CountIn(r) \/ Announce(r) \/ CountOut(r)
      PROVE  HoldersAreOlder'
  BY <1>4 DEF CountIn, Announce, CountOut, sweeper
<1>5. CASE Mark
  <2> DEFINE marked == [job EXCEPT !.mark = now]
  <2>1. marked.mark = now
    BY DEF Job
  <2>2. \A p \in pending' : p \in pending \/ p = marked
    BY <1>5 DEF Mark
  <2>3. \A r \in Readers : held[r] # {} => at[r] < now
    BY DEF FilesApart, Epochs, Stamped, States
  <2> HIDE DEF marked
  <2> QED
    BY <1>5, <2>1, <2>2, <2>3 DEF Mark, readers
<1>6. CASE Merge \/ TakeUp \/ LoadCount \/ LoadSlot \/ Decide
  BY <1>6 DEF Merge, TakeUp, LoadCount, LoadSlot, Decide, readers
<1>7. CASE Retire
  BY <1>7 DEF Retire, readers
<1>8. CASE UNCHANGED vars
  BY <1>8 DEF vars, readers, sweeper
<1> QED
  BY <1>1, <1>2, <1>3, <1>4, <1>5, <1>6, <1>7, <1>8 DEF Next, Reader, Sweeper

(* A scan starts with every older reader in a slot, and reads each slot    *)
(* while the reader in it is still there.                                  *)
LEMMA ScanMissesNobodyKept == IInv /\ [Next]_vars => ScanMissesNobody'
<1> SUFFICES ASSUME TypeOK, Epochs, JobsApart, ScanMissesNobody,
                    EveryReaderAccountedFor, [Next]_vars
             PROVE  ScanMissesNobody'
  BY DEF IInv
<1> USE DEF TypeOK, ScanMissesNobody
<1>1. ASSUME NEW r \in Readers, TakeEpoch(r) PROVE ScanMissesNobody'
  <2>1. UNCHANGED << phase, job, cursor, seen, index >>
    BY <1>1 DEF TakeEpoch, sweeper
  <2>2. phase = "scanning" => ~(at'[r] < job.mark)
    BY <1>1 DEF TakeEpoch, JobsApart, Job
  <2>3. \A q \in Readers : q # r => pc'[q] = pc[q] /\ at'[q] = at[q]
    BY <1>1 DEF TakeEpoch, Goto
  <2> QED
    BY <2>1, <2>2, <2>3
<1>2. ASSUME NEW r \in Readers, Announce(r) PROVE ScanMissesNobody'
  <2>1. UNCHANGED << phase, job, cursor, seen, at >>
    BY <1>2 DEF Announce, sweeper
  <2>2. pc[r] \in Stamped \ Announced
    BY <1>2 DEF Announce, Goto, Stamped, States, Announced
  <2>3. \A q \in Readers : q # r => pc'[q] = pc[q] /\ index'[q] = index[q]
    BY <1>2 DEF Announce, Goto
  <2> QED
    BY <2>1, <2>2, <2>3
<1>3. ASSUME NEW r \in Readers,
             CountIn(r) \/ CountOut(r) \/ Resolve(r) \/ DropAnnounced(r)
               \/ DropCounted(r)
      PROVE  ScanMissesNobody'
  <2>1. UNCHANGED << phase, job, cursor, seen, at, index >>
    BY <1>3 DEF CountIn, CountOut, Resolve, DropAnnounced, DropCounted, sweeper
  <2>2. \A q \in Readers :
          pc'[q] \in Stamped =>
            pc[q] \in Stamped /\ (pc[q] \in Announced => pc'[q] \in Announced)
    BY <1>3 DEF CountIn, CountOut, Resolve, DropAnnounced, DropCounted, Goto,
                Stamped, States, Announced
  <2> QED
    BY <2>1, <2>2
<1>4. CASE LoadCount
  <2>1. CASE phase' = "scanning"
    <3>1. \A r \in Readers : pc[r] \notin Counting
      BY <1>4, <2>1, ZeroCountsNobody DEF LoadCount
    <3>2. \A r \in Readers : pc[r] \in Stamped => pc[r] \in Announced
      BY <3>1 DEF Stamped, States, Announced, Counting
    <3>3. cursor' = 1 /\ UNCHANGED << pc, index >>
      BY <1>4, <2>1 DEF LoadCount, readers
    <3>4. \A r \in Readers : index[r] >= 1
      BY DEF Slots
    <3> QED
      BY <3>2, <3>3, <3>4
  <2> QED
    BY <1>4, <2>1
<1>5. CASE LoadSlot
  <2>1. UNCHANGED << phase, job, pc, at, index >> /\ cursor' = cursor + 1
    BY <1>5 DEF LoadSlot, readers
  <2>2. ASSUME NEW r \in Readers,
               pc[r] \in Stamped, at[r] < job.mark
        PROVE  pc[r] \in Announced /\ (index[r] >= cursor' \/ at[r] \in seen')
    <3>1. pc[r] \in Announced /\ (index[r] >= cursor \/ at[r] \in seen)
      BY <1>5, <2>2 DEF LoadSlot
    <3>2. CASE index[r] = cursor
      <4>1. slots[cursor] = at[r] /\ at[r] # FREE
        BY <3>1, <3>2, <2>2 DEF EveryReaderAccountedFor, Epochs
      <4> QED
        BY <1>5, <3>1, <4>1 DEF LoadSlot
    <3>3. CASE index[r] # cursor
      BY <1>5, <3>1, <3>3, <2>1 DEF LoadSlot, Slots
    <3> QED
      BY <3>2, <3>3
  <2> QED
    BY <2>1, <2>2
<1>6. CASE Merge \/ Mark \/ TakeUp \/ Decide \/ Retire
  BY <1>6 DEF Merge, Mark, TakeUp, Decide, Retire
<1>7. CASE UNCHANGED vars
  BY <1>7 DEF vars, readers, sweeper
<1> QED
  BY <1>1, <1>2, <1>3, <1>4, <1>5, <1>6, <1>7 DEF Next, Reader, Sweeper

(* When the last slot has been read, every older reader has been seen.     *)
LEMMA DrainedMeansGoneKept == IInv /\ [Next]_vars => DrainedMeansGone'
<1> SUFFICES ASSUME TypeOK, Epochs, JobsApart, ScanMissesNobody,
                    DrainedMeansGone, [Next]_vars
             PROVE  DrainedMeansGone'
  BY DEF IInv
<1> USE DEF TypeOK, DrainedMeansGone
<1>1. ASSUME NEW r \in Readers, TakeEpoch(r) PROVE DrainedMeansGone'
  <2>1. UNCHANGED << phase, job >>
    BY <1>1 DEF TakeEpoch, sweeper
  <2>2. phase = "retiring" => at'[r] >= job.mark
    BY <1>1 DEF TakeEpoch, JobsApart, Job
  <2>3. \A q \in Readers : q # r => pc'[q] = pc[q] /\ at'[q] = at[q]
    BY <1>1 DEF TakeEpoch, Goto
  <2> QED
    BY <2>1, <2>2, <2>3
<1>2. ASSUME NEW r \in Readers,
             CountIn(r) \/ Announce(r) \/ CountOut(r) \/ Resolve(r)
               \/ DropAnnounced(r) \/ DropCounted(r)
      PROVE  DrainedMeansGone'
  <2>1. UNCHANGED << phase, job, at >>
    BY <1>2 DEF CountIn, Announce, CountOut, Resolve, DropAnnounced,
                DropCounted, sweeper
  <2>2. \A q \in Readers : pc'[q] \in Stamped => pc[q] \in Stamped
    BY <1>2 DEF CountIn, Announce, CountOut, Resolve, DropAnnounced,
                DropCounted, Goto, Stamped, States
  <2> QED
    BY <2>1, <2>2
<1>3. CASE Decide
  <2>1. CASE phase' = "retiring"
    <3>1. cursor > NSlots /\ Drained /\ phase = "scanning"
      BY <1>3, <2>1 DEF Decide
    <3>2. \A r \in Readers : ~(index[r] >= cursor)
      BY <3>1, NSlotsAssumption DEF Slots
    <3>3. job.mark \in Nat
      BY DEF Job
    <3>4. \A r \in Readers : pc[r] \in Stamped => at[r] >= job.mark
      BY <3>1, <3>2, <3>3 DEF ScanMissesNobody, Drained
    <3> QED
      BY <1>3, <2>1, <3>4 DEF Decide, readers
  <2> QED
    BY <2>1
<1>4. CASE Merge \/ Mark \/ TakeUp \/ LoadCount \/ LoadSlot \/ Retire
  BY <1>4 DEF Merge, Mark, TakeUp, LoadCount, LoadSlot, Retire
<1>5. CASE UNCHANGED vars
  BY <1>5 DEF vars, readers, sweeper
<1> QED
  BY <1>1, <1>2, <1>3, <1>4, <1>5 DEF Next, Reader, Sweeper

(* Announced readers have epochs of their own, so a drop clears no slot    *)
(* but its own.                                                            *)
LEMMA EveryReaderAccountedForKept ==
  IInv /\ [Next]_vars => EveryReaderAccountedFor'
<1> SUFFICES ASSUME TypeOK, Epochs, EveryReaderAccountedFor, [Next]_vars
             PROVE  EveryReaderAccountedFor'
  BY DEF IInv
<1> DEFINE InItsSlot == \A r \in Readers :
                          pc[r] \in Announced => slots[index[r]] = at[r]
<1>a. unannounced = Cardinality(Counters) /\ InItsSlot
  BY DEF EveryReaderAccountedFor, Counters
<1>b. ASSUME unannounced' = Cardinality(Counters') /\ InItsSlot'
      PROVE  EveryReaderAccountedFor'
  BY <1>b DEF EveryReaderAccountedFor, Counters
<1>c. Cardinality(Counters) \in Nat
  BY CountersFinite, FS_CardinalityType
<1> USE DEF TypeOK, Goto
<1>1. ASSUME NEW r \in Readers, CountIn(r) PROVE EveryReaderAccountedFor'
  <2>1. unannounced' = Cardinality(Counters')
    BY <1>1, <1>a, OneReaderMoves DEF CountIn, Counting
  <2>2. InItsSlot'
    BY <1>1, <1>a DEF CountIn, Announced
  <2> QED
    BY <2>1, <2>2, <1>b
<1>2. ASSUME NEW r \in Readers, TakeEpoch(r) PROVE EveryReaderAccountedFor'
  <2>1. unannounced' = Cardinality(Counters')
    BY <1>2, <1>a, OneReaderMoves DEF TakeEpoch, Counting
  <2>2. InItsSlot'
    BY <1>2, <1>a DEF TakeEpoch, Announced
  <2> QED
    BY <2>1, <2>2, <1>b
<1>3. ASSUME NEW r \in Readers, Announce(r) PROVE EveryReaderAccountedFor'
  <2>1. Counters' = Counters /\ unannounced' = unannounced
    <3>1. pc[r] = "stamped" /\ (pc' = [pc EXCEPT ![r] = "announcing"]
                                \/ pc' = [pc EXCEPT ![r] = "uncounted"])
      BY <1>3 DEF Announce
    <3> QED
      BY <1>3, <3>1, OneReaderMoves DEF Announce, Counting
  <2>2. InItsSlot'
    <3>1. PICK s \in Slots :
            /\ index' = [index EXCEPT ![r] = s]
            /\ \/ /\ slots[s] = FREE
                  /\ slots' = [slots EXCEPT ![s] = at[r]]
                  /\ pc' = [pc EXCEPT ![r] = "announcing"]
               \/ /\ slots' = slots
                  /\ pc' = [pc EXCEPT ![r] = "uncounted"]
            /\ at' = at
      BY <1>3 DEF Announce
    <3>2. \A q \in Readers : pc[q] \in Announced => at[q] # FREE
      BY DEF Epochs, Announced, Stamped, States
    <3> QED
      BY <3>1, <3>2, <1>a DEF Announced
  <2> QED
    BY <2>1, <2>2, <1>a, <1>b
<1>4. ASSUME NEW r \in Readers, CountOut(r) PROVE EveryReaderAccountedFor'
  <2>0. /\ pc' = [pc EXCEPT ![r] = "pinned"]
        /\ pc[r] \in Counting /\ "pinned" \notin Counting
    BY <1>4 DEF CountOut, Counting
  <2>1. unannounced' = Cardinality(Counters')
    <3>1. Cardinality(Counters') = Cardinality(Counters) - 1
      BY <2>0, OneReaderMoves
    <3> QED
      BY <1>4, <3>1, <1>a DEF CountOut
  <2>2. InItsSlot'
    BY <1>4, <1>a DEF CountOut, Announced
  <2> QED
    BY <2>1, <2>2, <1>b
<1>5. ASSUME NEW r \in Readers, Resolve(r) PROVE EveryReaderAccountedFor'
  <2>1. CASE pc[r] = "pinned" /\ pc' = [pc EXCEPT ![r] = "reading"]
    <3>0. pc[r] \in Counting <=> "reading" \in Counting
      BY <2>1 DEF Counting
    <3>1. Counters' = Counters
      BY <2>1, <3>0, OneReaderMoves
    <3>2. InItsSlot'
      BY <1>5, <2>1, <1>a DEF Resolve, registry, Announced
    <3> QED
      BY <1>5, <3>1, <3>2, <1>a, <1>b DEF Resolve, registry
  <2>2. CASE pc[r] = "uncounted" /\ pc' = [pc EXCEPT ![r] = "readingUncounted"]
    <3>0. pc[r] \in Counting <=> "readingUncounted" \in Counting
      BY <2>2 DEF Counting
    <3>1. Counters' = Counters
      BY <2>2, <3>0, OneReaderMoves
    <3>2. InItsSlot'
      BY <1>5, <2>2, <1>a DEF Resolve, registry, Announced
    <3> QED
      BY <1>5, <3>1, <3>2, <1>a, <1>b DEF Resolve, registry
  <2> QED
    BY <1>5, <2>1, <2>2 DEF Resolve
<1>6. ASSUME NEW r \in Readers, DropAnnounced(r) PROVE EveryReaderAccountedFor'
  <2>1. /\ pc[r] \in Announced
        /\ pc' = [pc EXCEPT ![r] = "idle"]
        /\ pc[r] \notin Counting /\ "idle" \notin Counting
    BY <1>6 DEF DropAnnounced, Announced, Counting
  <2>2. Counters' = Counters
    BY <2>1, OneReaderMoves
  <2>3. InItsSlot'
    <3>1. \A q \in Readers :
            q # r /\ pc[q] \in Announced => index[q] # index[r]
      <4>1. \A q \in Readers : pc[q] \in Announced => pc[q] \in Stamped
        BY DEF Announced, Stamped, States
      <4> QED
        BY <4>1, <2>1, <1>a DEF Epochs
    <3>2. UNCHANGED << at, index >>
      BY <1>6 DEF DropAnnounced
    <3>3. \A q \in Readers :
            pc'[q] \in Announced => q # r /\ pc[q] \in Announced
      BY <2>1 DEF Announced
    <3>4. \A s \in Slots : s # index[r] => slots'[s] = slots[s]
      BY <1>6 DEF DropAnnounced
    <3> QED
      BY <3>1, <3>2, <3>3, <3>4, <1>a
  <2> QED
    BY <1>6, <2>2, <2>3, <1>a, <1>b DEF DropAnnounced
<1>7. ASSUME NEW r \in Readers, DropCounted(r) PROVE EveryReaderAccountedFor'
  <2>1. pc[r] \in Counting /\ pc' = [pc EXCEPT ![r] = "idle"]
    BY <1>7 DEF DropCounted, Counting
  <2>2. unannounced' = Cardinality(Counters')
    <3>1. "idle" \notin Counting
      BY DEF Counting
    <3>2. Cardinality(Counters') = Cardinality(Counters) - 1
      BY <2>1, <3>1, OneReaderMoves
    <3> QED
      BY <1>7, <3>2, <1>a DEF DropCounted
  <2>3. InItsSlot'
    BY <1>7, <2>1, <1>a DEF DropCounted, Announced
  <2> QED
    BY <2>2, <2>3, <1>b
<1>8. CASE Sweeper
  <2>1. UNCHANGED << unannounced, slots, pc, at, index >>
    BY <1>8 DEF Sweeper, Merge, Mark, TakeUp, LoadCount, LoadSlot, Decide,
                Retire, registry, readers
  <2> QED
    BY <2>1 DEF EveryReaderAccountedFor
<1>9. CASE UNCHANGED vars
  BY <1>9 DEF vars, registry, readers, EveryReaderAccountedFor
<1> QED
  BY <1>1, <1>2, <1>3, <1>4, <1>5, <1>6, <1>7, <1>8, <1>9 DEF Next, Reader

(* What Retire removes is neither live nor held.                           *)
LEMMA RetiredIsUnread ==
  ASSUME IInv, Retire
  PROVE  /\ job.inputs \cap live = {}
         /\ \A r \in Readers : job.inputs \cap held[r] = {}
<1> USE DEF IInv
<1>1. job \in pending /\ phase = "retiring"
  BY DEF Retire, JobsApart
<1>2. job.inputs \cap live = {}
  BY <1>1 DEF JobsApart
<1>3. ASSUME NEW r \in Readers, job.inputs \cap held[r] # {} PROVE FALSE
  <2>1. at[r] < job.mark
    BY <1>1, <1>3 DEF HoldersAreOlder
  <2>2. pc[r] \in Stamped
    BY <1>3 DEF FilesApart, Stamped, States
  <2>3. at[r] >= job.mark
    BY <1>1, <2>2 DEF DrainedMeansGone
  <2> QED
    BY <2>1, <2>3 DEF TypeOK, Job
<1> QED
  BY <1>2, <1>3

LEMMA NothingVanishesKept == IInv /\ [Next]_vars => NothingVanishes'
<1> SUFFICES ASSUME IInv, [Next]_vars PROVE NothingVanishes'
  OBVIOUS
<1> USE DEF IInv, TypeOK, NothingVanishes
<1>1. ASSUME NEW r \in Readers, Resolve(r) PROVE NothingVanishes'
  BY <1>1 DEF Resolve, files
<1>2. ASSUME NEW r \in Readers, DropAnnounced(r) \/ DropCounted(r)
      PROVE  NothingVanishes'
  BY <1>2 DEF DropAnnounced, DropCounted, files
<1>3. ASSUME NEW r \in Readers,
             CountIn(r) \/ TakeEpoch(r) \/ Announce(r) \/ CountOut(r)
      PROVE  NothingVanishes'
  BY <1>3 DEF CountIn, TakeEpoch, Announce, CountOut, files
<1>4. CASE Merge
  BY <1>4 DEF Merge, readers
<1>5. CASE Retire
  BY <1>5, RetiredIsUnread DEF Retire, readers
<1>6. CASE Mark \/ TakeUp \/ LoadCount \/ LoadSlot \/ Decide
  BY <1>6 DEF Mark, TakeUp, LoadCount, LoadSlot, Decide, readers, files
<1>7. CASE UNCHANGED vars
  BY <1>7 DEF vars, readers, files
<1> QED
  BY <1>1, <1>2, <1>3, <1>4, <1>5, <1>6, <1>7 DEF Next, Reader, Sweeper

LEMMA Inductive == IInv /\ [Next]_vars => IInv'
<1> SUFFICES ASSUME IInv, [Next]_vars PROVE IInv'
  OBVIOUS
<1> QED
  BY TypesKept, EpochsKept, FilesApartKept, JobsApartKept, HoldersAreOlderKept,
     ScanMissesNobodyKept, DrainedMeansGoneKept, EveryReaderAccountedForKept,
     NothingVanishesKept
     DEF IInv

-----------------------------------------------------------------------------
(* The results.                                                            *)

LEMMA Invariance == Spec => []IInv
  BY Initially, Inductive, PTL DEF Spec

(* The registry, the readers and the sweeper stay within their types.      *)
THEOREM TypeCorrect == Spec => []TypeOK
<1>1. IInv => TypeOK
  BY DEF IInv
<1> QED
  BY <1>1, Invariance, PTL

(* ADR-0013 S3: for any number of readers, files and slots, no file is     *)
(* deleted while a pinned reader that resolved it may still open it.       *)
THEOREM NoFileDeletedWhileRead == Spec => []NothingVanishes
<1>1. IInv => NothingVanishes
  BY DEF IInv
<1> QED
  BY <1>1, Invariance, PTL

(* A yes from Leases::drained means that every reader older than the mark  *)
(* has gone, however the scan and the readers interleave.                  *)
THEOREM DrainedIsTrue == Spec => []DrainedMeansGone
<1>1. IInv => DrainedMeansGone
  BY DEF IInv
<1> QED
  BY <1>1, Invariance, PTL

(* A slot or the blanket count speaks for every reader inside, always.     *)
THEOREM NobodyUnaccounted == Spec => []EveryReaderAccountedFor
<1>1. IInv => EveryReaderAccountedFor
  BY DEF IInv
<1> QED
  BY <1>1, Invariance, PTL

LEMMA InitImplements == Init => Promise!Init
  BY DEF Init, Promise!Init

LEMMA StepImplements == IInv /\ [Next]_vars => [Promise!Next]_(Promise!vars)
<1> SUFFICES ASSUME IInv, [Next]_vars PROVE Promise!Next \/ UNCHANGED Promise!vars
  OBVIOUS
<1> USE DEF IInv, TypeOK, Promise!vars
<1>1. ASSUME NEW r \in Readers, Resolve(r) PROVE Promise!Resolve(r)
  <2>1. held[r] = {}
    BY <1>1 DEF Resolve, Goto, FilesApart
  <2> QED
    BY <1>1, <2>1 DEF Resolve, Promise!Resolve, files
<1>2. ASSUME NEW r \in Readers, DropAnnounced(r) \/ DropCounted(r)
      PROVE  Promise!Finish(r)
  BY <1>2 DEF DropAnnounced, DropCounted, Promise!Finish, files
<1>3. ASSUME NEW r \in Readers,
             CountIn(r) \/ TakeEpoch(r) \/ Announce(r) \/ CountOut(r)
      PROVE  UNCHANGED Promise!vars
  BY <1>3 DEF CountIn, TakeEpoch, Announce, CountOut, files
<1>4. ASSUME Merge
      PROVE  \E inputs, outputs \in SUBSET Files : Promise!Merge(inputs, outputs)
  <2>1. PICK inputs \in SUBSET live \ {{}}, output \in fresh :
          /\ live' = (live \ inputs) \cup {output}
          /\ onDisk' = onDisk \cup {output}
    BY <1>4 DEF Merge
  <2>2. {output} \subseteq Files \ onDisk /\ inputs \subseteq live
    BY DEF FilesApart
  <2>3. Promise!Merge(inputs, {output})
    BY <1>4, <2>1, <2>2 DEF Merge, Promise!Merge, readers
  <2> QED
    BY <2>2, <2>3
<1>5. ASSUME Retire PROVE \E gone \in SUBSET Files : Promise!Delete(gone)
  <2>1. Promise!Delete(job.inputs)
    BY <1>5, RetiredIsUnread DEF Retire, Promise!Delete, readers
  <2>2. job.inputs \in SUBSET Files
    BY DEF Job
  <2> QED
    BY <2>1, <2>2
<1>6. CASE Mark \/ TakeUp \/ LoadCount \/ LoadSlot \/ Decide
  BY <1>6 DEF Mark, TakeUp, LoadCount, LoadSlot, Decide, readers, files
<1>7. CASE UNCHANGED vars
  BY <1>7 DEF vars, readers, files
<1> QED
  BY <1>1, <1>2, <1>3, <1>4, <1>5, <1>6, <1>7
     DEF Next, Reader, Sweeper, Promise!Next

(* Every execution of the registry is one of the promised reclamation.     *)
THEOREM Implements == Spec => ImplementsPromise
  BY InitImplements, StepImplements, Invariance, PTL
     DEF Spec, ImplementsPromise, Promise!Spec

=============================================================================
