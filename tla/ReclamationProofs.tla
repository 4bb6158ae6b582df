------------------------- MODULE ReclamationProofs -------------------------
(***************************************************************************)
(* Reclamation for any number of statements, snapshots, files and ticks.   *)
(*                                                                         *)
(* The argument.  What a merge took out of the log stays out of it         *)
(* (OutcomesApart), so no retirement takes a file of the table.  A         *)
(* statement that holds an input of a queued merge announced itself before *)
(* the merge's mark (HoldersAreOlder), so a drained mark leaves none.  A   *)
(* snapshot that names such an input was being taken when the merge was    *)
(* made, and maintenance has been told of it two ticks later (PinsAreTold).*)
(***************************************************************************)
EXTENDS Reclamation, TLAPS

-----------------------------------------------------------------------------
(* Queues, as the sets of what is in them.                                 *)

Entries(q) == { q[i] : i \in DOMAIN q }

LEMMA EntriesOfEmpty == Entries(<< >>) = {}
  BY DEF Entries

LEMMA EntriesTyped ==
  ASSUME NEW S, NEW q \in Seq(S)
  PROVE  Entries(q) \subseteq S
  BY DEF Entries

LEMMA EntriesOfAppend ==
  ASSUME NEW S, NEW q \in Seq(S), NEW x \in S
  PROVE  Append(q, x) \in Seq(S) /\ Entries(Append(q, x)) = Entries(q) \cup {x}
<1>1. /\ Append(q, x) \in Seq(S) /\ Len(q) \in Nat
      /\ DOMAIN Append(q, x) = 1..(Len(q) + 1) /\ DOMAIN q = 1..Len(q)
      /\ \A i \in 1..Len(q) : Append(q, x)[i] = q[i]
      /\ Append(q, x)[Len(q) + 1] = x
  OBVIOUS
<1>2. 1..(Len(q) + 1) = 1..Len(q) \cup {Len(q) + 1}
  BY <1>1
<1> QED
  BY <1>1, <1>2 DEF Entries

LEMMA EntriesOfTail ==
  ASSUME NEW S, NEW q \in Seq(S), q # << >>
  PROVE  /\ Head(q) \in Entries(q) /\ Tail(q) \in Seq(S)
         /\ Entries(Tail(q)) \subseteq Entries(q)
<1>1. /\ Tail(q) \in Seq(S) /\ Len(q) \in Nat /\ Len(q) > 0
      /\ DOMAIN Tail(q) = 1..(Len(q) - 1) /\ DOMAIN q = 1..Len(q)
      /\ \A i \in 1..(Len(q) - 1) : Tail(q)[i] = q[i + 1]
      /\ Head(q) = q[1]
  OBVIOUS
<1>2. Entries(Tail(q)) \subseteq Entries(q)
  <2>1. ASSUME NEW i \in DOMAIN Tail(q) PROVE i + 1 \in DOMAIN q /\ Tail(q)[i] = q[i + 1]
    BY <1>1, <2>1
  <2> QED
    BY <2>1 DEF Entries
<1> QED
  BY <1>1, <1>2 DEF Entries

-----------------------------------------------------------------------------
(* The inductive invariant of the table and the maintainer.                *)

DueItems == [outcome : Outcomes, age : Nat, leaked : BOOLEAN]

InQueue == Entries(pending) \cup Entries(waiting) \cup { d.outcome : d \in Entries(due) }

(* TypeOK without the queues.                                              *)
Typed ==
  /\ live \subseteq Files /\ onDisk \subseteq 1..used /\ flight \subseteq onDisk
  /\ old \subseteq onDisk /\ used \in 2..MaxFiles
  /\ epoch \in Nat \ {0}
  /\ inside \in [Readers -> 0..epoch]
  /\ holds \in [Readers -> SUBSET Files]
  /\ asOf \in [Readers -> Snapshots \cup { "nothing", "present" }]
  /\ snap \in [Snapshots -> { "absent", "taking", "held", "dropped" }]
  /\ pinned \in [Snapshots -> SUBSET Files]
  /\ reading \in Reading /\ told \in Reading
  /\ fresh \in BOOLEAN
  /\ pc \in { "idle", "merging", "marking", "judging", "retiring" }
  /\ tick \in 0..MaxTicks
  /\ restarts \in 0..MaxRestarts
  /\ presumed \subseteq Files

Queues ==
  /\ pending \in Seq(Outcomes) /\ waiting \in Seq(Outcomes) /\ due \in Seq(DueItems)
  /\ \A o \in InQueue : o.at <= tick /\ o.mark <= epoch + 1
  /\ \A d \in Entries(due) : d.age = tick - d.outcome.at

Phases ==
  /\ pc # "idle" => tick > 0
  /\ pc \in { "judging", "retiring" } => ~told.blind
  /\ pc \notin { "judging", "retiring" } => due = << >>

FilesApart ==
  /\ live \subseteq onDisk
  /\ flight \cap (live \cup old) = {}

(* What a merge took out of the log stays out of it.                       *)
OutcomesApart == \A o \in InQueue : o.inputs \subseteq 1..used \ (live \cup flight)

Core == Typed /\ Queues /\ Phases /\ FilesApart /\ OutcomesApart

LEMMA OutcomesTyped == Queues => InQueue \subseteq Outcomes
<1> SUFFICES ASSUME Queues PROVE InQueue \subseteq Outcomes
  OBVIOUS
<1>1. /\ Entries(pending) \subseteq Outcomes /\ Entries(waiting) \subseteq Outcomes
      /\ Entries(due) \subseteq DueItems
  BY EntriesTyped DEF Queues
<1> QED
  BY <1>1 DEF InQueue, DueItems

LEMMA CoreTypes == Core => TypeOK
<1> SUFFICES ASSUME Core PROVE TypeOK
  OBVIOUS
<1>1. ASSUME NEW q \in { pending, waiting }, NEW i \in DOMAIN q
      PROVE  q[i] \in Outcomes /\ q[i].at <= tick /\ q[i].mark <= epoch + 1
  <2>1. q[i] \in InQueue
    BY <1>1 DEF InQueue, Entries
  <2> QED
    BY <2>1, OutcomesTyped DEF Core, Queues
<1>2. ASSUME NEW i \in DOMAIN due
      PROVE  due[i] \in [outcome : Outcomes, age : 0..tick, leaked : BOOLEAN]
  <2>1. due[i] \in Entries(due) /\ due[i] \in DueItems
    BY EntriesTyped DEF Entries, Core, Queues
  <2>2. due[i].outcome \in InQueue
    BY <2>1 DEF InQueue
  <2>3. due[i].outcome.at \in 1..MaxTicks /\ due[i].outcome.at <= tick
    BY <2>1, <2>2 DEF DueItems, Outcomes, Core, Queues
  <2>4. due[i].age = tick - due[i].outcome.at /\ tick \in Nat
    BY <2>1 DEF Core, Queues, Typed
  <2>5. due[i].age \in 0..tick
    BY <2>1, <2>3, <2>4 DEF DueItems
  <2> QED
    BY <2>1, <2>5 DEF DueItems
<1> QED
  BY <1>1, <1>2 DEF Core, Typed, TypeOK

LEMMA CoreInitially == Init => Core
<1> SUFFICES ASSUME Init PROVE Core
  OBVIOUS
<1>1. InQueue = {}
  BY EntriesOfEmpty DEF InQueue, Init
<1>2. Queues /\ OutcomesApart
  BY <1>1, EntriesOfEmpty DEF Queues, OutcomesApart, Init
<1>3. Typed
  BY ReclamationAssumption DEF Typed, Init, Files, Reading, Blank
<1> QED
  BY <1>2, <1>3 DEF Core, Phases, FilesApart, Init

(* Steps of readers, of snapshots and of the refresh leave the table and   *)
(* the maintainer alone.                                                   *)
LEMMA AsideSteps ==
  ASSUME Core, Typed',
         UNCHANGED << table, epoch, pc, tick, told, queue, restarts, presumed >>
  PROVE  Core' /\ InQueue' = InQueue
<1>1. /\ UNCHANGED << live, onDisk, flight, old, used >>
      /\ UNCHANGED << pending, waiting, due >>
  BY DEF table, queue
<1>2. InQueue' = InQueue /\ Entries(due') = Entries(due)
  BY <1>1 DEF InQueue
<1>3. Queues'
  BY <1>1, <1>2 DEF Core, Queues
<1>4. OutcomesApart'
  BY <1>1, <1>2 DEF Core, OutcomesApart
<1>5. Phases' /\ FilesApart'
  BY <1>1 DEF Core, Phases, FilesApart
<1> QED
  BY <1>2, <1>3, <1>4, <1>5 DEF Core

(* Steps that leave the queues and the clocks alone, and put into the log  *)
(* only what was on its way there or is new.                               *)
LEMMA TableSteps ==
  ASSUME Core, Typed', FilesApart',
         UNCHANGED << epoch, pc, tick, told, pending, waiting, due >>,
         used' >= used,
         live' \cup flight' \subseteq live \cup flight \cup (1..used' \ 1..used)
  PROVE  Core' /\ InQueue' = InQueue
<1>1. InQueue' = InQueue /\ Entries(due') = Entries(due)
  BY DEF InQueue
<1>2. Queues'
  BY <1>1 DEF Core, Queues
<1>3. used \in Nat /\ used' \in Nat
  BY ReclamationAssumption DEF Core, Typed
<1>4. 1..used \subseteq 1..used'
  BY <1>3
<1>5. OutcomesApart'
  BY <1>1, <1>4 DEF Core, OutcomesApart
<1>6. Phases'
  BY DEF Core, Phases
<1> QED
  BY <1>1, <1>2, <1>5, <1>6 DEF Core

LEMMA WriterKeepsCore ==
  ASSUME Core, WriteFile \/ CommitFile \/ \E f \in Files : Detach(f) \/ GrowOld(f)
  PROVE  Core' /\ InQueue' = InQueue
<1>1. /\ UNCHANGED << epoch, inside, holds, asOf >> /\ UNCHANGED << snap, pinned, reading >>
      /\ UNCHANGED << fresh, pc, tick, told >> /\ UNCHANGED << restarts, presumed >>
      /\ UNCHANGED << pending, waiting, due >>
  BY DEF WriteFile, CommitFile, Detach, GrowOld, Remaining, lease, pins, queue
<1>2. Typed /\ FilesApart /\ used \in Nat /\ MaxFiles \in Nat
  BY ReclamationAssumption DEF Core, Typed
<1>3. CASE WriteFile
  <2>1. /\ used' = used + 1 /\ used' \in 2..MaxFiles
        /\ onDisk' = onDisk \cup {used'} /\ flight' = {used'}
        /\ live' = live /\ old' = old
    BY <1>2, <1>3 DEF WriteFile, Typed
  <2>2. used' \in 1..used' \ 1..used /\ 1..used \subseteq 1..used'
    BY <1>2, <2>1
  <2>3. onDisk' \subseteq 1..used' /\ old' \subseteq onDisk' /\ flight' \subseteq onDisk'
    BY <1>2, <2>1, <2>2 DEF Typed
  <2>4. Typed'
    BY <1>1, <1>2, <2>1, <2>3 DEF Typed
  <2>5. FilesApart'
    BY <1>2, <2>1, <2>2 DEF Typed, FilesApart
  <2>6. live' \cup flight' \subseteq live \cup flight \cup (1..used' \ 1..used)
    BY <2>1, <2>2
  <2> QED
    BY <1>1, <1>2, <2>1, <2>4, <2>5, <2>6, TableSteps
<1>4. CASE CommitFile
  <2>1. /\ live' = live \cup flight /\ flight' = {}
        /\ UNCHANGED << onDisk, old, used >>
    BY <1>4 DEF CommitFile
  <2>2. flight \subseteq Files
    BY <1>2 DEF Typed, Files
  <2>3. Typed'
    BY <1>1, <1>2, <2>1, <2>2 DEF Typed
  <2>4. FilesApart'
    BY <1>2, <2>1 DEF Typed, FilesApart
  <2> QED
    BY <1>1, <1>2, <2>1, <2>3, <2>4, TableSteps
<1>5. CASE \E f \in Files : Detach(f) \/ GrowOld(f)
  <2> PICK f \in Files : Detach(f) \/ GrowOld(f)
    BY <1>5
  <2>1. /\ UNCHANGED << onDisk, flight, used >>
        /\ live' \subseteq live /\ old' \subseteq (onDisk \ flight) \cup old
    <3>1. CASE Detach(f)
      BY <3>1 DEF Detach
    <3>2. CASE GrowOld(f)
      BY <3>2 DEF GrowOld
    <3> QED
      BY <3>1, <3>2
  <2>2. Typed'
    BY <1>1, <1>2, <2>1 DEF Typed
  <2>3. FilesApart'
    BY <1>2, <2>1 DEF FilesApart
  <2> QED
    BY <1>1, <1>2, <2>1, <2>2, <2>3, TableSteps
<1> QED
  BY <1>3, <1>4, <1>5

ReaderStep ==
  \/ \E r \in Readers : Enter(r) \/ Resolve(r) \/ Leave(r)
  \/ \E r \in Readers, s \in Snapshots : ResolveAsOf(r, s)

SnapshotStep ==
  \/ \E s \in Snapshots : TakeSnapshot(s) \/ PublishSnapshot(s) \/ DropSnapshot(s)
  \/ Refresh

LEMMA ReaderKeepsCore ==
  ASSUME Core, ReaderStep
  PROVE  Core' /\ InQueue' = InQueue
<1>1. /\ UNCHANGED << table, pins, fresh, pc, tick, told, queue, restarts, presumed >>
      /\ epoch' = epoch
  BY DEF ReaderStep, Enter, Resolve, Leave, ResolveAsOf, Elsewhere
<1>2. UNCHANGED << live, onDisk, flight, old, used, snap, pinned, reading >>
  BY <1>1 DEF table, pins
<1>3. Typed /\ epoch \in 0..epoch /\ 0 \in 0..epoch
  BY DEF Core, Typed
<1>4. inside' \in [Readers -> 0..epoch] /\ holds' \in [Readers -> SUBSET Files]
      /\ asOf' \in [Readers -> Snapshots \cup { "nothing", "present" }]
  <2>1. CASE \E r \in Readers : Enter(r)
    BY <2>1, <1>3 DEF Enter, Typed
  <2>2. CASE \E r \in Readers : Resolve(r)
    BY <2>2, <1>3 DEF Resolve, Typed
  <2>3. CASE \E r \in Readers : Leave(r)
    BY <2>3, <1>3 DEF Leave, Typed
  <2>4. CASE \E r \in Readers, s \in Snapshots : ResolveAsOf(r, s)
    BY <2>4, <1>3 DEF ResolveAsOf, Typed
  <2> QED
    BY <2>1, <2>2, <2>3, <2>4 DEF ReaderStep
<1>5. Typed'
  BY <1>1, <1>2, <1>3, <1>4 DEF Typed
<1> QED
  BY <1>1, <1>5, AsideSteps

LEMMA SnapshotKeepsCore ==
  ASSUME Core, SnapshotStep
  PROVE  Core' /\ InQueue' = InQueue
<1>1. UNCHANGED << table, lease, pc, tick, told, queue, restarts, presumed >>
  BY DEF SnapshotStep, TakeSnapshot, PublishSnapshot, DropSnapshot, Refresh, Aside
<1>2. UNCHANGED << live, onDisk, flight, old, used, epoch, inside, holds, asOf >>
  BY <1>1 DEF table, lease
<1>3. Typed
  BY DEF Core
<1>4. /\ snap' \in [Snapshots -> { "absent", "taking", "held", "dropped" }]
      /\ pinned' \in [Snapshots -> SUBSET Files]
      /\ reading' \in Reading /\ fresh' \in BOOLEAN
  <2>1. CASE \E s \in Snapshots : TakeSnapshot(s)
    BY <2>1, <1>3 DEF TakeSnapshot, Typed
  <2>2. CASE \E s \in Snapshots : PublishSnapshot(s)
    BY <2>2, <1>3 DEF PublishSnapshot, Typed
  <2>3. CASE \E s \in Snapshots : DropSnapshot(s)
    BY <2>3, <1>3 DEF DropSnapshot, Typed
  <2>4. CASE Refresh
    BY <2>4, <1>3 DEF Refresh, Typed, Reading
  <2> QED
    BY <2>1, <2>2, <2>3, <2>4 DEF SnapshotStep
<1>5. Typed'
  BY <1>1, <1>2, <1>3, <1>4 DEF Typed
<1> QED
  BY <1>1, <1>2, <1>5, AsideSteps

-----------------------------------------------------------------------------
(* The steps of a tick.                                                    *)

LEMMA BeginTickKeepsCore ==
  ASSUME Core, BeginTick
  PROVE  Core' /\ InQueue' = InQueue
<1>1. /\ pc = "idle" /\ tick < MaxTicks /\ tick' = tick + 1 /\ told' = reading
      /\ fresh' = FALSE /\ pc' = "merging"
      /\ UNCHANGED << table, lease, pins, queue, restarts, presumed >>
  BY DEF BeginTick
<1>2. /\ UNCHANGED << live, onDisk, flight, old, used >>
      /\ UNCHANGED << epoch, inside, holds, asOf, snap, pinned, reading >>
      /\ UNCHANGED << pending, waiting, due >>
  BY <1>1 DEF table, lease, pins, queue
<1>3. InQueue' = InQueue /\ Entries(due') = {}
  BY <1>1, <1>2, EntriesOfEmpty DEF InQueue, Core, Phases
<1>4. Typed /\ tick \in Nat /\ MaxTicks \in Nat
  BY ReclamationAssumption DEF Core, Typed
<1>5. tick' \in 0..MaxTicks /\ tick' > 0 /\ tick' \in Nat
  BY <1>1, <1>4
<1>6. Typed'
  BY <1>1, <1>2, <1>4, <1>5 DEF Typed
<1>7. Queues'
  <2>1. ASSUME NEW o \in InQueue PROVE o.at <= tick'
    <3>1. o.at \in Int /\ o.at <= tick
      BY OutcomesTyped DEF Core, Queues, Outcomes
    <3> QED
      BY <3>1, <1>1, <1>4
  <2> QED
    BY <2>1, <1>2, <1>3 DEF Core, Queues
<1>8. OutcomesApart'
  BY <1>2, <1>3 DEF Core, OutcomesApart
<1>9. Phases' /\ FilesApart'
  BY <1>1, <1>2, <1>5 DEF Core, Phases, FilesApart
<1> QED
  BY <1>3, <1>6, <1>7, <1>8, <1>9 DEF Core

(* What a tick puts on disk.                                               *)
LEMMA MergeWrites ==
  ASSUME Core, used < MaxFiles, used' = used + 1, onDisk' = onDisk \cup {used'},
         UNCHANGED << flight, old >>,
         NEW inputs \in SUBSET live,
         live' = live \/ live' = (live \ inputs) \cup {used'}
  PROVE  /\ used' \in 2..MaxFiles /\ used' \in 1..used' \ 1..used /\ 1..used \subseteq 1..used'
         /\ live' \subseteq Files /\ onDisk' \subseteq 1..used' /\ flight' \subseteq onDisk'
         /\ old' \subseteq onDisk'
         /\ FilesApart'
<1>1. Typed /\ FilesApart /\ used \in Nat /\ MaxFiles \in Nat /\ used >= 2
  BY ReclamationAssumption DEF Core, Typed
<1>2. used' \in 2..MaxFiles /\ used' \in 1..used' \ 1..used /\ 1..used \subseteq 1..used'
  BY <1>1
<1>3. used' \in Files
  BY <1>1, <1>2 DEF Files
<1>4. /\ live' \subseteq Files /\ onDisk' \subseteq 1..used' /\ flight' \subseteq onDisk'
      /\ old' \subseteq onDisk'
  BY <1>1, <1>2, <1>3 DEF Typed
<1>5. used' \notin flight /\ used' \in onDisk'
  BY <1>1, <1>2 DEF Typed
<1>6. FilesApart'
  BY <1>1, <1>5 DEF FilesApart
<1> QED
  BY <1>2, <1>4, <1>6

LEMMA MergeKeepsCore ==
  ASSUME Core, Merge
  PROVE  /\ Core'
         /\ \A o \in InQueue' :
              \/ o \in InQueue
              \/ o.inputs \subseteq live /\ o.at = tick /\ o.mark = epoch + 1
<1>1. /\ pc = "merging"
      /\ UNCHANGED << lease, pins, fresh, tick, told, waiting, due, restarts, presumed >>
  BY DEF Merge, Steady
<1>2. UNCHANGED << epoch, inside, holds, asOf, snap, pinned, reading, waiting, due >>
  BY <1>1 DEF lease, pins
<1>3. Typed /\ pc' \in { "marking", "idle" }
  BY DEF Core, Merge
<1>4. Entries(due') = {} /\ due = << >> /\ tick > 0
  BY <1>1, <1>2, EntriesOfEmpty DEF Core, Phases
<1>5. Phases'
  BY <1>1, <1>2, <1>3, <1>4 DEF Phases
<1>6. CASE UNCHANGED << table, pending >>
  <2>1. UNCHANGED << live, onDisk, flight, old, used, pending >>
    BY <1>6 DEF table
  <2>2. InQueue' = InQueue
    BY <1>2, <2>1 DEF InQueue
  <2>3. Queues' /\ OutcomesApart' /\ FilesApart'
    BY <1>1, <1>2, <1>4, <2>1, <2>2 DEF Core, Queues, OutcomesApart, FilesApart
  <2>4. Typed'
    BY <1>1, <1>2, <1>3, <2>1 DEF Typed
  <2> QED
    BY <1>5, <2>2, <2>3, <2>4 DEF Core
<1>7. CASE ~ UNCHANGED << table, pending >>
  <2>1. PICK inputs \in SUBSET live :
          /\ used < MaxFiles
          /\ \/ Replace(inputs) /\ Queued(inputs)
             \/ Replace(inputs) /\ UNCHANGED pending
             \/ /\ used' = used + 1 /\ onDisk' = onDisk \cup {used'}
                /\ UNCHANGED << live, flight, old, pending >>
    BY <1>7 DEF Merge
  <2>2. /\ used' = used + 1 /\ onDisk' = onDisk \cup {used'}
        /\ UNCHANGED << flight, old >>
        /\ live' = live \/ live' = (live \ inputs) \cup {used'}
    BY <2>1 DEF Replace
  <2>3. /\ used' \in 2..MaxFiles /\ used' \in 1..used' \ 1..used /\ 1..used \subseteq 1..used'
        /\ live' \subseteq Files /\ onDisk' \subseteq 1..used' /\ flight' \subseteq onDisk'
        /\ old' \subseteq onDisk'
        /\ FilesApart'
    BY <2>1, <2>2, MergeWrites
  <2>4. Typed'
    BY <1>1, <1>2, <1>3, <2>3 DEF Typed
  <2> DEFINE new == [inputs |-> inputs, output |-> used', at |-> tick, mark |-> epoch + 1]
  <2>5. new \in Outcomes
    <3>1. inputs \in SUBSET Files /\ used' \in Files
      BY <1>3, <2>3, ReclamationAssumption DEF Typed, Files
    <3>2. tick \in 1..MaxTicks /\ epoch + 1 \in Nat
      BY <1>3, <1>4 DEF Typed
    <3> QED
      BY <3>1, <3>2 DEF Outcomes
  <2>6. /\ pending' \in Seq(Outcomes) /\ waiting' \in Seq(Outcomes) /\ due' \in Seq(DueItems)
        /\ \/ InQueue' = InQueue
           \/ InQueue' = InQueue \cup {new} /\ live' = (live \ inputs) \cup {used'}
    <3>1. CASE UNCHANGED pending
      BY <3>1, <1>2 DEF InQueue, Core, Queues
    <3>2. CASE Replace(inputs) /\ Queued(inputs)
      <4>1. pending' = Append(pending, new) /\ live' = (live \ inputs) \cup {used'}
        BY <3>2 DEF Replace, Queued
      <4>2. pending' \in Seq(Outcomes) /\ Entries(pending') = Entries(pending) \cup {new}
        BY <4>1, <2>5, EntriesOfAppend DEF Core, Queues
      <4> QED
        BY <1>2, <4>1, <4>2 DEF InQueue, Core, Queues
    <3> QED
      BY <3>1, <3>2, <2>1
  <2>7. /\ new.at = tick /\ new.mark = epoch + 1 /\ new.inputs = inputs
    OBVIOUS
  <2> HIDE DEF new
  <2>8. Queues'
    <3>1. \A o \in InQueue' : o.at <= tick /\ o.mark <= epoch + 1
      BY <1>3, <2>6, <2>7 DEF Core, Queues, Typed
    <3> QED
      BY <3>1, <2>6, <1>1, <1>2, <1>4 DEF Queues
  <2>9. OutcomesApart'
    <3>1. ASSUME NEW o \in InQueue PROVE o.inputs \subseteq 1..used' \ (live' \cup flight')
      BY <2>2, <2>3 DEF Core, OutcomesApart
    <3>2. ASSUME live' = (live \ inputs) \cup {used'}
          PROVE  inputs \subseteq 1..used' \ (live' \cup flight')
      <4>1. inputs \subseteq live /\ live \subseteq 1..used /\ live \cap flight = {}
        BY DEF Core, Typed, FilesApart
      <4> QED
        BY <2>2, <2>3, <3>2, <4>1
    <3> QED
      BY <2>6, <2>7, <3>1, <3>2 DEF OutcomesApart
  <2> QED
    BY <1>5, <2>3, <2>4, <2>6, <2>7, <2>8, <2>9 DEF Core
<1> QED
  BY <1>6, <1>7

(* The steps after the merge take nothing into the queue.                  *)
LEMMA MarkKeepsCore ==
  ASSUME Core, Mark
  PROVE  Core' /\ InQueue' \subseteq InQueue /\ due' = << >>
<1>1. /\ pc = "marking" /\ epoch' = epoch + 1 /\ waiting' = << >> /\ due' = << >>
      /\ pc' = IF told.blind THEN "idle" ELSE "judging"
      /\ UNCHANGED << table, pins >>
      /\ UNCHANGED << inside, holds, asOf, fresh, tick, told, pending, restarts, presumed >>
  BY DEF Mark
<1>2. UNCHANGED << live, onDisk, flight, old, used, snap, pinned, reading >>
  BY <1>1 DEF table, pins
<1>3. InQueue' = Entries(pending) /\ Entries(due') = {}
  BY <1>1, EntriesOfEmpty DEF InQueue
<1>4. InQueue' \subseteq InQueue
  BY <1>3 DEF InQueue
<1>5. Typed'
  <2>1. Typed /\ epoch' \in Nat \ {0} /\ 0..epoch \subseteq 0..epoch'
    BY <1>1 DEF Core, Typed
  <2>2. pc' \in { "idle", "judging" }
    BY <1>1
  <2>3. inside' \in [Readers -> 0..epoch']
    BY <1>1, <2>1 DEF Typed
  <2> QED
    BY <1>1, <1>2, <2>1, <2>2, <2>3 DEF Typed
<1>6. Queues'
  <2>1. ASSUME NEW o \in InQueue' PROVE o.at <= tick /\ o.mark <= epoch' + 1
    <3>1. o \in InQueue /\ o.mark \in Nat /\ epoch \in Nat
      BY <1>4, OutcomesTyped DEF Core, Outcomes, Typed
    <3> QED
      BY <1>1, <3>1 DEF Core, Queues
  <2>2. << >> \in Seq(Outcomes) /\ << >> \in Seq(DueItems)
    OBVIOUS
  <2> QED
    BY <1>1, <1>3, <2>1, <2>2 DEF Core, Queues
<1>7. OutcomesApart'
  BY <1>2, <1>4 DEF Core, OutcomesApart
<1>8. Phases' /\ FilesApart'
  BY <1>1, <1>2 DEF Core, Phases, FilesApart
<1> QED
  BY <1>1, <1>4, <1>5, <1>6, <1>7, <1>8 DEF Core

LEMMA JudgeKeepsCore ==
  ASSUME Core, Judge
  PROVE  /\ Core' /\ InQueue' \subseteq InQueue
         /\ \A d \in Entries(due') :
              \/ d \in Entries(due)
              \/ d.outcome \in InQueue /\ (Drained(d.outcome.mark) \/ d.leaked)
<1> DEFINE it     == Head(pending)
           age    == tick - it.at
           leaked == Leak > 0 /\ age >= Leak /\ ~Drained(it.mark)
           item   == [outcome |-> it, age |-> age, leaked |-> leaked]
           retire == (age >= Grace /\ Drained(it.mark)) \/ leaked
<1>1. /\ pc = "judging" /\ pending # << >> /\ pending' = Tail(pending)
      /\ UNCHANGED << table, lease, pins, fresh, pc, tick, told, restarts, presumed >>
      /\ IF retire THEN due' = Append(due, item) /\ UNCHANGED waiting
                   ELSE waiting' = Append(waiting, it) /\ UNCHANGED due
  BY DEF Judge
<1>2. /\ UNCHANGED << live, onDisk, flight, old, used >>
      /\ UNCHANGED << epoch, inside, holds, asOf, snap, pinned, reading >>
  BY <1>1 DEF table, lease, pins
<1>3. /\ it \in Entries(pending) /\ it \in Outcomes
      /\ pending' \in Seq(Outcomes) /\ Entries(pending') \subseteq Entries(pending)
  BY <1>1, EntriesOfTail, EntriesTyped DEF Core, Queues
<1>4. it \in InQueue /\ it.at \in 1..MaxTicks /\ it.at <= tick /\ tick \in Nat
  <2>1. it \in InQueue
    BY <1>3 DEF InQueue
  <2> QED
    BY <1>3, <2>1, ReclamationAssumption DEF Core, Queues, Typed, Outcomes
<1>5. item \in DueItems
  <2>1. age \in Nat
    BY <1>4, ReclamationAssumption
  <2>2. leaked \in BOOLEAN
    OBVIOUS
  <2> HIDE DEF leaked, age, it
  <2> QED
    BY <1>3, <2>1, <2>2 DEF DueItems
<1>6. item.outcome = it /\ item.age = tick - item.outcome.at
      /\ (retire => Drained(item.outcome.mark) \/ item.leaked)
  OBVIOUS
<1> HIDE DEF item, retire, leaked, age
<1>7. /\ waiting' \in Seq(Outcomes) /\ Entries(waiting') \subseteq Entries(waiting) \cup {it}
      /\ due' \in Seq(DueItems)
      /\ Entries(due') \subseteq Entries(due) \cup (IF retire THEN {item} ELSE {})
  <2>0. waiting \in Seq(Outcomes) /\ due \in Seq(DueItems)
    BY DEF Core, Queues
  <2>1. CASE retire
    <3>1. Append(due, item) \in Seq(DueItems) /\ Entries(Append(due, item)) = Entries(due) \cup {item}
      BY <1>5, <2>0, EntriesOfAppend
    <3> QED
      BY <1>1, <2>0, <2>1, <3>1
  <2>2. CASE ~retire
    <3>1. Append(waiting, it) \in Seq(Outcomes) /\ Entries(Append(waiting, it)) = Entries(waiting) \cup {it}
      BY <1>3, <2>0, EntriesOfAppend
    <3> HIDE DEF it
    <3> QED
      BY <1>1, <2>0, <2>2, <3>1
  <2> QED
    BY <2>1, <2>2
<1>8. InQueue' \subseteq InQueue
  <2>1. { d.outcome : d \in Entries(due') } \subseteq { d.outcome : d \in Entries(due) } \cup {it}
    BY <1>6, <1>7
  <2> QED
    BY <1>3, <1>4, <1>7, <2>1 DEF InQueue
<1>9. \A d \in Entries(due') : d.age = tick - d.outcome.at
  BY <1>6, <1>7 DEF Core, Queues
<1>10. Queues'
  BY <1>1, <1>2, <1>3, <1>7, <1>8, <1>9 DEF Core, Queues
<1>11. Typed' /\ FilesApart'
  BY <1>1, <1>2 DEF Core, Typed, FilesApart
<1>12. OutcomesApart'
  BY <1>2, <1>8 DEF Core, OutcomesApart
<1>13. Phases'
  BY <1>1 DEF Core, Phases
<1> QED
  BY <1>4, <1>6, <1>7, <1>8, <1>10, <1>11, <1>12, <1>13 DEF Core

LEMMA JudgedKeepsCore ==
  ASSUME Core, Judged
  PROVE  Core' /\ InQueue' \subseteq InQueue /\ due' = due
<1>1. /\ pc = "judging" /\ pc' = "retiring" /\ pending' = waiting /\ waiting' = << >>
      /\ UNCHANGED << table, lease, pins, fresh, tick, told, due, restarts, presumed >>
  BY DEF Judged
<1>2. /\ UNCHANGED << live, onDisk, flight, old, used >>
      /\ UNCHANGED << epoch, inside, holds, asOf, snap, pinned, reading >>
  BY <1>1 DEF table, lease, pins
<1>3. InQueue' \subseteq InQueue
  BY <1>1, EntriesOfEmpty DEF InQueue
<1>4. Queues'
  <2>1. << >> \in Seq(Outcomes)
    OBVIOUS
  <2> QED
    BY <1>1, <1>2, <1>3, <2>1 DEF Core, Queues
<1>5. Typed' /\ FilesApart' /\ Phases'
  BY <1>1, <1>2 DEF Core, Typed, FilesApart, Phases
<1>6. OutcomesApart'
  BY <1>2, <1>3 DEF Core, OutcomesApart
<1> QED
  BY <1>1, <1>3, <1>4, <1>5, <1>6 DEF Core

LEMMA RestartKeepsCore ==
  ASSUME Core, Restart
  PROVE  Core' /\ InQueue' = {} /\ due' = << >>
<1>1. /\ restarts < MaxRestarts /\ restarts' = restarts + 1
      /\ flight' = {} /\ epoch' = 1
      /\ inside' = [r \in Readers |-> 0]
      /\ holds' = [r \in Readers |-> {}]
      /\ asOf' = [r \in Readers |-> "nothing"]
      /\ snap' = [s \in Snapshots |-> IF snap[s] = "taking" THEN "absent" ELSE snap[s]]
      /\ reading' = Blank /\ told' = Blank /\ fresh' = TRUE
      /\ pc' = "idle" /\ tick' = 0
      /\ pending' = << >> /\ waiting' = << >> /\ due' = << >>
      /\ UNCHANGED << live, onDisk, old, used, pinned, presumed >>
  BY DEF Restart
<1>2. InQueue' = {} /\ Entries(due') = {}
  BY <1>1, EntriesOfEmpty DEF InQueue
<1>3. Queues'
  <2>1. << >> \in Seq(Outcomes) /\ << >> \in Seq(DueItems)
    OBVIOUS
  <2> QED
    BY <1>1, <1>2, <2>1 DEF Queues
<1>4. Typed'
  <2>1. Typed
    BY DEF Core
  <2>2. restarts' \in 0..MaxRestarts /\ tick' \in 0..MaxTicks
    BY <1>1, <2>1, ReclamationAssumption DEF Typed
  <2>3. snap' \in [Snapshots -> { "absent", "taking", "held", "dropped" }]
    BY <1>1, <2>1 DEF Typed
  <2>4. /\ inside' \in [Readers -> 0..epoch'] /\ holds' \in [Readers -> SUBSET Files]
        /\ asOf' \in [Readers -> Snapshots \cup { "nothing", "present" }]
    BY <1>1
  <2>5. reading' \in Reading /\ told' \in Reading
    BY <1>1 DEF Reading, Blank
  <2> QED
    BY <1>1, <2>1, <2>2, <2>3, <2>4, <2>5 DEF Typed
<1>5. FilesApart' /\ Phases' /\ OutcomesApart'
  BY <1>1, <1>2 DEF Core, FilesApart, Phases, OutcomesApart
<1> QED
  BY <1>1, <1>2, <1>3, <1>4, <1>5 DEF Core

(* Retire and the sweep take from the disk only what is no longer of the   *)
(* table, and never a file whose commit is in flight.                      *)
LEMMA RemovalKeepsTable ==
  ASSUME Core, NEW files, files \cap (live \cup flight) = {}, Remove(files)
  PROVE  /\ live' \subseteq Files /\ onDisk' \subseteq 1..used' /\ flight' \subseteq onDisk'
         /\ old' \subseteq onDisk' /\ used' = used
         /\ FilesApart'
<1>1. /\ onDisk' = onDisk \ files /\ old' = old \ files
      /\ UNCHANGED << live, flight, used >>
  BY DEF Remove
<1> QED
  BY <1>1 DEF Core, Typed, FilesApart

LEMMA RetireKeepsCore ==
  ASSUME Core, Retire
  PROVE  /\ Core' /\ InQueue' \subseteq InQueue /\ Entries(due') \subseteq Entries(due)
         /\ \/ UNCHANGED onDisk /\ presumed' = presumed
            \/ \E d \in Entries(due) :
                 /\ d.age >= Grace
                 /\ onDisk' = onDisk \ (d.outcome.inputs \ Pinned)
                 /\ presumed' = IF d.leaked THEN presumed \cup (d.outcome.inputs \ Pinned)
                                            ELSE presumed
<1> DEFINE it   == Head(due)
           gone == IF it.age >= Grace THEN it.outcome.inputs \ Pinned ELSE {}
<1>1. /\ pc = "retiring" /\ due # << >>
      /\ UNCHANGED << lease, pins, fresh, tick, told, pending, waiting, restarts >>
      /\ IF it.outcome.output \in onDisk
           THEN /\ Remove(gone)
                /\ presumed' = IF it.leaked THEN presumed \cup gone ELSE presumed
                /\ due' = Tail(due)
                /\ UNCHANGED pc
           ELSE /\ due' = << >> /\ pc' = "idle"
                /\ UNCHANGED << table, presumed >>
  BY DEF Retire
<1>2. UNCHANGED << epoch, inside, holds, asOf, snap, pinned, reading >>
  BY <1>1 DEF lease, pins
<1>3. due \in Seq(DueItems) /\ << >> \in Seq(DueItems)
  BY DEF Core, Queues
<1>4. it \in Entries(due) /\ Tail(due) \in Seq(DueItems) /\ Entries(Tail(due)) \subseteq Entries(due)
  BY <1>1, <1>3, EntriesOfTail
<1>5. it \in DueItems /\ it.outcome \in InQueue /\ it.outcome \in Outcomes
  <2>1. it \in DueItems
    BY <1>3, <1>4, EntriesTyped
  <2> QED
    BY <1>4, <2>1 DEF InQueue, DueItems
<1>6. gone \subseteq Files /\ gone \cap (live \cup flight) = {}
  <2>1. it.outcome.inputs \subseteq Files /\ it.outcome.inputs \cap (live \cup flight) = {}
    BY <1>5 DEF Core, OutcomesApart, Outcomes
  <2> QED
    BY <2>1
<1>7. due' \in Seq(DueItems) /\ Entries(due') \subseteq Entries(due)
      /\ pc' \in { "retiring", "idle" } /\ (pc' = "idle" => due' = << >>)
  BY <1>1, <1>3, <1>4, EntriesOfEmpty
<1>8. InQueue' \subseteq InQueue
  BY <1>1, <1>7 DEF InQueue
<1>9. Queues'
  BY <1>1, <1>2, <1>7, <1>8 DEF Core, Queues
<1>10. /\ live' \subseteq Files /\ onDisk' \subseteq 1..used' /\ flight' \subseteq onDisk'
       /\ old' \subseteq onDisk' /\ used' = used /\ UNCHANGED << live, flight >>
       /\ FilesApart' /\ presumed' \subseteq Files
  <2>1. CASE Remove(gone) /\ presumed' \in { presumed \cup gone, presumed }
    <3>1. UNCHANGED << live, flight >>
      BY <2>1 DEF Remove
    <3>2. presumed' \subseteq Files
      BY <1>6, <2>1 DEF Core, Typed
    <3>3. /\ live' \subseteq Files /\ onDisk' \subseteq 1..used' /\ flight' \subseteq onDisk'
          /\ old' \subseteq onDisk' /\ used' = used /\ FilesApart'
      <4> HIDE DEF gone
      <4> QED
        BY <1>6, <2>1, RemovalKeepsTable
    <3> QED
      BY <3>1, <3>2, <3>3
  <2>2. CASE UNCHANGED << table, presumed >>
    BY <2>2 DEF table, Core, Typed, FilesApart
  <2> HIDE DEF gone, it
  <2> QED
    BY <1>1, <2>1, <2>2
<1>11. Typed'
  BY <1>1, <1>2, <1>7, <1>10 DEF Core, Typed
<1>12. OutcomesApart'
  BY <1>8, <1>10 DEF Core, OutcomesApart
<1>13. Phases'
  BY <1>1, <1>7 DEF Core, Phases
<1>14. \/ UNCHANGED onDisk /\ presumed' = presumed
       \/ \E d \in Entries(due) :
            /\ d.age >= Grace
            /\ onDisk' = onDisk \ (d.outcome.inputs \ Pinned)
            /\ presumed' = IF d.leaked THEN presumed \cup (d.outcome.inputs \ Pinned)
                                       ELSE presumed
  <2>1. CASE it.outcome.output \in onDisk /\ it.age >= Grace
    <3>1. gone = it.outcome.inputs \ Pinned
      BY <2>1
    <3> HIDE DEF gone
    <3>2. /\ it.age >= Grace
          /\ onDisk' = onDisk \ (it.outcome.inputs \ Pinned)
          /\ presumed' = IF it.leaked THEN presumed \cup (it.outcome.inputs \ Pinned)
                                      ELSE presumed
      BY <1>1, <2>1, <3>1 DEF Remove
    <3> HIDE DEF it
    <3> QED
      BY <1>4, <3>2
  <2>2. CASE it.outcome.output \in onDisk /\ ~(it.age >= Grace)
    <3>1. gone = {}
      BY <2>2
    <3> HIDE DEF gone
    <3> QED
      BY <1>1, <2>2, <3>1 DEF Remove
  <2>3. CASE it.outcome.output \notin onDisk
    BY <1>1, <2>3 DEF table
  <2> QED
    BY <2>1, <2>2, <2>3
<1> QED
  BY <1>7, <1>8, <1>9, <1>10, <1>11, <1>12, <1>13, <1>14 DEF Core

LEMMA EndTickKeepsCore ==
  ASSUME Core, EndTick
  PROVE  /\ Core' /\ InQueue' = InQueue /\ due' = << >>
         /\ SweepEvery = 0 => UNCHANGED onDisk
<1>1. /\ pc = "retiring" /\ due = << >> /\ pc' = "idle" /\ Sweep
      /\ UNCHANGED << lease, pins, fresh, tick, told, queue, restarts, presumed >>
  BY DEF EndTick
<1>2. /\ UNCHANGED << epoch, inside, holds, asOf, snap, pinned, reading >>
      /\ UNCHANGED << pending, waiting, due >>
  BY <1>1 DEF lease, pins, queue
<1>3. InQueue' = InQueue /\ Entries(due') = {}
  BY <1>1, <1>2, EntriesOfEmpty DEF InQueue
<1>4. /\ live' \subseteq Files /\ onDisk' \subseteq 1..used' /\ flight' \subseteq onDisk'
      /\ old' \subseteq onDisk' /\ used' = used /\ UNCHANGED << live, flight >> /\ FilesApart'
  <2>1. CASE UNCHANGED table
    BY <2>1 DEF table, Core, Typed, FilesApart
  <2>2. CASE Remove(old \ (live \cup Pinned))
    <3>1. (old \ (live \cup Pinned)) \cap (live \cup flight) = {}
      BY DEF Core, FilesApart
    <3>2. UNCHANGED << live, flight >>
      BY <2>2 DEF Remove
    <3> QED
      BY <2>2, <3>1, <3>2, RemovalKeepsTable
  <2> QED
    BY <1>1, <2>1, <2>2 DEF Sweep
<1>5. Typed' /\ Phases'
  BY <1>1, <1>2, <1>4 DEF Core, Typed, Phases
<1>6. Queues'
  BY <1>1, <1>2, <1>3 DEF Core, Queues
<1>7. OutcomesApart'
  BY <1>3, <1>4 DEF Core, OutcomesApart
<1>8. SweepEvery = 0 => UNCHANGED onDisk
  BY <1>1 DEF Sweep, table
<1> QED
  BY <1>1, <1>2, <1>3, <1>4, <1>5, <1>6, <1>7, <1>8 DEF Core

LEMMA CoreKept == Core /\ [Next]_vars => Core'
<1> SUFFICES ASSUME Core, [Next]_vars PROVE Core'
  OBVIOUS
<1>1. CASE Tick
  BY <1>1, BeginTickKeepsCore, MergeKeepsCore, MarkKeepsCore, JudgeKeepsCore, JudgedKeepsCore,
     RetireKeepsCore, EndTickKeepsCore DEF Tick
<1>2. CASE WriteFile \/ CommitFile \/ \E f \in Files : Detach(f) \/ GrowOld(f)
  BY <1>2, WriterKeepsCore
<1>3. CASE ReaderStep
  BY <1>3, ReaderKeepsCore
<1>4. CASE SnapshotStep
  BY <1>4, SnapshotKeepsCore
<1>5. CASE Restart
  BY <1>5, RestartKeepsCore
<1>6. CASE UNCHANGED vars
  <2>1. UNCHANGED << table, lease, pins, queue, fresh, pc, tick, told, restarts, presumed >>
    BY <1>6 DEF vars
  <2>2. /\ UNCHANGED << live, onDisk, flight, old, used >>
        /\ UNCHANGED << epoch, inside, holds, asOf, snap, pinned, reading >>
    BY <2>1 DEF table, lease, pins
  <2>3. Typed'
    BY <2>1, <2>2 DEF Core, Typed
  <2> QED
    BY <2>1, <2>2, <2>3, AsideSteps
<1> QED
  BY <1>1, <1>2, <1>3, <1>4, <1>5, <1>6 DEF Next, ReaderStep, SnapshotStep

THEOREM CoreAlways == Spec => []Core
  BY CoreInitially, CoreKept, PTL DEF Spec

(* The type invariant, for any number of statements, snapshots, files,     *)
(* ticks and restarts.                                                     *)
THEOREM Typing == Spec => []TypeOK
  BY CoreAlways, CoreTypes, PTL

(* Neither a retirement nor a sweep takes a file the table consists of, or *)
(* one whose commit is in flight.                                          *)
THEOREM TableStaysWhole == Spec => []TableIsWhole
<1>1. Core => TableIsWhole
  BY DEF Core, Typed, FilesApart, TableIsWhole
<1> QED
  BY <1>1, CoreAlways, PTL

-----------------------------------------------------------------------------
(* What each step does to the queue, to what is due and to the disk.       *)

WriterStep == WriteFile \/ CommitFile \/ \E f \in Files : Detach(f) \/ GrowOld(f)

LEMMA NextSteps == Next <=> Tick \/ WriterStep \/ ReaderStep \/ SnapshotStep \/ Restart
  BY DEF Next, WriterStep, ReaderStep, SnapshotStep

LEMMA QueueSteps ==
  ASSUME Core, Next, NEW o \in InQueue'
  PROVE  \/ o \in InQueue
         \/ Merge /\ o.inputs \subseteq live /\ o.at = tick /\ o.mark = epoch + 1
<1>1. CASE Tick
  BY <1>1, BeginTickKeepsCore, MergeKeepsCore, MarkKeepsCore, JudgeKeepsCore, JudgedKeepsCore,
     RetireKeepsCore, EndTickKeepsCore DEF Tick
<1>2. CASE WriterStep \/ ReaderStep \/ SnapshotStep \/ Restart
  BY <1>2, WriterKeepsCore, ReaderKeepsCore, SnapshotKeepsCore, RestartKeepsCore DEF WriterStep
<1> QED
  BY <1>1, <1>2, NextSteps

LEMMA DueSteps ==
  ASSUME Core, Next, NEW d \in Entries(due')
  PROVE  \/ d \in Entries(due)
         \/ Judge /\ d.outcome \in InQueue /\ (Drained(d.outcome.mark) \/ d.leaked)
<1>1. CASE UNCHANGED due \/ due' = << >>
  BY <1>1, EntriesOfEmpty
<1>2. CASE Judge
  BY <1>2, JudgeKeepsCore
<1>3. CASE Retire
  BY <1>3, RetireKeepsCore
<1>4. CASE BeginTick \/ Merge \/ Mark \/ Judged \/ EndTick \/ Restart
  BY <1>1, <1>4, EndTickKeepsCore
  DEF BeginTick, Merge, Steady, Mark, Judged, Restart, queue
<1>5. CASE WriterStep \/ ReaderStep \/ SnapshotStep
  <2>1. UNCHANGED due
    BY <1>5 DEF WriterStep, WriteFile, CommitFile, Detach, GrowOld, Remaining, ReaderStep, Enter,
       Resolve, Leave, ResolveAsOf, Elsewhere, SnapshotStep, TakeSnapshot, PublishSnapshot,
       DropSnapshot, Refresh, Aside, queue
  <2> QED
    BY <1>1, <2>1
<1> QED
  BY <1>2, <1>3, <1>4, <1>5, NextSteps DEF Tick

LEMMA DiskSteps ==
  ASSUME Core, Next, SweepEvery = 0
  PROVE  \/ onDisk \subseteq onDisk' /\ presumed \subseteq presumed'
         \/ /\ Retire
            /\ \E d \in Entries(due) :
                 /\ d.age >= Grace
                 /\ onDisk' = onDisk \ (d.outcome.inputs \ Pinned)
                 /\ presumed' = IF d.leaked THEN presumed \cup (d.outcome.inputs \ Pinned)
                                            ELSE presumed
<1>1. CASE Retire
  BY <1>1, RetireKeepsCore
<1>2. CASE EndTick
  BY <1>2, EndTickKeepsCore DEF EndTick
<1>3. CASE Merge
  BY <1>3 DEF Merge, Replace, Steady, table
<1>4. CASE BeginTick \/ Mark \/ Judge \/ Judged \/ Restart
  BY <1>4 DEF BeginTick, Mark, Judge, Judged, Restart, table
<1>5. CASE WriterStep
  BY <1>5 DEF WriterStep, WriteFile, CommitFile, Detach, GrowOld, Remaining
<1>6. CASE ReaderStep
  BY <1>6 DEF ReaderStep, Enter, Resolve, Leave, ResolveAsOf, Elsewhere, table
<1>7. CASE SnapshotStep
  BY <1>7 DEF SnapshotStep, TakeSnapshot, PublishSnapshot, DropSnapshot, Refresh, Aside, table
<1> QED
  BY <1>1, <1>2, <1>3, <1>4, <1>5, <1>6, <1>7, NextSteps DEF Tick

LEMMA MaintenanceLeaves ==
  ASSUME Tick \/ WriterStep
  PROVE  /\ UNCHANGED << inside, holds, asOf, snap, pinned, reading >>
         /\ BeginTick \/ UNCHANGED << fresh, tick, told >>
<1>1. CASE BeginTick
  BY <1>1 DEF BeginTick, lease, pins
<1>2. CASE Merge
  BY <1>2 DEF Merge, Steady, lease, pins
<1>3. CASE Mark
  BY <1>3 DEF Mark, pins
<1>4. CASE Judge
  BY <1>4 DEF Judge, lease, pins
<1>5. CASE Judged
  BY <1>5 DEF Judged, lease, pins
<1>6. CASE Retire
  BY <1>6 DEF Retire, lease, pins
<1>7. CASE EndTick
  BY <1>7 DEF EndTick, lease, pins
<1>8. CASE WriterStep
  BY <1>8 DEF WriterStep, WriteFile, CommitFile, Detach, GrowOld, Remaining, lease, pins
<1> QED
  BY <1>1, <1>2, <1>3, <1>4, <1>5, <1>6, <1>7, <1>8 DEF Tick

-----------------------------------------------------------------------------
(* Readers.  Their part of the inductive invariant.                        *)

Inside ==
  \A r \in Readers :
    /\ inside[r] = 0 => asOf[r] = "nothing"
    /\ asOf[r] \in Snapshots =>
         holds[r] = pinned[asOf[r]] /\ snap[asOf[r]] \in { "held", "dropped" }

HoldersAreOlder ==
  \A o \in InQueue, r \in Readers :
    asOf[r] = "present" /\ holds[r] \cap o.inputs # {} => inside[r] < o.mark

DrainedIsUnread ==
  \A d \in Entries(due), r \in Readers :
    ~d.leaked /\ asOf[r] = "present" => holds[r] \cap d.outcome.inputs = {}

PresentIsThere ==
  \A r \in Readers : asOf[r] = "present" => holds[r] \subseteq onDisk \cup presumed

ReadersSafe == Inside /\ HoldersAreOlder /\ DrainedIsUnread /\ PresentIsThere

LEMMA ReadersInitially == Init => ReadersSafe
<1> SUFFICES ASSUME Init PROVE ReadersSafe
  OBVIOUS
<1>1. \A r \in Readers : asOf[r] = "nothing"
  BY DEF Init
<1> QED
  BY <1>1, ReclamationAssumption DEF ReadersSafe, Inside, HoldersAreOlder, DrainedIsUnread,
     PresentIsThere

LEMMA ReaderKeepsReadersSafe ==
  ASSUME Core, ReadersSafe, ReaderStep
  PROVE  ReadersSafe'
<1>1. /\ UNCHANGED << table, pins, presumed, queue >>
      /\ InQueue' = InQueue
  BY ReaderKeepsCore DEF ReaderStep, Enter, Resolve, Leave, ResolveAsOf, Elsewhere
<1>2. UNCHANGED << live, onDisk, snap, pinned, presumed, due >>
  BY <1>1 DEF table, pins, queue
<1>3. PICK r \in Readers : \/ Enter(r) \/ Resolve(r) \/ Leave(r)
                           \/ \E s \in Snapshots : ResolveAsOf(r, s)
  BY DEF ReaderStep
<1>4. ASSUME NEW q \in Readers, q # r
      PROVE  inside'[q] = inside[q] /\ holds'[q] = holds[q] /\ asOf'[q] = asOf[q]
  BY <1>3, <1>4 DEF Enter, Resolve, Leave, ResolveAsOf, Core, Typed
<1>5. /\ inside'[r] = 0 => asOf'[r] = "nothing"
      /\ asOf'[r] \in Snapshots =>
           holds'[r] = pinned[asOf'[r]] /\ snap[asOf'[r]] \in { "held", "dropped" }
      /\ asOf'[r] = "present" => \/ holds'[r] = live
                                 \/ /\ asOf[r] = "present" /\ holds'[r] = holds[r]
                                    /\ inside'[r] = inside[r]
  <2>1. /\ r \in DOMAIN inside /\ r \in DOMAIN holds /\ r \in DOMAIN asOf
        /\ epoch # 0 /\ "nothing" \notin Snapshots /\ "present" \notin Snapshots
    BY ReclamationAssumption DEF Core, Typed
  <2>2. CASE Enter(r)
    BY <2>1, <2>2 DEF Enter, ReadersSafe, Inside
  <2>3. CASE Resolve(r)
    BY <2>1, <2>3 DEF Resolve, ReadersSafe, Inside
  <2>4. CASE Leave(r)
    BY <2>1, <2>4 DEF Leave, ReadersSafe, Inside
  <2>5. CASE \E s \in Snapshots : ResolveAsOf(r, s)
    BY <2>1, <2>5 DEF ResolveAsOf, ReadersSafe, Inside
  <2> QED
    BY <1>3, <2>2, <2>3, <2>4, <2>5
<1>6. Inside'
  BY <1>2, <1>4, <1>5 DEF ReadersSafe, Inside
<1>7. \A o \in InQueue : live \cap o.inputs = {}
  BY DEF Core, OutcomesApart
<1>8. HoldersAreOlder'
  BY <1>1, <1>4, <1>5, <1>7 DEF ReadersSafe, HoldersAreOlder
<1>9. DrainedIsUnread'
  <2>1. \A d \in Entries(due) : d.outcome \in InQueue
    BY DEF InQueue
  <2> QED
    BY <1>2, <1>4, <1>5, <1>7, <2>1 DEF ReadersSafe, DrainedIsUnread
<1>10. PresentIsThere'
  BY <1>2, <1>4, <1>5 DEF ReadersSafe, PresentIsThere, Core, FilesApart
<1> QED
  BY <1>6, <1>8, <1>9, <1>10 DEF ReadersSafe

LEMMA SnapshotKeepsReadersSafe ==
  ASSUME Core, ReadersSafe, SnapshotStep
  PROVE  ReadersSafe'
<1>1. UNCHANGED << table, lease, queue, presumed >> /\ InQueue' = InQueue
  BY SnapshotKeepsCore
  DEF SnapshotStep, TakeSnapshot, PublishSnapshot, DropSnapshot, Refresh, Aside
<1>2. UNCHANGED << onDisk, inside, holds, asOf, due, presumed >>
  BY <1>1 DEF table, lease, queue
<1>3. \A s \in Snapshots :
        snap[s] \in { "held", "dropped" } =>
          pinned'[s] = pinned[s] /\ snap'[s] \in { "held", "dropped" }
  BY DEF SnapshotStep, TakeSnapshot, PublishSnapshot, DropSnapshot, Refresh, Core, Typed
<1>4. Inside'
  BY <1>2, <1>3 DEF ReadersSafe, Inside
<1>5. HoldersAreOlder' /\ DrainedIsUnread' /\ PresentIsThere'
  BY <1>1, <1>2 DEF ReadersSafe, HoldersAreOlder, DrainedIsUnread, PresentIsThere
<1> QED
  BY <1>4, <1>5 DEF ReadersSafe

LEMMA MaintenanceKeepsReadersSafe ==
  ASSUME Core, SweepEvery = 0, ReadersSafe, Tick \/ WriterStep
  PROVE  ReadersSafe'
<1>1. UNCHANGED << inside, holds, asOf, snap, pinned >> /\ Next
  BY MaintenanceLeaves, NextSteps
<1>2. Inside'
  BY <1>1 DEF ReadersSafe, Inside
<1>3. HoldersAreOlder'
  <2>1. ASSUME NEW o \in InQueue', NEW r \in Readers, asOf[r] = "present",
               holds[r] \cap o.inputs # {}
        PROVE  inside[r] < o.mark
    <3>1. CASE o \in InQueue
      BY <2>1, <3>1 DEF ReadersSafe, HoldersAreOlder
    <3>2. CASE o.mark = epoch + 1
      BY <3>2 DEF Core, Typed
    <3> QED
      BY <1>1, <3>1, <3>2, QueueSteps
  <2> QED
    BY <1>1, <2>1 DEF HoldersAreOlder
<1>4. DrainedIsUnread'
  <2>1. ASSUME NEW d \in Entries(due'), NEW r \in Readers, ~d.leaked, asOf[r] = "present"
        PROVE  holds[r] \cap d.outcome.inputs = {}
    <3>1. CASE d \in Entries(due)
      BY <2>1, <3>1 DEF ReadersSafe, DrainedIsUnread
    <3>2. CASE d.outcome \in InQueue /\ Drained(d.outcome.mark)
      <4>1. inside[r] # 0 /\ inside[r] \in Nat /\ d.outcome.mark \in Nat
        BY <2>1, <3>2, OutcomesTyped DEF ReadersSafe, Inside, Core, Typed, Outcomes
      <4>2. ~(inside[r] < d.outcome.mark)
        BY <3>2, <4>1 DEF Drained
      <4> QED
        BY <2>1, <3>2, <4>2 DEF ReadersSafe, HoldersAreOlder
    <3> QED
      BY <1>1, <2>1, <3>1, <3>2, DueSteps
  <2> QED
    BY <1>1, <2>1 DEF DrainedIsUnread
<1>5. PresentIsThere'
  <2>1. CASE onDisk \subseteq onDisk' /\ presumed \subseteq presumed'
    BY <1>1, <2>1 DEF ReadersSafe, PresentIsThere
  <2>2. ASSUME NEW d \in Entries(due),
               onDisk' = onDisk \ (d.outcome.inputs \ Pinned),
               presumed' = IF d.leaked THEN presumed \cup (d.outcome.inputs \ Pinned)
                                       ELSE presumed
        PROVE  PresentIsThere'
    <3>1. ASSUME NEW r \in Readers, asOf[r] = "present"
          PROVE  holds[r] \subseteq onDisk' \cup presumed'
      <4>1. holds[r] \subseteq onDisk \cup presumed
        BY <3>1 DEF ReadersSafe, PresentIsThere
      <4>2. CASE d.leaked
        BY <2>2, <4>1, <4>2
      <4>3. CASE ~d.leaked
        <5>1. holds[r] \cap d.outcome.inputs = {}
          BY <3>1, <4>3 DEF ReadersSafe, DrainedIsUnread
        <5> QED
          BY <2>2, <4>1, <4>3, <5>1
      <4> QED
        BY <4>2, <4>3
    <3> QED
      BY <1>1, <3>1 DEF PresentIsThere
  <2> QED
    BY <1>1, <2>1, <2>2, DiskSteps
<1> QED
  BY <1>2, <1>3, <1>4, <1>5 DEF ReadersSafe

LEMMA ReadersKept ==
  ASSUME SweepEvery = 0
  PROVE  Core /\ ReadersSafe /\ [Next]_vars => ReadersSafe'
<1> SUFFICES ASSUME Core, ReadersSafe, [Next]_vars PROVE ReadersSafe'
  OBVIOUS
<1>1. CASE Tick \/ WriterStep
  BY <1>1, MaintenanceKeepsReadersSafe
<1>2. CASE ReaderStep
  BY <1>2, ReaderKeepsReadersSafe
<1>3. CASE SnapshotStep
  BY <1>3, SnapshotKeepsReadersSafe
<1>4. CASE Restart
  <2>1. \A r \in Readers : asOf'[r] = "nothing"
    BY <1>4 DEF Restart
  <2> QED
    BY <2>1, ReclamationAssumption DEF ReadersSafe, Inside, HoldersAreOlder, DrainedIsUnread,
       PresentIsThere
<1>5. CASE UNCHANGED vars
  <2>1. UNCHANGED << table, lease, pins, queue, presumed >>
    BY <1>5 DEF vars
  <2>2. UNCHANGED << onDisk, inside, holds, asOf, snap, pinned, pending, waiting, due, presumed >>
    BY <2>1 DEF table, lease, pins, queue
  <2>3. InQueue' = InQueue
    BY <2>2 DEF InQueue
  <2> QED
    BY <2>2, <2>3 DEF ReadersSafe, Inside, HoldersAreOlder, DrainedIsUnread, PresentIsThere
<1> QED
  BY <1>1, <1>2, <1>3, <1>4, <1>5, NextSteps

-----------------------------------------------------------------------------
(* Snapshots.  Their part of the inductive invariant.                      *)

PinsAreTold ==
  \A o \in InQueue, s \in Snapshots :
    pinned[s] \cap o.inputs # {} =>
      /\ snap[s] = "taking" => o.at = tick
      /\ snap[s] = "held" /\ o.at < tick /\ fresh => s \in reading.known \/ reading.blind
      /\ snap[s] = "held" /\ o.at + 1 < tick => s \in told.known \/ told.blind

PinsAreThere ==
  \A s \in Snapshots : snap[s] \in { "taking", "held" } => pinned[s] \subseteq onDisk

PinsSafe == PinsAreTold /\ PinsAreThere

LEMMA PinsInitially == Init => PinsSafe
<1> SUFFICES ASSUME Init PROVE PinsSafe
  OBVIOUS
<1>1. InQueue = {}
  BY EntriesOfEmpty DEF InQueue, Init
<1> QED
  BY <1>1 DEF PinsSafe, PinsAreTold, PinsAreThere, Init

LEMMA SnapshotKeepsPinsSafe ==
  ASSUME Core, PinsSafe, SnapshotStep
  PROVE  PinsSafe'
<1>1. UNCHANGED << table, tick, told >> /\ InQueue' = InQueue
  BY SnapshotKeepsCore
  DEF SnapshotStep, TakeSnapshot, PublishSnapshot, DropSnapshot, Refresh, Aside
<1>2. UNCHANGED << live, onDisk >>
  BY <1>1 DEF table
<1>3. /\ snap \in [Snapshots -> { "absent", "taking", "held", "dropped" }]
      /\ pinned \in [Snapshots -> SUBSET Files]
      /\ live \subseteq onDisk
      /\ \A o \in InQueue : live \cap o.inputs = {}
  BY DEF Core, Typed, FilesApart, OutcomesApart
<1>4. CASE \E s \in Snapshots : TakeSnapshot(s)
  <2> PICK s \in Snapshots : TakeSnapshot(s)
    BY <1>4
  <2>1. /\ snap'[s] = "taking" /\ pinned'[s] = live /\ UNCHANGED << reading, fresh >>
        /\ \A t \in Snapshots \ {s} : snap'[t] = snap[t] /\ pinned'[t] = pinned[t]
    BY <1>3 DEF TakeSnapshot
  <2>2. PinsAreTold'
    BY <1>1, <1>3, <2>1 DEF PinsSafe, PinsAreTold
  <2>3. PinsAreThere'
    BY <1>2, <1>3, <2>1 DEF PinsSafe, PinsAreThere
  <2> QED
    BY <2>2, <2>3 DEF PinsSafe
<1>5. CASE \E s \in Snapshots : PublishSnapshot(s) \/ DropSnapshot(s)
  <2> PICK s \in Snapshots : PublishSnapshot(s) \/ DropSnapshot(s)
    BY <1>5
  <2>1. /\ UNCHANGED << pinned, reading, fresh >>
        /\ \A t \in Snapshots \ {s} : snap'[t] = snap[t]
        /\ (snap[s] = "taking" /\ snap'[s] = "held") \/ snap'[s] = "dropped"
    BY <1>3 DEF PublishSnapshot, DropSnapshot
  <2>2. ASSUME NEW o \in InQueue PROVE o.at \in Nat /\ tick \in Nat
    BY OutcomesTyped DEF Core, Typed, Outcomes
  <2>3. PinsAreTold'
    BY <1>1, <2>1, <2>2 DEF PinsSafe, PinsAreTold
  <2>4. PinsAreThere'
    BY <1>2, <2>1 DEF PinsSafe, PinsAreThere
  <2> QED
    BY <2>3, <2>4 DEF PinsSafe
<1>6. CASE Refresh
  <2>1. /\ UNCHANGED << snap, pinned >>
        /\ \A s \in Snapshots : snap[s] = "held" => s \in reading'.known \/ reading'.blind
    BY <1>6 DEF Refresh
  <2>2. PinsAreTold'
    BY <1>1, <2>1 DEF PinsSafe, PinsAreTold
  <2>3. PinsAreThere'
    BY <1>2, <2>1 DEF PinsSafe, PinsAreThere
  <2> QED
    BY <2>2, <2>3 DEF PinsSafe
<1> QED
  BY <1>4, <1>5, <1>6 DEF SnapshotStep

LEMMA MaintenanceKeepsPinsSafe ==
  ASSUME Core, SweepEvery = 0, Grace >= 2, PinsSafe, Tick \/ WriterStep
  PROVE  PinsSafe'
<1>1. UNCHANGED << snap, pinned, reading >> /\ Next
  BY MaintenanceLeaves, NextSteps
<1>2. ASSUME NEW o \in InQueue PROVE o.at \in Nat /\ tick \in Nat /\ o.at <= tick
  BY OutcomesTyped DEF Core, Queues, Typed, Outcomes
<1>3. PinsAreTold'
  <2>1. CASE BeginTick
    <3>1. /\ InQueue' = InQueue /\ fresh /\ fresh' = FALSE /\ tick' = tick + 1 /\ told' = reading
          /\ \A s \in Snapshots : snap[s] # "taking"
      BY <2>1, BeginTickKeepsCore DEF BeginTick
    <3> QED
      BY <1>1, <1>2, <3>1 DEF PinsSafe, PinsAreTold
  <2>2. CASE UNCHANGED << fresh, tick, told >>
    <3>1. ASSUME NEW o \in InQueue', NEW s \in Snapshots, pinned[s] \cap o.inputs # {}
          PROVE  /\ snap[s] = "taking" => o.at = tick
                 /\ snap[s] = "held" /\ o.at < tick /\ fresh => s \in reading.known \/ reading.blind
                 /\ snap[s] = "held" /\ o.at + 1 < tick => s \in told.known \/ told.blind
      <4>1. CASE o \in InQueue
        BY <3>1, <4>1 DEF PinsSafe, PinsAreTold
      <4>2. CASE o.at = tick
        BY <4>2 DEF Core, Typed
      <4> QED
        BY <1>1, <4>1, <4>2, QueueSteps
    <3> QED
      BY <1>1, <2>2, <3>1 DEF PinsAreTold
  <2> QED
    BY <2>1, <2>2, MaintenanceLeaves
<1>4. PinsAreThere'
  <2>1. CASE onDisk \subseteq onDisk'
    BY <1>1, <2>1 DEF PinsSafe, PinsAreThere
  <2>2. ASSUME NEW d \in Entries(due), Retire, d.age >= Grace,
               onDisk' = onDisk \ (d.outcome.inputs \ Pinned)
        PROVE  PinsAreThere'
    <3>1. d.outcome \in InQueue /\ d.age = tick - d.outcome.at /\ ~told.blind
      BY <2>2 DEF InQueue, Core, Queues, Phases, Retire
    <3>2. d.outcome.at + 1 < tick
      BY <1>2, <2>2, <3>1, ReclamationAssumption
    <3>3. ASSUME NEW s \in Snapshots, snap[s] \in { "taking", "held" },
                 pinned[s] \cap d.outcome.inputs # {}
          PROVE  pinned[s] \subseteq Pinned
      <4>1. snap[s] = "held" /\ s \in told.known
        BY <1>2, <3>1, <3>2, <3>3 DEF PinsSafe, PinsAreTold
      <4> QED
        BY <4>1 DEF Pinned
    <3> QED
      BY <1>1, <2>2, <3>3 DEF PinsSafe, PinsAreThere
  <2> QED
    BY <1>1, <2>1, <2>2, DiskSteps
<1> QED
  BY <1>3, <1>4 DEF PinsSafe

LEMMA PinsKept ==
  ASSUME SweepEvery = 0, Grace >= 2
  PROVE  Core /\ PinsSafe /\ [Next]_vars => PinsSafe'
<1> SUFFICES ASSUME Core, PinsSafe, [Next]_vars PROVE PinsSafe'
  OBVIOUS
<1>1. CASE Tick \/ WriterStep
  BY <1>1, MaintenanceKeepsPinsSafe
<1>2. CASE SnapshotStep
  BY <1>2, SnapshotKeepsPinsSafe
<1>3. CASE Restart
  <2>1. /\ InQueue' = {} /\ UNCHANGED << onDisk, pinned >>
        /\ snap' = [s \in Snapshots |-> IF snap[s] = "taking" THEN "absent" ELSE snap[s]]
    BY <1>3, RestartKeepsCore DEF Restart
  <2> QED
    BY <2>1 DEF PinsSafe, PinsAreTold, PinsAreThere
<1>4. CASE ReaderStep \/ UNCHANGED vars
  <2>1. UNCHANGED << table, pins, fresh, tick, told, queue >>
    BY <1>4 DEF vars, ReaderStep, Enter, Resolve, Leave, ResolveAsOf, Elsewhere
  <2>2. UNCHANGED << onDisk, snap, pinned, reading, pending, waiting, due, fresh, tick, told >>
    BY <2>1 DEF table, pins, queue
  <2>3. InQueue' = InQueue
    BY <2>2 DEF InQueue
  <2> QED
    BY <2>2, <2>3 DEF PinsSafe, PinsAreTold, PinsAreThere
<1> QED
  BY <1>1, <1>2, <1>3, <1>4, NextSteps

-----------------------------------------------------------------------------
(* Without a sweep, and with a grace of at least two ticks.                *)

(* A snapshot that exists can be read, whatever maintenance was told: what *)
(* a tick retires was merged two ticks ago, so that a snapshot which names *)
(* it was there when the tick before asked.                                *)
THEOREM SnapshotsReadable ==
  ASSUME SweepEvery = 0, Grace >= 2
  PROVE  Spec => []SnapshotsStayReadable
<1>1. Init => PinsSafe
  BY PinsInitially
<1>2. Core /\ PinsSafe /\ [Next]_vars => PinsSafe'
  BY PinsKept
<1>3. PinsSafe => SnapshotsStayReadable
  BY DEF PinsSafe, PinsAreThere, SnapshotsStayReadable
<1> QED
  BY <1>1, <1>2, <1>3, CoreAlways, PTL DEF Spec

(* A statement keeps every file it resolved until it ends.                 *)
THEOREM ReadersUndisturbed ==
  ASSUME SweepEvery = 0, Grace >= 2
  PROVE  Spec => []ReadersKeepTheirFiles
<1>1. Init => PinsSafe /\ ReadersSafe
  BY PinsInitially, ReadersInitially
<1>2. Core /\ PinsSafe /\ ReadersSafe /\ [Next]_vars => PinsSafe' /\ ReadersSafe'
  BY PinsKept, ReadersKept
<1>3. PinsSafe /\ ReadersSafe => ReadersKeepTheirFiles
  BY DEF PinsSafe, PinsAreThere, ReadersSafe, Inside, PresentIsThere, ReadersKeepTheirFiles
<1> QED
  BY <1>1, <1>2, <1>3, CoreAlways, PTL DEF Spec
=============================================================================
