---------------------------- MODULE Reclamation ----------------------------
(***************************************************************************)
(* One table's Maintainer (crates/sankhya-maintenance): merge, queue the   *)
(* inputs, retire what has waited, sweep what nothing names, against       *)
(* readers announced in the lease registry, snapshots that pin versions,   *)
(* writers, and restarts of the process.                                   *)
(*                                                                         *)
(* Abstracted: the registry answers at once (Leases is about how it does), *)
(* a commit is one step (TableLog is about that), one merge per tick, a    *)
(* version is the set of its live files, a clone pins one as a snapshot    *)
(* does.  File ages: a file may become old at any time unless its commit   *)
(* is still in flight, which is what OrphanPolicy::min_age_ticks assumes.  *)
(***************************************************************************)
EXTENDS Integers, FiniteSets, Sequences

CONSTANTS
  Readers,     \* statements
  Snapshots,   \* names a snapshot may have
  Grace,       \* grace_ticks
  Leak,        \* leak_ticks; zero disables the backstop
  SweepEvery,  \* orphan_sweep_every; zero disables the sweep
  Expires,     \* whether an expiry detaches files: it does of the quarantine
  MaxTicks,    \* bound: no more ticks between two restarts
  MaxFiles,    \* bound: no more data files
  MaxRestarts  \* bound: no more restarts

ASSUME ReclamationAssumption ==
  /\ Expires \in BOOLEAN
  /\ Grace \in Nat /\ Leak \in Nat /\ SweepEvery \in Nat
  /\ MaxTicks \in Nat /\ MaxFiles \in Nat \ {0, 1} /\ MaxRestarts \in Nat
  /\ "nothing" \notin Snapshots /\ "present" \notin Snapshots

Files    == 1..MaxFiles
Outcomes == [inputs : SUBSET Files, output : Files, at : 1..MaxTicks, mark : Nat]
Reading  == [known : SUBSET Snapshots, blind : BOOLEAN]

VARIABLES
  (* the table *)
  live,      \* the files its newest version names
  onDisk,
  flight,    \* written and not committed yet
  old,       \* past the sweep's age threshold
  used,      \* how many file names were used
  (* what may still need a file *)
  epoch,     \* the registry's clock
  inside,    \* inside[r]: the epoch reader r announced, or 0
  holds,     \* holds[r]: the files it resolved
  asOf,      \* asOf[r]: "nothing" yet, the "present", or a snapshot
  snap,      \* snap[s]: "absent", being taken, held or dropped
  pinned,    \* pinned[s]: the files of the version it recorded
  reading,   \* the shared StillReading
  fresh,     \* whether it was refreshed since the last tick began
  (* the maintainer *)
  pc,
  tick,
  told,      \* what the tick was told still reads the table
  pending,   \* merges waiting, with tick and mark
  waiting,   \* those this tick decided to go on waiting for
  due,       \* those it decided to retire, and why
  restarts,
  presumed   \* history: the files the backstop retired

table      == << live, onDisk, flight, old, used >>
lease      == << epoch, inside, holds, asOf >>
pins       == << snap, pinned, reading >>
queue      == << pending, waiting, due >>
vars       == << table, lease, pins, fresh, pc, tick, told, queue, restarts, presumed >>

Blank == [known |-> {}, blind |-> FALSE]

-----------------------------------------------------------------------------
TypeOK ==
  /\ live \subseteq Files /\ onDisk \subseteq 1..used /\ flight \subseteq onDisk
  /\ old \subseteq onDisk /\ used \in 2..MaxFiles
  /\ epoch \in Nat \ {0}
  /\ inside \in [Readers -> 0..epoch]
  /\ holds \in [Readers -> SUBSET Files]
  /\ asOf \in [Readers -> Snapshots \cup { "nothing", "present" }]
  /\ snap \in [Snapshots -> { "absent", "taking", "held", "dropped" }]
  /\ pinned \in [Snapshots -> SUBSET Files]
  /\ reading \in Reading /\ told \in Reading
  /\ fresh \in BOOLEAN
  /\ pc \in { "idle", "merging", "marking", "judging", "retiring" }
  /\ tick \in 0..MaxTicks
  /\ \A q \in { pending, waiting } : \A i \in DOMAIN q :
       q[i] \in Outcomes /\ q[i].at <= tick /\ q[i].mark <= epoch + 1
  /\ \A i \in DOMAIN due :
       due[i] \in [outcome : Outcomes, age : 0..tick, leaked : BOOLEAN]
  /\ restarts \in 0..MaxRestarts
  /\ presumed \subseteq Files

Init ==
  /\ live = {1, 2} /\ onDisk = live /\ flight = {} /\ old = {} /\ used = 2
  /\ epoch = 1
  /\ inside = [r \in Readers |-> 0]
  /\ holds = [r \in Readers |-> {}]
  /\ asOf = [r \in Readers |-> "nothing"]
  /\ snap = [s \in Snapshots |-> "absent"]
  /\ pinned = [s \in Snapshots |-> {}]
  /\ reading = Blank /\ told = Blank
  /\ fresh = TRUE
  /\ pc = "idle" /\ tick = 0
  /\ pending = << >> /\ waiting = << >> /\ due = << >>
  /\ restarts = 0
  /\ presumed = {}

-----------------------------------------------------------------------------
(* Writers and time.                                                       *)

Remaining == << lease, pins, fresh, pc, tick, told, queue, restarts, presumed >>

WriteFile ==
  /\ used < MaxFiles /\ flight = {}
  /\ used' = used + 1
  /\ onDisk' = onDisk \cup {used'}
  /\ flight' = {used'}
  /\ UNCHANGED << live, old, Remaining >>

CommitFile ==
  /\ flight # {}
  /\ live' = live \cup flight
  /\ flight' = {}
  /\ UNCHANGED << onDisk, old, used, Remaining >>

(* An expiry detaches a file and leaves it on disk.                        *)
Detach(f) ==
  /\ Expires /\ f \in live
  /\ live' = live \ {f}
  /\ UNCHANGED << onDisk, flight, old, used, Remaining >>

(* Only the sweep asks how old a file is.                                  *)
GrowOld(f) ==
  /\ SweepEvery > 0
  /\ f \in onDisk \ (flight \cup old)
  /\ old' = old \cup {f}
  /\ UNCHANGED << live, onDisk, flight, used, Remaining >>

-----------------------------------------------------------------------------
(* Readers: run_statement announces itself, then resolves.                 *)

Elsewhere == << table, pins, fresh, pc, tick, told, queue, restarts, presumed >>

(* Only the order of pins and marks matters, so that the clock of the      *)
(* model moves with the marks.                                             *)
Enter(r) ==
  /\ inside[r] = 0
  /\ inside' = [inside EXCEPT ![r] = epoch]
  /\ UNCHANGED << epoch, holds, asOf, Elsewhere >>

Resolve(r) ==
  /\ inside[r] # 0 /\ asOf[r] = "nothing"
  /\ asOf' = [asOf EXCEPT ![r] = "present"]
  /\ holds' = [holds EXCEPT ![r] = live]
  /\ UNCHANGED << epoch, inside, Elsewhere >>

(* SET SNAPSHOT: resolved at the pinned version, refused if it is gone.    *)
ResolveAsOf(r, s) ==
  /\ inside[r] # 0 /\ asOf[r] = "nothing"
  /\ snap[s] = "held" /\ pinned[s] \subseteq onDisk
  /\ asOf' = [asOf EXCEPT ![r] = s]
  /\ holds' = [holds EXCEPT ![r] = pinned[s]]
  /\ UNCHANGED << epoch, inside, Elsewhere >>

Leave(r) ==
  /\ inside[r] # 0
  /\ inside' = [inside EXCEPT ![r] = 0]
  /\ holds' = [holds EXCEPT ![r] = {}]
  /\ asOf' = [asOf EXCEPT ![r] = "nothing"]
  /\ UNCHANGED << epoch, Elsewhere >>

-----------------------------------------------------------------------------
(* Snapshots, and the task that tells maintenance about them.              *)

Aside == << table, lease, pc, tick, told, queue, restarts, presumed >>

(* CREATE SNAPSHOT reads the versions, then writes its document.           *)
TakeSnapshot(s) ==
  /\ snap[s] = "absent"
  /\ snap' = [snap EXCEPT ![s] = "taking"]
  /\ pinned' = [pinned EXCEPT ![s] = live]
  /\ UNCHANGED << reading, fresh, Aside >>

PublishSnapshot(s) ==
  /\ snap[s] = "taking"
  /\ snap' = [snap EXCEPT ![s] = "held"]
  /\ UNCHANGED << pinned, reading, fresh, Aside >>

DropSnapshot(s) ==
  /\ snap[s] = "held"
  /\ snap' = [snap EXCEPT ![s] = "dropped"]
  /\ UNCHANGED << pinned, reading, fresh, Aside >>

(* still_reading.  A document that cannot be read is a hole in the answer. *)
Refresh ==
  /\ \E blind \in BOOLEAN, known \in SUBSET { s \in Snapshots : snap[s] = "held" } :
       /\ ~blind => known = { s \in Snapshots : snap[s] = "held" }
       /\ reading' = [known |-> known, blind |-> blind]
  /\ fresh' = TRUE
  /\ UNCHANGED << snap, pinned, Aside >>

-----------------------------------------------------------------------------
(* Maintainer::tick.                                                       *)

(* The two assumptions about time this rests on: the refresh, which keeps  *)
(* the maintenance interval but is another task, runs between two ticks,   *)
(* and taking a snapshot does not outlast the wait for one.                *)
BeginTick ==
  /\ pc = "idle" /\ tick < MaxTicks
  /\ fresh /\ \A s \in Snapshots : snap[s] # "taking"
  /\ tick' = tick + 1
  /\ told' = reading
  /\ fresh' = FALSE
  /\ pc' = "merging"
  /\ UNCHANGED << table, lease, pins, queue, restarts, presumed >>

Replace(inputs) ==
  /\ used' = used + 1
  /\ onDisk' = onDisk \cup {used'}
  /\ live' = (live \ inputs) \cup {used'}
  /\ UNCHANGED << flight, old >>

Queued(inputs) ==
  pending' = Append(pending, [inputs |-> inputs, output |-> used', at |-> tick,
                              mark |-> epoch + 1])

Steady == << lease, pins, fresh, tick, told, waiting, due, restarts, presumed >>

(* execute_tick and commit_tick.  An error of either ends the tick: the    *)
(* output may be left behind, and the commit may have been made after all. *)
Merge ==
  /\ pc = "merging"
  /\ \/ pc' = "marking" /\ UNCHANGED << table, pending >>
     \/ \E inputs \in SUBSET live :
          /\ Cardinality(inputs) >= 2 /\ used < MaxFiles
          /\ \/ Replace(inputs) /\ Queued(inputs) /\ pc' = "marking"
             \/ Replace(inputs) /\ pc' = "idle" /\ UNCHANGED pending
             \/ /\ used' = used + 1 /\ onDisk' = onDisk \cup {used'}
                /\ pc' = "idle"
                /\ UNCHANGED << live, flight, old, pending >>
  /\ UNCHANGED Steady

(* Mutant: a picture with a hole in it is taken for the whole.             *)
MarkIgnoringHoles ==
  /\ pc = "marking"
  /\ epoch' = epoch + 1
  /\ waiting' = << >> /\ due' = << >>
  /\ pc' = "judging"
  /\ UNCHANGED << table, inside, holds, asOf, pins, fresh, tick, told, pending, restarts,
                  presumed >>

(* Leases::mark, every tick; then the gate: with a hole in the picture of  *)
(* what is pinned, nothing is deleted in this tick.                        *)
Mark ==
  /\ pc = "marking"
  /\ epoch' = epoch + 1
  /\ waiting' = << >> /\ due' = << >>
  /\ pc' = IF told.blind THEN "idle" ELSE "judging"
  /\ UNCHANGED << table, inside, holds, asOf, pins, fresh, tick, told, pending, restarts,
                  presumed >>

(* Mutant: the registry is not asked; age is all that protects a reader.   *)
AssumeDrained(mark) == TRUE

Drained(mark) == \A r \in Readers : inside[r] = 0 \/ inside[r] >= mark

(* retire_due asks the registry once for every entry, one after another.   *)
Judge ==
  /\ pc = "judging" /\ pending # << >>
  /\ LET it     == Head(pending)
         age    == tick - it.at
         leaked == Leak > 0 /\ age >= Leak /\ ~Drained(it.mark)
     IN  IF (age >= Grace /\ Drained(it.mark)) \/ leaked
           THEN /\ due' = Append(due, [outcome |-> it, age |-> age, leaked |-> leaked])
                /\ UNCHANGED waiting
           ELSE /\ waiting' = Append(waiting, it)
                /\ UNCHANGED due
  /\ pending' = Tail(pending)
  /\ UNCHANGED << table, lease, pins, fresh, pc, tick, told, restarts, presumed >>

Judged ==
  /\ pc = "judging" /\ pending = << >>
  /\ pending' = waiting /\ waiting' = << >>
  /\ pc' = "retiring"
  /\ UNCHANGED << table, lease, pins, fresh, tick, told, due, restarts, presumed >>

Pinned == UNION { pinned[s] : s \in told.known }

Remove(files) ==
  /\ onDisk' = onDisk \ files
  /\ old' = old \ files
  /\ UNCHANGED << live, flight, used >>

(* retire_inputs.  A replacement that is not there is an error, and the    *)
(* error takes everything else that was due with it.                       *)
Retire ==
  /\ pc = "retiring" /\ due # << >>
  /\ LET it   == Head(due)
         gone == IF it.age >= Grace THEN it.outcome.inputs \ Pinned ELSE {}
     IN  IF it.outcome.output \in onDisk
           THEN /\ Remove(gone)
                /\ presumed' = IF it.leaked THEN presumed \cup gone ELSE presumed
                /\ due' = Tail(due)
                /\ UNCHANGED pc
           ELSE /\ due' = << >> /\ pc' = "idle"
                /\ UNCHANGED << table, presumed >>
  /\ UNCHANGED << lease, pins, fresh, tick, told, pending, waiting, restarts >>

(* Mutant: the sweep takes what nothing names, however young.              *)
SweepAnyAge ==
  IF SweepEvery > 0 /\ tick % SweepEvery = 0
    THEN Remove(onDisk \ (live \cup Pinned))
    ELSE UNCHANGED table

(* collect_orphans: what is on disk, old, and neither live nor pinned.     *)
Sweep ==
  IF SweepEvery > 0 /\ tick % SweepEvery = 0
    THEN Remove(old \ (live \cup Pinned))
    ELSE UNCHANGED table

EndTick ==
  /\ pc = "retiring" /\ due = << >>
  /\ Sweep
  /\ pc' = "idle"
  /\ UNCHANGED << lease, pins, fresh, tick, told, queue, restarts, presumed >>

(* Mutant: the queue outlives the tick counter it was stamped with.        *)
RestartKeepingQueue ==
  /\ restarts < MaxRestarts
  /\ restarts' = restarts + 1
  /\ flight' = {}
  /\ epoch' = 1
  /\ inside' = [r \in Readers |-> 0]
  /\ holds' = [r \in Readers |-> {}]
  /\ asOf' = [r \in Readers |-> "nothing"]
  /\ snap' = [s \in Snapshots |-> IF snap[s] = "taking" THEN "absent" ELSE snap[s]]
  /\ reading' = Blank /\ told' = Blank /\ fresh' = TRUE
  /\ pc' = "idle" /\ tick' = 0
  /\ waiting' = << >> /\ due' = << >>
  /\ UNCHANGED << live, onDisk, old, used, pinned, presumed, pending >>

(* Files and snapshot documents survive; queue, registry, readers and what *)
(* maintenance was told do not.  A maintenance tick may come before the    *)
(* first refresh.  A snapshot being taken is not.                          *)
Restart ==
  /\ restarts < MaxRestarts
  /\ restarts' = restarts + 1
  /\ flight' = {}
  /\ epoch' = 1
  /\ inside' = [r \in Readers |-> 0]
  /\ holds' = [r \in Readers |-> {}]
  /\ asOf' = [r \in Readers |-> "nothing"]
  /\ snap' = [s \in Snapshots |-> IF snap[s] = "taking" THEN "absent" ELSE snap[s]]
  /\ reading' = Blank /\ told' = Blank /\ fresh' = TRUE
  /\ pc' = "idle" /\ tick' = 0
  /\ pending' = << >> /\ waiting' = << >> /\ due' = << >>
  /\ UNCHANGED << live, onDisk, old, used, pinned, presumed >>

Tick == BeginTick \/ Merge \/ Mark \/ Judge \/ Judged \/ Retire \/ EndTick

Next ==
  \/ Tick
  \/ WriteFile \/ CommitFile
  \/ \E f \in Files : Detach(f) \/ GrowOld(f)
  \/ \E r \in Readers : Enter(r) \/ Resolve(r) \/ Leave(r)
  \/ \E r \in Readers, s \in Snapshots : ResolveAsOf(r, s)
  \/ \E s \in Snapshots : TakeSnapshot(s) \/ PublishSnapshot(s) \/ DropSnapshot(s)
  \/ Refresh
  \/ Restart

Spec == Init /\ [][Next]_vars

-----------------------------------------------------------------------------
(* Properties.                                                             *)

(* What the log names is on disk, and so is a file whose commit is still   *)
(* in flight: no retirement and no sweep takes a file the table consists   *)
(* of, or is about to (OrphanPolicy::min_age_ticks, retire_inputs).        *)
TableIsWhole == live \cup flight \subseteq onDisk

(* A statement keeps every file it resolved until it ends, unless the      *)
(* backstop presumed its lease leaked, or it reads as of a snapshot that   *)
(* was dropped under it.                                                   *)
ReadersKeepTheirFiles ==
  \A r \in Readers :
    asOf[r] = "present" \/ (asOf[r] \in Snapshots /\ snap[asOf[r]] = "held")
      => holds[r] \subseteq onDisk \cup presumed

(* A snapshot that exists can be read: no file of the version it recorded  *)
(* is deleted while its document is there, whatever maintenance was told,  *)
(* through holes in the picture and restarts (ADR-0019, decision 5).       *)
SnapshotsStayReadable ==
  \A s \in Snapshots : snap[s] = "held" => pinned[s] \subseteq onDisk

(* Leases: "drained ... a file that stopped being referenced at `marked`   *)
(* is now unreachable by anybody: a reader that started earlier has gone,  *)
(* and a reader that started later resolved a log that does not name it".  *)
(* "No file is deleted while read" (ADR-0013, S3).                         *)
NoReaderLosesAFile ==
  \A r \in Readers : holds[r] \subseteq onDisk

(* retire_completed: "Returns an error only if a replacement cannot be     *)
(* verified, which means a compaction did not actually happen".  Every     *)
(* outcome that is queued did happen, so its output is there when its      *)
(* inputs are retired.                                                     *)
ReplacementIsThere ==
  \A i \in DOMAIN due : due[i].outcome.output \in onDisk
=============================================================================
