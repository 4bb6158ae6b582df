# sankhya, specified and checked

sankhya keeps tables as Parquet files named by a log of commits, takes rows in
from files and from change capture, merges small files in the background, and
answers SQL while all of that goes on. Its central promise is ADR-0013: no
commit is lost, no row is lost or doubled, and nothing is deleted while
somebody reads it, with no lock between readers, writers and maintenance.

This directory holds TLA+ specifications of the code that keeps that promise:
the reader registry, the commit protocol of the log, the feed that brings files
in exactly once, the reclamation of files, the pipeline that captures a
database's changes, the tiering of old ranges, the lock and the audit of a
warehouse, what a statement is served, and named snapshots. Each is written from
the Rust source and checked by TLC on small instances; eight modules carry
theorems TLAPS proves for every instance. Two runs are counterexamples, and more
that no run checks are listed: places where the code does not do what its own
text says.

    tlc -config MCFeed.cfg MCFeed.tla     # any run: module and cfg below
    tlapm IntakeProofs.tla                # any module of proofs

`PROJECT.json` lists the runs, the mutants that show each property can fail,
the lines of source behind each definition, the findings and the hazards.

## The system

| part | state it keeps | operations | what is hard | correct when |
|---|---|---|---|---|
| `sankhya-leases` | clock, slots, blanket count, all atomics | `pin`, `Pin::drop`, `mark`, `drained` | every interleaving of atomics; more readers than slots | `drained` never says yes too early; no reader is accounted for nowhere |
| `sankhya-table-delta` | `_delta_log`: one file per version | `commit`, walks, replay, checkpoints | committers with no lock; a link made and reported as failed | versions contiguous, commits immutable, losers told |
| `sankhya-atomicfs` | files and directories; the lock of a warehouse | `claim`, `write_durably`, `WarehouseLock::take`, `drop` | power loss, syncs that fail; a stale lock found by two | a name is claimed once; what was reported is durable; one server per warehouse |
| `sankhya-publish` | none: reads the log each time | `create`, `evolve`, `append_rebasing`, `append_recording` | metadata read for one attempt, stale at the next | rows and metadata visible together; rebase undoes nothing |
| `sankhya-maintenance` | queue of merges' inputs, tick, counters | `tick`: plan, merge, commit, mark, retire, sweep; `expire` | a picture of readers older than the tick; a restart; errors half-way | only what nobody needs is deleted; rows conserved |
| `sankhya-feed` | position in the table's metadata; registry in memory | `run`, `quarantine_all`, halt, `RESUME FEED` | crash between two commits; sources late or out of order | each fitting record once; each refused record set aside |
| `sankhya-server` | snapshots, shared `StillReading`, tasks | `run_statement`, snapshot statements, feed task, refresh | tasks at the same interval, unordered | a snapshot can be read while it exists |
| `sankhya-ingest`, `cdc-apply` | a batcher and a position per table, in memory; positions in the logs | accept, seal, flush, publish, evolve, quarantine | streamed transactions interleaved; a restart that batches at other boundaries; a publish that fails half-way | each table has whole transactions, once, up to the position it declares |
| `sankhya-cdc-pg`, `cdc-model` | slot position | decode, confirm | a slot confirmed too far | a slot moves only past what is published |
| `sankhya-tiering` | a journal per purge; registry and quarantine in the source database | verify, enter a phase, resume, reattach, reap, plan over both tiers | resume from any phase; a restored source; a reaper that reads no journal | no row is in neither tier; an archive is read only if it was proved |
| `sankhya-session`, `governor` | leases, permits | renew, expire, admit, cancel | renewal against expiry; one pool, many statements | no two holders; no permit lost |
| `sankhya-readpath`, the log cache, the list of servable tables | a replay per table; a list that every statement replaces | refresh, adopt, publish, resolve | commits between two reads of one log; two statements that publish | a statement reads no older version than it began at |
| `sankhya-clone` | a lineage in a clone's log | create, drop, flatten | a drop beside a create; a name used again | a clone reads the version it was made at, as long as it is there |
| `sankhya-snapshot` | documents naming versions | take, quote, expire, drop | commits while versions are read; two creators of one name; files left by a crash | one instant, and the same until it is dropped |
| `sankhya-audit` | a chain in memory, a journal of lines | append, read at startup, verify | a crash inside an append; a window shorter than the chain | what was not lost is there, in order, linked |
| `sankhya-backup` | manifest | back up, drill | a backup beside commits and retirement | a backup is whole |
| `sankhya-graph`, `table-memory` | epochs, buffer | publish, merge on read | a build beside a publication | a reader sees one version |

The rest are values, parsing, relational and numerical computation over
immutable input (mostly behind DataFusion), wire protocols in front of
`run_statement`, and build and test code; `PROJECT.json` lists them under
`components` with the reason each is left out.

How the parts touch each other:

    feed task ── run ──> Publication ──commit──> _delta_log <──commit── Maintainer
        │                    ^                       ^                   │   ^
        └─ expire ───────────┼───────────────────────┘        retire,    │   │ StillReading
    capture pipeline ────────┘                                sweep      v   │
    run_statement ── pin ──> Leases <── mark, drained ──── data files    refresh task
        ├── refresh, publish ──> list of servable tables                    ^
        ├── resolve ──> log cache ──> _delta_log                            │
        └── CREATE, DROP of a clone ──> a log with a lineage                │
    CREATE / DROP / SET SNAPSHOT ──> documents ─────────────────────────────┘
    server ── take ──> lock of the warehouse;  statement ── append ──> audit chain ──> journal
    purge ──> journal;  purge ──> registry, quarantine (source database) <── reap, plan

Statements meet each other in the list, the cache and the clones (Serving) and
in the documents of snapshots (Snapshots). Writers and maintenance meet only in the log (TableLog). Readers and
maintenance meet only in the registry (Leases) and through the files that are
deleted (Reclamation). A feed is a writer with a position of its own (Feed); so is the
capture pipeline (Capture). Only the holder of the lock writes the audit's
journal, and the next holder reads it (AuditTrail).

## The modules

| module | what it is | checked by | proved in |
|---|---|---|---|
| `SafeReclamation` | the promise: readers resolve, merges replace, only what is neither live nor held is deleted | implemented by Leases | |
| `Leases` | the registry, one action per atomic operation, with its readers and a sweeper | `leases` | `LeasesProofs` |
| `TableLog` | the log and everybody who commits to it, one action per filesystem step | `table` | `TableLogProofs` |
| `Feed` | one feed over a spool directory, one action per line, commit and way out | `feed` | `IntakeProofs` |
| `Reclamation` | one table's maintainer against readers, snapshots, writers and restarts | `reclamation_*`, `swept_reader` | `ReclamationProofs` |
| `ExactlyOnce` | the promise of capture: a table's commits take it from position to position, with exactly the changes in between | implemented by Capture | |
| `Batcher` | the batcher of one table, as operators on its state | through Capture | `IntakeProofs` |
| `Capture` | the pipeline over its batchers, between a source that streams and the tables' logs | `capture` | `IntakeProofs` |
| `Tiering` | purges and their journal, the registry, the quarantine, the plan over both tiers | `tiering` | `TieringProofs` |
| `WarehouseLock` | take and drop, one action per system call | through AuditTrail | `AuditTrailProofs` |
| `AuditTrail` | the chain and its journal under whoever holds the lock | `audit`, `lock_stolen` | `AuditTrailProofs` |
| `Serving` | the list of servable tables and the log cache, under statements that refresh it, feeds that create tables and commit, calls that fail, and clones that come and go | `serving` | `ServingProofs` |
| `Snapshots` | the two passes, the documents and their staging files, and what is found under a name | `snapshots` | `SnapshotsProofs` |

The `MC` modules give the constants values. Capture is composed of one Batcher
per table, and AuditTrail extends WarehouseLock: a step of the lock is a step
of the whole, and what a process holds in memory goes with it. The others do
not extend one another. They share assumptions instead: Reclamation takes the registry's
answer as one step, which Leases justifies; Feed, Reclamation and Capture take a commit as one step that may be reported as
failed, which TableLog justifies.
An operator with `Mutant:` in its comment is a plausible bug in the definition
after it and is not part of the specification.

### Leases

The registry is three kinds of atomics, all sequentially consistent. `pin`
counts the reader in `unannounced`, takes an epoch from `now`, tries to put it
in the slot it hashes to, and gives the count back if that worked: the actions
`CountIn`, `TakeEpoch`, `Announce`, `CountOut`. `Pin::drop` is `DropAnnounced`
or `DropCounted`. The sweeper merges and commits (`Merge`), takes a mark
(`Mark`), and asks `drained`, which reads the count (`LoadCount`), then each
slot (`LoadSlot`), then compares (`Decide`); a yes deletes (`Retire`). A slot is
any slot: the hash is not modelled, so collisions happen whenever they can.

`DrainedMeansGone` is stronger than what the files need. The comment in `pin`
says the count must come before the epoch. With the two swapped
(`EpochFirst`), `DrainedMeansGone` fails but `NothingVanishes` still holds: a
reader not yet counted has not resolved either, and will resolve a log that no
longer names the files. The order matters for what `drained` says; the order of
`pin` before resolve, and of `mark` after commit, is what the files rest on.

### TableLog

`log` is a function on the versions that exist, `content` the data files on
disk. A committer is somewhere in: has a file to publish (`written`), has its
commit ready, has passed the probe of `commit`, has lost the claim. `Probe` is
the early exit and the refusal of a gap, `Claim` the hard link, which can make
the commit and be reported as failed. `ReadMetadata` is what
`append_recording` and `evolve` read before each attempt, `Rebase` a publish
taking the next version, `GiveUp` everybody else. The merge is `Plan`,
`Execute`, `ReadVersion`; the expiry `StartExpiry`. `Fail` is an error or a
crash at any step. `StartAppend` may ask for any version at all, as
`append_rebasing` lets its caller do.

### Feed

`spool` and `text` are the directory, `recorded` the position in the table's
newest metadata, `landed` and `kept` how often each record is in the table and
in the quarantine; the rest is the run's local variables and the registry.
`StartRun` reads the position and lists the directory, `PassOver` and `Open`
are `standing`, `Read` one line, `Close` a batch that closed inside the loop,
`EndSource` the commit after it, `QuarantineAll` the write of the refusals,
`Decide` the stop and the halt. `CommitFails` is a commit that did not happen,
or did and was reported as failed; `Crash` can come between any two actions.
`Faults` names which of these the surroundings do.

### Reclamation

`BeginTick` to `EndTick` are `Maintainer::tick` in order: `Merge`, `Mark` (with
the gate that deletes nothing if the picture of what is pinned has a hole),
`Judge` once per queued outcome, `Retire` once per due outcome, and the sweep
every `SweepEvery` ticks. Around them: `Enter`, `Resolve`, `ResolveAsOf`,
`Leave` of statements; `TakeSnapshot`, `PublishSnapshot`, `DropSnapshot`;
`Refresh`, which may see some documents and not others; `WriteFile`,
`CommitFile`, `Detach`; and `Restart`, which forgets the queue, the registry
and what maintenance was told.

Two assumptions about time are in `BeginTick`'s guard, and the code does not
enforce either: a refresh happens between two ticks, although both are tasks
with the same interval, and taking a snapshot does not outlast that. A third is
in `GrowOld`: a file is committed before it is old enough to be swept
(`OrphanPolicy::min_age_ticks`).

### Capture

A row is its place in the stream, a transaction the place of its first message,
a commit position the place of the message that commits. `Batcher` has the
operations of `TableBatcher` on one table's record: `Opened`, `Pushed`,
`CurrentCommitted`, `StreamCommitted`, `StreamAborted`, `Flushed`. `AcceptMessage` is
`accept` for a boundary, a row and a truncation; a description of a relation is
`Onboard`, `Quarantine`, `Unchanged` or `Widen`, by what it says. `BeginPublish`
is `publish` up to its choice of tables, `PublishTable` its loop body: take what is
sealed, drop what is below the floor, create the table, append with the
position. `Evolve` commits the wider shape after everything under the old one.
Whatever fails either stops the process or is returned to a driver that goes on
(`Fails`). `Restart` gives each table the position its log declares and starts
the stream at any position that may have been confirmed.

Nothing under `src/` but tests drives the pipeline. The driver is the one of
`tests/crash_safety.rs`; the source (`Source`, `Invalidate`) and the commits of
others (`OtherCommits`) are external. What was dead-lettered, refused, or lost
by a publish whose driver went on is in `givenUp`: the properties say that
nothing else is ever missing.

`ExactlyOnce` is the promise, in three actions: the source commits, a table
moves to a later position with exactly what lies between, rows are given up.
Capture implements it for all tables at once; everything but `Source`, the
refusals and `PublishTable` stutters. The commits of a table are a set there: a
step adds one, past the position of the latest, so that their order is in the
positions they declare.

### Tiering

A range is the set of its ordinals, a purge is one range on its way through the
phases. `journal` is on disk, `entered` the `Purge` in memory, `acting` the
phase that is journalled and not done: `Transition` writes the entry, `Act`
does the phase, and `Crash` between them leaves `Resume` to do it again.
`Rewrite` is a caller not told that its entry was written. `source` is one
record because the source database commits its three parts together and a
restore brings all three back: the attached partitions, the registry of
archived ranges, the quarantine. `Copy` may be flawed; `Verified` needs
`Proof`, which a comparison without findings gives. `Reap` releases by the
clock and the registry alone and reads no journal, as the code does. `Read` is
the plan of a query over one ordinal.

The crate is a library. Who calls it is external, from `tests/end_to_end.rs`:
`Act`, `Copy`, `Mark`, `Detach`, and the world around (`Tick`, `Switch`,
`BackUp`, `Restore`).

### WarehouseLock and AuditTrail

`take` is a loop of three passes: `Create` claims the name with nothing in it,
`Write` fills the file it created whatever its name holds by then, `Read`
refuses what is missing or unwritten and otherwise knows whom the file names
(`named`), `Judge` asks `/proc` after that process and refuses if it lives, and
`RemoveStale` removes the name, whatever it holds by then. Between any two of
these the others take their steps. `JudgeBlindly` is a `/proc` that cannot be
read, which `alive` takes for a process that is gone. `drop` is `Drop`, which
reads, and `Unlink`. `alive` compares the pid and the start time, so a process
that was given a dead one's pid is not taken for it.

`hasty` remembers that a process has removed a lock other than the one it had
read, or has taken a live process for gone; no code reads it. `OneServer` itself
fails (`lock_stolen`); `OneServerUnlessHasty` says that those two are the only
ways in which it can.

A server that holds the lock resumes the chain from the journal and
then answers. `Resume` reads all of it. The journal is opened twice, to be read
and to be appended to, and either may fail alone: a failure of the second leaves
a chain in memory (`ResumeInMemory`), one of the first an empty chain and no
complaint, which is then appended to what is there, from sequence 0
(`ResumeMisread`, which also is a line that could not be read and is passed
over). An entry goes into the chain and through to the journal under one
mutex (`Answer`), or its append fails somewhere inside and that is logged
(`AnswerUnwritten`), or the process stops inside it (`StopAnswering`). A line is
a record or junk; a line without its newline is continued by what is written
next (`Continued`). The chain keeps `Window` records and counts all.
`misread` and `doubtful` remember which servers resumed from less than the
journal and the first entry made by one of those, or beside another server.

### Serving

Version `n` of an ordinary table holds the files `1 .. n`, so that what a
statement reads shows which version it is. `refreshed_servable` is `Begin`, which
takes the list as it is; `Refresh` per table, which asks the cache, and `Resolve`
if the version has moved; `Discover`, `new_tables`' walk with each new table's
lineage; `Adopt` and `Adopted`, which read a new table's files and then its
version, `AdoptClone`; and `Publish`. Only the read and the write of the server's list are
under its lock, so that all of this interleaves with the same of another
statement. `Lookup` is `LogCache::live_files`, one step because it holds the
lock of that table's replay and a log only grows. A clone's log has a lineage and no files;
`Rooted` walks it to where the files are, over at most `MaxDepth` lineages (`MAX_CLONE_DEPTH`, 64),
and a clone whose walk is longer is opened as if it inherited nothing.

Every call of these may fail, and is answered as the code answers it. A table
that cannot be looked at counts as unmoved (`RefreshFails`); one that cannot be
resolved keeps the provider it has (`ResolveFails`); the walk leaves out what it
cannot read, and takes a clone whose lineage it cannot read for a table without
one (`DiscoverFails`); a table that cannot be opened is not added
(`AdoptFails`), and one whose version cannot be read is recorded at zero
(`AdoptedUnasked`). A probe for the next commit that fails is no error at all:
the cache then answers with what it has (`LooksNoFurther`).

`Create` and `Drop` are the checks of the two statements, `Created` and
`Dropped` the commit and the removal. Nothing keeps two of them apart, nor a
name from being used again. An entry never leaves the list: a clone that was
dropped is served until the server restarts.

`began` is what every log stood at when a statement began, `failed` the tables a
call of it has failed on, `severed` the clones from under which something was
removed, and a clone's `root` and `depth` where its files really were when it
was made. No code reads them; an open table's `flaw` is what its adoption missed.

### Snapshots

`at_one_instant` reads every version twice: `Begin`, a `Look` or `LookFails` per
table, `Turn`, the same again, and then `Agreed`, `Retry` or `Refuse`. `take` is
`Check`, and `publish` is `Stage`, `Write` or `WriteFails`, and `Rename`; two
statements may take one name. `instant` remembers how every table the first pass
found stood between the passes: no code reads it. `Staged` is what
`load` makes of the staging files, which it does not tell from documents, and
`Found` the document that `as_of` takes. A clone stands at version 0 whichever
clone it is.

## The runs

Passing runs, with the distinct states TLC finds:

| run | instance | states | question |
|---|---|---|---|
| `leases` | 3 readers, 2 slots, 3 file names, clock to 4 | 799,790 | does the registry keep the promise in every interleaving? |
| `table` | a creator, 2 feeds, an evolver; an appender, a merger, an expirer; 6 versions | 690,648 | do rows and metadata stay in step through create and rebase; are commits immutable and contiguous, and rows conserved? |
| `feed` | 2 sources of 0 to 3 lines of every kind, 2 faults | 1,172,352 | exactly once, nothing forgotten, always getting further? |
| `reclamation_retire` | 1 reader, 1 snapshot, 4 ticks, 4 files, a restart | 2,233,548 | does retirement spare readers and snapshots? |
| `reclamation_sweep` | a writer, an expiry, 2 ticks, 4 files, a restart | 150,105 | does the sweep spare the table and files in flight? |
| `capture` | 2 tables, a stream of 6 messages, one oddity, a restart | 1,049,901 | whole transactions, once, and the promise of ExactlyOnce? |
| `tiering` | 2 purges of nested ranges, 2 ordinals, a crash or restore, a repeated entry | 1,132,976 | is no row in neither tier, and every archive that is read a proved one? |
| `audit` | 3 processes, 2 of one pid, 2 crashes, 3 entries, a window of 1, a failure | 743,873 | no way to two servers but the two known, no stale lock that stops anybody, an audit without silent holes? |
| `serving` | a table that is created, 2 names for clones, 2 statements, 3 definitions, a failure | 3,221,893 | does a statement read no older version than it began at, and a clone its own? |
| `snapshots` | a table, a clone, a name, 2 statements, 2 attempts, a fault | 6,370,426 | is what a snapshot records one instant? |

What each property says, and why it could fail, is in the comment above it in
its module. Why the bounds are enough for the cases that matter:

- `leases`: three readers over two slots give a collision with a free slot
  left over and one without; the clock allows two marks with a pin on either
  side of each. Readers and files are interchangeable, which the run uses as
  symmetry.
- `table`: the callers act in two casts, one at a time (`OneCastAtATime`, a
  constraint of the run): the creation, the feeds and the evolution within four
  versions and two files, and the appender, the merger and the expirer once the
  table is declared, within six versions. Two attempts are one rebase, the case
  where a stale read is written back; four files in one partition are a merge,
  an output and a publish between plan and commit; six versions let each
  committer win and lose. That the casts do not mix is no assumption of the
  proofs below, which are for all callers together. The feeds are
  interchangeable.
- `feed`: three lines over batches of two leave a batch inside a source and one
  at its end; a window of two spans two sources; two faults are a fault during
  recovery from a fault.
- `reclamation_retire`: four ticks outlast a grace of two and a leak limit of
  three, and four files are a merge with a write beside it, or a merge that
  failed and the one after it. A merge of a merge's output needs five (see
  `ReplacementIsThere` below). The grace is two because that is the smallest with which the
  snapshot's property holds (the default is 24 ticks): with a grace of one, a
  snapshot that read its version in the tick that merged, and wrote its document
  after the refresh that followed, is unknown to the next tick, which retires
  what it pinned.
- `reclamation_sweep`: two ticks with a sweep at the second; a writer in
  flight, a detached file, a merge's inputs and an output left by a failed
  commit can all be on disk at once.

- `capture`: six messages hold two transactions of rows in two tables, or one
  that is streamed in two chunks with a plain one between them; the oddity is
  one of a change of shape, a truncation, a withheld value, a needless
  description, a commit by somebody else. The restart comes at any point and
  resumes at any position that may have been confirmed, so that batches are cut
  elsewhere. Tables are interchangeable.
- `tiering`: of the nested ranges one covers both ordinals, so that a registry
  entry of one purge overlaps the other's range; the clock passes the grace and
  one tick more; a crash, with a repeated entry, falls between any two steps of
  either purge.
- `audit`: three processes are two that crash, each leaving a lock or half a
  line, and a third that must find its way past both; or one that holds, one
  that reads its lock, and one that takes the name in between. The first and the
  third share a pid, and start in any order and together. Three entries over a
  window of one are one before, one at and one after a restart, a hole or a
  second server; the failure is an append, either opening of the journal, or
  `/proc`.
- `serving`: two names are a clone of a clone, which is as far as a walk of two
  lineages (`MaxDepth`) goes; three definitions make both and drop one, make one
  again under its name, or let a drop and a create overlap; the table is created
  and commits while the server runs, so that it is adopted, refreshed and
  overtaken; two statements publish lists one of which is older. One
  commit distinguishes a fresh read from a stale one, and a cache that was filled
  before it from one filled after. The failure is of any call.
- `snapshots`: the table is created and commits, the clone is made and dropped:
  four moves, between any two reads of either pass, so that of two attempts one
  fails and the next does not, or both fail. Two statements are a take beside a
  drop, beside another take of the same name, and after either; the fault is a log that cannot be
  read, a write that fails or a restart, at any point. No clone is made twice
  (`MaxMade`): one that is dropped and made again between two reads has the version
  it had, which two passes cannot tell (`OneInstant` fails).

Every bound is a constant named in its module (`EpochBound`, `MaxVersion`,
`MaxFiles`, `MaxTicks`, `MaxTime`, `MaxRestarts`, `MaxFaults`, `MaxStream`,
`MaxStreaming`, `MaxOddities`, `MaxRewrites`, `MaxCrashes`, `MaxEntries`,
`MaxFailures`, `MaxDefined`, `MaxMade`). Where one stops the model (the clock,
the versions, the files, the stream or the ticks are used up) the run says
`CHECK_DEADLOCK FALSE`, as does `audit`, where every process has its end. A feed,
the statements of a server and its snapshots are never stuck, and their runs
check that.

**Fairness.** `feed` and `audit` have a liveness property each. `StaleIsTaken`
assumes `WF_vars` of each process's `Take`: nothing in it waits, so a process
that is not stopped goes on to its end. Starting, dropping and answering are not
fair. The fairness of `feed` is
`WF_vars(Task)`: the feed task is a loop that sleeps and runs again for as long
as the process lives, so an enabled step of it is eventually taken. Deliveries,
crashes, faults and `RESUME FEED` are not fair: nobody has to resume a halted
feed. `EventuallyRead` therefore assumes that no halt lasts for ever, and says
that resuming is then never in vain. Faults are finite by the bound
`MaxFaults`; a feed whose every commit fails reads nothing.

### Counterexamples

Each of these checks one sentence of the repository and TLC finds it violated.

| run | sentence | what happens |
|---|---|---|
| `swept_reader` | `leases/src/lib.rs:1`: "Nothing is deleted while somebody is reading it" | the orphan sweep asks neither the registry nor a grace period; the inputs of the merge of this very tick are not live, and those old enough go at once, under the statements that resolved them |
| `lock_stolen` | `exclusive.rs:1`: "One writer per warehouse, enforced rather than assumed" | a process reads the lock of a server that then drops it and exits; a third takes the free name; the first finds the process it read of gone and removes, by name, the lock of the third: both hold the warehouse, and nothing has crashed or failed. Two processes that read one stale lock do it as well |

### What else was met while modelling

Some of it is a property of a module that no run checks, because it fails; the
constants that show it are given.

- `ExpiredStaysGone` (TableLog, an appender, a merger and an expirer): the tick
  reads the version after it merged, so a merge that should lose to an expiry
  does not, and the expired rows come back, although `driver.rs` says the loser
  "must re-read the log and rebase".
- `NeverReingested` (Feed, `"late"` in `Faults`): finishing a source that sorts
  before the one part-way read clears the partial position. (With `"misread"`:)
  a log that cannot be read when a run starts is taken for a table without a
  position, and the feed starts over.
- `ReplacementIsThere` (Reclamation, five files, a grace of 1, no leak limit):
  `retire_due` asks once per outcome; a reader leaves in between, a later
  outcome becomes due before the earlier one whose output it consumed, and the
  earlier one can then never be retired.
- `NeverDropped` (Feed, `Faults <- Crashes`): the position moves past a refused
  record one commit before the record is written to the quarantine, and a crash
  in between leaves it in neither, though ADR-0018 says that a misfit is
  "neither dropped nor coerced".
- `ReadsAreFresh` (Serving) without its first exception, the tables a call has
  failed on: the code serves the stale reader on purpose (`warehouse.rs:132`),
  and does not say so to the statement. Without its second: `servable` reads a
  new table's files through the cache and its version from the log afterwards; a
  commit in between is recorded as read and is not, until the next commit
  (`warehouse.rs:654`: the version is "What the log stood at when this file list
  was read").
- `OriginsOutliveClones` (Serving): `drop_clone` reads the
  lineages and removes the directory after that, and a clone committed in
  between has lost its origin (`wiring.rs:2254`). The lineages leave out a clone
  that cannot be read, too.
- `ClonesReadTheirVersion` (Serving) without any one of its exceptions. A name
  used again: the list is searched by
  name and its lineages are never read again, so a clone made again under a name
  is served as the first one (`warehouse.rs:83`). A lineage that could not be read when the
  clone was found: it is served as an empty table for as long as the server
  runs (`warehouse.rs:300` calls that visible). A chain longer than a walk: nothing refuses
  to create one, and the list then serves it as
  an empty table, although `MAX_CLONE_DEPTH` is said to be "How deep a chain of clones may be
  before a read refuses to follow it" (`warehouse.rs:346`). Something removed
  from under it, as in `OriginsOutliveClones`.
- `NeverReplaced` (Snapshots): the test for the document and its rename are two
  steps, so of two statements that take a name both succeed and the second's
  instant replaces the first's, although "an existing name is refused rather
  than replaced" (`snapshots.rs:162`).
- `DocumentIsFound` (Snapshots): a crash before the rename leaves a whole staging
  file in the directory, which `load` reads and which sorts before the document
  taken next; so does, for a moment, a second statement that takes the name.
- `AlwaysLegible` (Snapshots): the staging file is in the directory `load`
  reads, and is half written until it is whole; for good, if its write failed
  (`snapshots.rs:275`).
- `AppliedByEveryTable` (Capture, even with `CarriesOn` FALSE): `applied_through`
  is the furthest any table has got, though `pipeline.rs:71` says "wholly
  published across every table".
- `LogDeclaresItsColumns` (Capture): a shape an operator adopts reaches memory
  and not the log, so rows are appended with columns the log does not declare
  (`pipeline.rs:372` describes the other way of adopting one).
- `DurableIsThere` (AuditTrail, `MaxFailures` at least 1): an append that failed
  inside its line leaves it without a newline; the next record, whose append
  returns, continues that line and is not a record (`journal.rs:75`).
- `OneServer` (AuditTrail, `MaxFailures` 1): `/proc` cannot be read for a moment,
  and a live server's lock is removed, though `exclusive.rs:312` says, of a
  platform that has none, that "the caller refuses rather than guesses".

The rest has no property of its own:

- The sequence of a merge's output is recovered from the live set, so it goes
  back when that file leaves it. The name is created new, so the next merge
  fails rather than overwrite (`Execute`).
- An append between the creation of the log directory and version zero makes a
  table whose log begins without metadata. Feeds refuse such a table;
  `append_rebasing` does not, which is why the first cast of `table` has feeds for writers.
- Dropping a snapshot under a statement that reads as of it leaves the
  statement unprotected when it is younger than the mark of the merge whose
  inputs it reads. `ReadersKeepTheirFiles` excepts such a reader.
- A clone that was dropped stays in the list of servable tables and goes on
  being served until the server restarts.
- `DROP SNAPSHOT` checks one document and removes another, when its name was
  dropped and taken again in between.
- A log that cannot be read in either pass is left out of a snapshot, which is
  then acknowledged without it.
- `create_dir_durably` takes a directory that exists for one that is durable.
- The registry of halted feeds is memory: a restart runs a feed that was
  waiting for a person. The rows are unaffected (`Crash` resets `halted`).
- `StillReading` is empty until the first refresh, and a tick may come first.
- Capture: an abort of a subtransaction drops the whole streamed transaction; a
  batch that spans two shapes does not encode, and is lost; `evolve` commits at
  the version it counted and does not rebase; `tick` of a batcher is called by
  no one, so age makes nothing due; the quarantine of a table and a truncation
  are not persisted.
- Tiering: a phase entered again after a resume is out of order, so what is
  repeated is not journalled; `record` refuses an entry it already has, though
  phases are to be idempotent; what is detached again after a reattachment has
  rows in the quarantine only, until it is marked again.
- Lock: a crash between the creation of the file and its write leaves an empty
  file that no start gets past; a file that vanishes before it is read refuses
  a start that was free; a start that finds a lock is refused when the file
  changes hands three times.
- Audit: a journal that does not open to be appended to leaves the server with a
  chain in memory only, which is said once; one that does not open to be read is
  taken for a warehouse that has answered nothing, without a word, and the chain
  begins again at its genesis behind the records that are there; only the window is verified when the
  journal is read.

## The proofs

TLC finds out whether a formula holds on a small instance; these hold for every
value of the constants.

**LeasesProofs**: `TypeCorrect`, `NoFileDeletedWhileRead`, `DrainedIsTrue`,
`NobodyUnaccounted`, `Implements`, for any finite set of readers, any files and
any number of slots. The properties are not inductive. `IInv` adds: epochs are
unique and behind the clock (`Epochs`); what a merge took out of the log stays
out (`JobsApart`); a reader that holds a file of a queued merge is older than
its mark (`HoldersAreOlder`), since at the merge the log stopped naming the
file; and a scan that began with the count at zero has each older reader in a
slot it has read, or has yet to read (`ScanMissesNobody`). The last two meet in
`Decide`: an old reader would have been seen. Counting readers behind
`unannounced` needs cardinalities of finite sets. The refinement to
SafeReclamation is then one step per action: all of them stutter except
`Resolve`, the drops, `Merge` and `Retire`.

**TableLogProofs**: `NoGap` and `NoCommitLost`, for any committers, versions and
attempts. A committer past the probe knows its predecessor exists and goes on
knowing it, because versions are never removed (`ProbedHasPredecessor`); that
makes contiguity inductive though other committers act between probe and claim.

The same module proves `TypesHold`, `NoRowLost`, `PositionsHold`, `ExpiryIsWhole`
and `DeclaredFirst`, for any number of callers, partitions, attempts, versions
and files. `RolesAssumption` says that a caller publishes in one way and that a
table has one maintenance thread (`MaintenanceService` keeps one). None of the
four properties is inductive: a committer acts on a log it read some steps ago.
What saves it is in `LosersAreNotFree`. A version that is free behind one that
exists is the end of the log (`ClaimIsLast`), so whoever chose it before another
took it finds it taken, and whoever still finds it free read a log that has not
moved. `RowsInv` states, for each kind of caller, what it carries and what of
that is true while its version is free: the metadata it read plus its own change
(`CarriesMetadata`), the whole live partition (`Expiring`). Two things need no
such care. A merge commits at a version it read later; it is enough that its
inputs were once live and that no other live file holds their rows (`Merging`),
which is why no row is lost although expired ones can come back. A feed's batch
is the next after its position, as nobody else moves that position
(`NextInLine`). `DeclaredFirst` assumes that nobody appends without reading the
metadata.

**IntakeProofs**, of the feed: `Typed`, `RowsMatchPosition`, `RefusalsAreAccountedFor`,
`PositionNeverForgets`, for any number and length of sources, any batch and
window, and any number of crashes and failed commits. The assumption is
`Survivable`: sources arrive in name order and the log can be read when a run
starts. Without either the property is false, as `NeverReingested` is above. The core of `FeedInv` is `Frontier`: every source before
the one part-way read is behind the mark. With it a commit covers exactly the
lines the run has in hand and leaves the cover of every other source alone
(`CommitCovers`), so `landed` and `Covered` move together (`RowsFollow`).
`InHandIsUnread` says what is in hand is what was read since the last commit,
`LeftBehind` that a refusal still in hand is already covered once the source is
committed to its end, which is what makes `quarantine_all` write each once.

Of the capture: `RowsOnlyOnce`, `TransactionsWhole` and `CaptureKeepsPromise`,
for any tables and shapes, any stream the source may send, with transactions
streamed in any interleaving, any sizes of batches, and any number of restarts,
failed publishes and commits of others, whether the driver goes on after an
error or not. None of the three is inductive. `CaptureInv` goes from the source
to the logs:

- `SourceInv`, of the stream: a transaction is named by its first message
  (`NamedByFirst`), nothing of it follows its last (`NothingAfterEnd`), what lies
  in a block follows a message of its own transaction (`BlocksWhole`), and what
  is open began and has not ended (`OpenOnes`). A transaction therefore commits
  at one position (`CommitsAreKnown`), and what is committed stays so.
- `KnowsItsBlock`, of what is delivered: a message inside a block belongs to the
  transaction the pipeline and every onboarded batcher were last told of. It
  holds after a restart because no transaction is open where one begins, and for
  a table onboarded inside a block because `Fresh` tells it.
- `RowsWait` and `ChangesKept`, of what arrived: a row whose transaction has not
  ended waits with it or was given up; a change that was committed is at or below
  the position of its table's log, sealed, or given up. The first gives the second when the commit arrives: the rows of
  the transaction, all of them and nothing else, are sealed at its position
  (`BoundaryDoes`).
- `BatchersTrue`, of the floor: what a process takes for published is at most
  what the log declares, and if it is less, because an append was made and
  reported as failed, then what the batcher still covers reaches the log's
  position, and nothing that is sealed lies between the two. That is why the
  next append neither repeats a row nor goes back, though the process knows less
  than the log.
- `AppendsTrue`, of the log: appends go from position to position, and each
  holds what was committed between its own and the one before.

`DeliveryKeeps` covers every message and `ProcessKeeps` everything the process
does to its tables otherwise, so that each action needs only what it does to
one batcher and one log. Two rows of one transaction have one commit position,
which lies in one interval between appends: hence `RowsOnlyOnce` and
`TransactionsWhole`. For the refinement, `PositionsAgree` says that the latest of the
commits is the one whose position the log declares, and `PublishPromise` that
what an append holds is exactly what was committed past the position before it
and not given up.

**ReclamationProofs**: `Typing` and `TableStaysWhole`, for any files, readers,
snapshots, ticks, graces and restarts; `ReadersUndisturbed` and
`SnapshotsReadable`, for those of them with no orphan sweep (`SweepEvery` 0) and
a grace of two ticks or more. Both are needed: `swept_reader` shows a sweep that
takes a file from under a statement, and with a grace of one TLC finds a
snapshot whose files are retired (see the bounds above). `Core` says that what a
merge took out of the log is never in it again, nor in flight (`OutcomesApart`),
which is what lets a queue be retired long after it was filled. `ReadersSafe`
says that a statement holding an input of a queued merge announced itself no
later than the merge's mark (`HoldersAreOlder`); a mark that has drained
therefore leaves none. `PinsSafe` says that maintenance has been told of every
snapshot that names a file which is about to be retired (`PinsAreTold`): it
named the file before the merge, so its document was there, or about to be,
when the tick before this one asked.

**TieringProofs**: `TypesHold`, `JournalIsAhead`, `NothingIsLost` and `ReadsTrue`,
for any purges, ranges, crashes, repeated entries, restores and grace. `IInv` says that a journal with
any phase in it means that the comparison found nothing (`JournalMeansProved`,
which survives a crash because the entry comes before the act), and that the
source is `Sound`: what is not attached is in quarantine or in an entry of the
registry whose archive was proved, and entries do not overlap. The same must
hold of the backup, or a restore would break it. For the journal, `Machine` adds
that every journal replays to phases entered in order (`Resumable`), also one
whose purge is not in memory, and that a purge acts on the phase after the last
it entered (`ActsInMemory`). `resume` is a fold over the journal:
`ReplayedAppend` says what one more entry does to it.

**AuditTrailProofs**: `OnlyOneServer`, `LockNamesHolder`, `TypesHold`,
`NothingMissing` and `JournalIsTheAudit`, for any processes, pids, crashes,
failures and windows, and any way of starting together. Of the lock, the
invariant says that as long as nobody was hasty whoever has created the file and
not gone is named by it (`OwnersFile`), and that what a process is about to
remove names a process that is gone (`RemovesTheDead`), which stays so since
nobody who has started is ever new again (`NamesTheStarted`). `Read` and `Judge`
being two steps, that is all one knows at the removal; whether the file still is
the one that was read is what `hasty` asks. Of the journal: only a holder of the
lock has a chain in memory (`ChainOfHolder`), every line before the first hole is
the record of its own entry, and until there is a hole the chain of whoever read
the journal ends where it does (`JournalSound`); what comes after a hole, from
however many servers, does not reach what is before it (`AfterAHole`). A process that starts reads the journal back with a fold that
keeps a window; that it then knows the last record and how many there are is
proved of the fold.

**ServingProofs**: `TypesHold`, `StatementsReadFresh` and `ClonesReadTrue`, for
any tables, there from the start or created later, clones, statements and
failures, definitions that overlap and names that are used again; no constant is
restricted. `Fresh` says, of every table, that the cache
holds it whole at a version it has had (`CacheWhole`), and that a list has it
whole and recorded no newer than its files are, but for one that was overtaken (`Whole`). That is what makes an
equal version mean that nothing has to be read again, in a list that may be
anybody's. `CarriesFresh` follows a statement: what it has looked at is no older
than it, and from its walk on it has every table, in its list or among those
found. `Families` says where a clone's files are in terms of its origin's, as
long as nothing was removed from under it (`Founded`), and that a list which
has the first clone of a name has what it inherits (`HasRoots`). That the walk
of `Rooted` finds the same (`WalkEnds`) is by induction on the lineages it may
still follow, which are at least those that lie above.

**SnapshotsProofs**: `TypeCorrect`, and `SnapshotsAreInstants`, for any tables, statements, attempts,
failed reads and writes, and restarts: versions only grow, so what the first pass
read was at most what stood at `Turn`, and what the second read was at least
that; where they are equal, it stood there (`InFirst`, `InSecond`). Clones are
excluded, since theirs do not grow.

What a fold or a recursive function computes is proved here by induction over a
set of naturals: the statement becomes a set, `SetInduction` says that a set with
zero and every successor is `Nat`, and it follows from the well-foundedness of
`<` without an operator as a parameter. It is how `Replayed` of Tiering, the
reading of the journal in AuditTrail and `Rooted` of Serving are reasoned about.

Only model-checked: liveness under fairness (`EventuallyRead`, `StaleIsTaken`),
which is out of the prover's reach. Every other property of a passing run is stated by a
theorem. Of the two that fail as they stand, what is proved in place of
`OneServer` is that there are two ways to break it and no third (`OnlyOneServer`), and in place of `NoReaderLosesAFile` is `ReadersUndisturbed`, with no sweep. Reclamation does not
implement SafeReclamation, and is not meant to: its statements also resolve
snapshots, an output is on disk before the commit that names it, and a lease
presumed leaked loses its files. What carries over is `ReadersUndisturbed` and
`TableStaysWhole`. No recursive operator is used.

## What is not modelled, and the plan

Within the modelled parts: parsing and the seal of log entries, and checkpoints;
encoding and statistics of Parquet files; `append_all`; the duty cycle, the
discovery of tables and the checkpoint of a tick; expiry dates of snapshots and
who may see one; loading declarations and authorization; planning and execution
of a statement; of clones, tenants and what a purge asks; of the read path, the
arrival tier and the merge by key; of capture, the
backfill, the reconciliation and the age that makes a batch due; of tiering, the
source database's own defences, the policy, the schedule and rehydration; of the
audit, the keys and the digest. What a power loss leaves of a write that was not
synced is not modelled: a crash loses memory only, except in the audit's
journal, where it leaves part of a line, and among the documents of snapshots, where it leaves a staging file.

Whole parts that keep state, and why they are left: session leases and admission
have one owner each and no step of another actor between a check and its use
that the code does not hold a lock over; a backup and the epochs of a graph are
reads beside commits, for which Reclamation and Leases have the general case. In
the order they would be done:

1. `Cubes`: materialised cells, keyed by the version they were computed at, beside
   a list of tables that was refreshed before that version was read.
2. `DurableWrites`: what a power loss keeps of `write_durably`, `claim` and
   `create_dir_durably`.
3. `SessionLeases` and `Admission`: renewal against expiry; statements against
   one pool, with cancellation.
4. `Backup`: beside commits and retirement; graph epochs under readers.
