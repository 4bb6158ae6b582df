------------------------------ MODULE TableLog ------------------------------
(***************************************************************************)
(* The table log of crates/sankhya-table-delta and everybody who commits   *)
(* to it: Publication (create, evolve, append_rebasing, append_recording), *)
(* the merge of Maintainer::tick, and the expiry of a quarantine.          *)
(*                                                                         *)
(* A commit is one file per version, claimed by a hard link that fails if  *)
(* the name is taken.  There is no lock: a committer picks a version from  *)
(* what it last saw, and between any two of its steps the others may have  *)
(* committed.  Each action below is one filesystem step of `commit' or one *)
(* read of the log by its caller.                                          *)
(*                                                                         *)
(* Abstracted: a walk of the log is one step (versions only ever appear at *)
(* its end, so a walk that stops at n saw the log as it was when n was     *)
(* absent); checkpoints and the probe's floor, which only shorten a walk;  *)
(* one merge per tick; a batch is one row in one partition.  Data files    *)
(* are never deleted here (Reclamation and Leases are about that).         *)
(***************************************************************************)
EXTENDS Integers, FiniteSets

CONSTANTS
  Creators,     \* callers of Publication::create
  Appenders,    \* callers of append and append_rebasing
  Recorders,    \* callers of append_recording: feeds
  Evolvers,     \* callers of evolve
  Mergers,      \* the maintenance thread of the table
  Expirers,     \* the feed task's quarantine expiry
  Partitions,   \* the table's date partitions
  Attempts,     \* how many versions a publish tries before it gives up
  MaxVersion,   \* bound: no commit beyond this version
  MaxFiles      \* bound: no data file beyond this many

Committers ==
  Creators \cup Appenders \cup Recorders \cup Evolvers \cup Mergers \cup Expirers

ASSUME BoundsAssumption ==
  Attempts \in Nat \ {0} /\ MaxVersion \in Nat /\ MaxFiles \in Nat

(* A caller publishes in one way, and a table has one maintenance thread.  *)
ASSUME RolesAssumption ==
  /\ Creators \cap (Appenders \cup Recorders \cup Evolvers \cup Mergers \cup Expirers) = {}
  /\ Appenders \cap (Recorders \cup Evolvers \cup Mergers \cup Expirers) = {}
  /\ Recorders \cap (Evolvers \cup Mergers \cup Expirers) = {}
  /\ Evolvers \cap (Mergers \cup Expirers) = {}
  /\ Mergers \cap Expirers = {}
  /\ \A p, q \in Mergers : p = q

Versions == 0..MaxVersion

(* A row is named after the committer whose batch brought it and the       *)
(* batch's number; a data file after its partition and its origin.  A name *)
(* from a publish carries a process-wide token and is never used twice; a  *)
(* merge's name carries the sequence it read from the log.                 *)
Rows  == (Appenders \cup Recorders) \X (1..MaxFiles)
Files == { "arrived", "compacted" } \X Partitions \X (1..MaxFiles)

(* What the metadata holds that somebody depends on: each feed's position  *)
(* and how often the schema was widened.                                   *)
Metadata == [position : [Recorders -> Nat], schema : Nat]
Declared == [position |-> [r \in Recorders |-> 0], schema |-> 0]

(* A commit's actions; it carries one metadata action or none.             *)
Commit == [adds : SUBSET Files, removes : SUBSET Files, meta : SUBSET Metadata]
Empty  == [adds |-> {}, removes |-> {}, meta |-> {}]

(* Where a committer is between two filesystem steps: nowhere, holding a   *)
(* file to publish, a merge planned or carried out, a commit to make, one  *)
(* past the probe, or a version somebody else took.                        *)
States == { "idle", "written", "planned", "executed", "ready", "probed", "lost" }

VARIABLES
  log,      \* the commits: a function on the versions that exist
  logDir,   \* whether _delta_log exists, which is what is_table asks
  content,  \* the data files on disk and the rows each holds
  pc,       \* where each committer is
  ver,      \* the version it intends
  tries,    \* how many versions it has tried
  job,      \* the commit it is about to make
  batch,    \* the number of the batch it is publishing
  (* history *)
  acked,    \* the rows whose publish was reported as done
  widened,  \* how many evolutions were reported as done
  expired   \* the rows an expiry detached

committer == << pc, ver, tries, job, batch >>
history   == << acked, widened, expired >>
vars      == << log, logDir, content, committer, history >>

-----------------------------------------------------------------------------
(* Reading the log.                                                        *)

Exists(v) == v \in DOMAIN log

(* newest_after and next_version: the first version the walk does not find *)
NextVersion ==
  CHOOSE n \in 0..(MaxVersion + 1) :
    ~Exists(n) /\ \A v \in 0..(n - 1) : Exists(v)

(* Mutant: removals name files the replay does not recognise.              *)
ReplayAdditions(commits) == UNION { commits[v].adds : v \in DOMAIN commits }

(* Replay.  Within a commit the additions precede the removals.            *)
LiveIn(commits) ==
  { f \in UNION { commits[v].adds : v \in DOMAIN commits } :
      \E v \in DOMAIN commits :
        /\ f \in commits[v].adds
        /\ \A u \in DOMAIN commits : u >= v => f \notin commits[u].removes }

Live == LiveIn(log)

(* latest_metadata and current_metadata: the last metadata action wins.    *)
Declaring == { v \in DOMAIN log : log[v].meta # {} }

CurrentMetadata ==
  UNION { log[v].meta : v \in { w \in Declaring : \A u \in Declaring : u <= w } }

RowsOf(files) == UNION { content[f] : f \in files }

(* next_compaction_sequence: one past the highest in the live set.         *)
NextSequence ==
  LET used == { f[3] : f \in { g \in Live : g[1] = "compacted" } }
  IN  IF used = {} THEN 1 ELSE 1 + CHOOSE n \in used : \A k \in used : k <= n

Bind(f, x, y) == [z \in DOMAIN f \cup {x} |-> IF z = x THEN y ELSE f[z]]

-----------------------------------------------------------------------------
TypeOK ==
  /\ DOMAIN log \subseteq Versions
  /\ \A v \in DOMAIN log : log[v] \in Commit
  /\ logDir \in BOOLEAN
  /\ DOMAIN content \subseteq Files
  /\ \A f \in DOMAIN content : content[f] \subseteq Rows
  /\ pc \in [Committers -> States]
  /\ ver \in [Committers -> Nat]
  /\ tries \in [Committers -> Nat]
  /\ job \in [Committers -> Commit]
  /\ batch \in [Committers -> Nat]
  /\ acked \subseteq Rows
  /\ widened \in Nat
  /\ expired \subseteq Rows

(* With nobody to create the table it exists already.                      *)
Init ==
  /\ log = IF Creators = {}
             THEN [v \in {0} |-> [Empty EXCEPT !.meta = {Declared}]]
             ELSE [v \in {} |-> Empty]
  /\ logDir = (Creators = {})
  /\ content = [f \in {} |-> {}]
  /\ pc = [p \in Committers |-> "idle"]
  /\ ver = [p \in Committers |-> 0]
  /\ tries = [p \in Committers |-> 0]
  /\ job = [p \in Committers |-> Empty]
  /\ batch = [p \in Committers |-> 0]
  /\ acked = {}
  /\ widened = 0
  /\ expired = {}

-----------------------------------------------------------------------------
(* What each committer does before it commits.                             *)

Begin(p, state, version, commit) ==
  /\ pc[p] = "idle"
  /\ pc' = [pc EXCEPT ![p] = state]
  /\ ver' = [ver EXCEPT ![p] = version]
  /\ tries' = [tries EXCEPT ![p] = 1]
  /\ job' = [job EXCEPT ![p] = commit]

(* The call returns, one way or the other, and forgets what it carried.    *)
Return(p) ==
  /\ pc' = [pc EXCEPT ![p] = "idle"]
  /\ ver' = [ver EXCEPT ![p] = 0]
  /\ tries' = [tries EXCEPT ![p] = 0]
  /\ job' = [job EXCEPT ![p] = Empty]

(* A publish's file name is unique in the process: the token counts.       *)
Token == 1 + Cardinality({ f \in DOMAIN content : f[1] = "arrived" })

(* write_files: the file is on disk and no action refers to it yet.        *)
WriteFile(p, n, state, version) ==
  /\ logDir
  /\ Token <= MaxFiles
  /\ n <= MaxFiles
  /\ \E d \in Partitions :
       LET file == << "arrived", d, Token >>
       IN  /\ content' = Bind(content, file, { << p, n >> })
           /\ Begin(p, state, version, [Empty EXCEPT !.adds = {file}])
  /\ batch' = [batch EXCEPT ![p] = n]
  /\ UNCHANGED << log, logDir, history >>

(* Publication::create: the directory, then version zero.                  *)
StartCreate(p) ==
  /\ Begin(p, "ready", 0, [Empty EXCEPT !.meta = {Declared}])
  /\ logDir' = TRUE
  /\ UNCHANGED << log, content, batch, history >>

(* append and append_rebasing take whatever version the caller counted to. *)
StartAppend(p) ==
  \E version \in Versions : WriteFile(p, batch[p] + 1, "ready", version)

(* A feed's run reads its position and the next version, then writes the   *)
(* batch after that position.                                              *)
StartRecord(p) ==
  IF CurrentMetadata = {}
    THEN WriteFile(p, 1, "written", NextVersion)
    ELSE \E now \in CurrentMetadata :
           WriteFile(p, now.position[p] + 1, "written", NextVersion)

StartEvolve(p) ==
  /\ logDir
  /\ Begin(p, "written", NextVersion, Empty)
  /\ UNCHANGED << log, logDir, content, batch, history >>

(* Mutant: the caller writes a metadata of its own entries only.           *)
RebuildMetadata(p) ==
  /\ pc[p] = "written"
  /\ CurrentMetadata # {}
  /\ pc' = [pc EXCEPT ![p] = "ready"]
  /\ job' = [job EXCEPT ![p].meta =
              { [position |-> [r \in {p} |-> batch[p]], schema |-> 0] }]
  /\ UNCHANGED << log, logDir, content, ver, tries, batch, history >>

(* Mutant: a table whose metadata cannot be found is written to anyway.    *)
RecordWithoutMetadata(p) ==
  /\ pc[p] = "written"
  /\ pc' = [pc EXCEPT ![p] = "ready"]
  /\ job' = [job EXCEPT ![p].meta =
              { [now EXCEPT !.schema = @ + 1] : now \in CurrentMetadata }]
  /\ UNCHANGED << log, logDir, content, ver, tries, batch, history >>

(* current_metadata, read again on every attempt, with the caller's own    *)
(* entry replaced.  A table without metadata is refused.                   *)
ReadMetadata(p) ==
  /\ pc[p] = "written"
  /\ \/ /\ CurrentMetadata = {}
        /\ Return(p)
     \/ \E now \in CurrentMetadata :
          /\ pc' = [pc EXCEPT ![p] = "ready"]
          /\ job' = [job EXCEPT ![p].meta =
                      { IF p \in Recorders
                          THEN [now EXCEPT !.position[p] = batch[p]]
                          ELSE [now EXCEPT !.schema = @ + 1] }]
          /\ UNCHANGED << ver, tries >>
  /\ UNCHANGED << log, logDir, content, batch, history >>

-----------------------------------------------------------------------------
(* table_delta::commit.                                                    *)

(* Mutant: the version asked for is claimed wherever the log ends.         *)
ProbeNameOnly(p) ==
  /\ pc[p] = "ready"
  /\ pc' = [pc EXCEPT ![p] = IF Exists(ver[p]) THEN "lost" ELSE "probed"]
  /\ UNCHANGED << log, logDir, content, ver, tries, job, batch, history >>

(* The early exit on a taken version, and the refusal of a gap.            *)
Probe(p) ==
  /\ pc[p] = "ready"
  /\ \/ /\ Exists(ver[p])
        /\ pc' = [pc EXCEPT ![p] = "lost"]
        /\ UNCHANGED << ver, tries, job >>
     \/ /\ ~Exists(ver[p])
        /\ ver[p] > 0 /\ ~Exists(ver[p] - 1)
        /\ Return(p)
     \/ /\ ~Exists(ver[p])
        /\ ver[p] > 0 => Exists(ver[p] - 1)
        /\ pc' = [pc EXCEPT ![p] = "probed"]
        /\ UNCHANGED << ver, tries, job >>
  /\ UNCHANGED << log, logDir, content, batch, history >>

(* What the caller is told once its commit is in the log.                  *)
Acknowledge(p) ==
  /\ acked' = acked \cup
       (IF p \in Appenders \cup Recorders THEN {<< p, batch[p] >>} ELSE {})
  /\ widened' = widened + (IF p \in Evolvers THEN 1 ELSE 0)

(* Mutant: a check followed by a rename, which replaces its destination.   *)
Publish(p) ==
  /\ pc[p] = "probed"
  /\ ver[p] \in Versions
  /\ log' = Bind(log, ver[p], job[p])
  /\ expired' = expired \cup
       (IF p \in Expirers THEN RowsOf(job[p].removes) ELSE {})
  /\ Acknowledge(p)
  /\ Return(p)
  /\ UNCHANGED << logDir, content, batch >>

(* atomicfs::claim.  The link either fails because the name is taken or    *)
(* makes the commit; a directory sync that then fails is reported as a     *)
(* failed commit all the same.                                             *)
Claim(p) ==
  /\ pc[p] = "probed"
  /\ ver[p] \in Versions
  /\ \/ /\ Exists(ver[p])
        /\ pc' = [pc EXCEPT ![p] = "lost"]
        /\ UNCHANGED << log, ver, tries, job, history >>
     \/ /\ ~Exists(ver[p])
        /\ log' = Bind(log, ver[p], job[p])
        /\ expired' = expired \cup
             (IF p \in Expirers THEN RowsOf(job[p].removes) ELSE {})
        /\ \/ Acknowledge(p)
           \/ UNCHANGED << acked, widened >>
        /\ Return(p)
  /\ UNCHANGED << logDir, content, batch >>

(* Mutant: the metadata is read before the version it is to follow.        *)
RebaseKeepingMetadata(p) ==
  /\ pc[p] = "lost"
  /\ p \in Appenders \cup Recorders
  /\ tries[p] < Attempts
  /\ ver' = [ver EXCEPT ![p] = NextVersion]
  /\ tries' = [tries EXCEPT ![p] = @ + 1]
  /\ pc' = [pc EXCEPT ![p] = "ready"]
  /\ UNCHANGED << log, logDir, content, job, batch, history >>

(* Mutant: whoever loses takes a later version with the actions it has.     *)
RebaseAnybody(p) ==
  /\ pc[p] = "lost"
  /\ tries[p] < Attempts
  /\ ver' = [ver EXCEPT ![p] = NextVersion]
  /\ tries' = [tries EXCEPT ![p] = @ + 1]
  /\ pc' = [pc EXCEPT ![p] = IF p \in Recorders THEN "written" ELSE "ready"]
  /\ UNCHANGED << log, logDir, content, job, batch, history >>

(* VersionTaken.  A publish rebases onto the newest version, within its    *)
(* budget, without writing its file again.                                 *)
Rebase(p) ==
  /\ pc[p] = "lost"
  /\ p \in Appenders \cup Recorders
  /\ tries[p] < Attempts
  /\ ver' = [ver EXCEPT ![p] = NextVersion]
  /\ tries' = [tries EXCEPT ![p] = @ + 1]
  /\ pc' = [pc EXCEPT ![p] = IF p \in Recorders THEN "written" ELSE "ready"]
  /\ UNCHANGED << log, logDir, content, job, batch, history >>

(* Everybody else, and a publish at the end of its budget, reports it.     *)
GiveUp(p) ==
  /\ pc[p] = "lost"
  /\ p \in Appenders \cup Recorders => tries[p] >= Attempts
  /\ Return(p)
  /\ UNCHANGED << log, logDir, content, batch, history >>

(* An I/O error or a crash, at any step.                                   *)
Fail(p) ==
  /\ pc[p] # "idle"
  /\ Return(p)
  /\ UNCHANGED << log, logDir, content, batch, history >>

-----------------------------------------------------------------------------
(* Maintainer::tick, the part that merges.                                 *)

(* partitions_of and plan_tick: at least two live files of one partition.  *)
Plan(p) ==
  \E d \in Partitions :
    \E inputs \in SUBSET { f \in Live : f[2] = d } :
      /\ Cardinality(inputs) >= 2
      /\ Begin(p, "planned", 0, [Empty EXCEPT !.removes = inputs])
      /\ UNCHANGED << log, logDir, content, batch, history >>

OutputOf(p) ==
  LET partition == (CHOOSE f \in job[p].removes : TRUE)[2]
  IN  << "compacted", partition, NextSequence >>

(* execute_tick: the merged file is created new; a name that exists fails  *)
(* the merge, which is reported and leaves the tick with nothing merged.   *)
Execute(p) ==
  /\ pc[p] = "planned"
  /\ NextSequence <= MaxFiles
  /\ \/ /\ OutputOf(p) \in DOMAIN content
        /\ Return(p)
        /\ UNCHANGED content
     \/ /\ OutputOf(p) \notin DOMAIN content
        /\ content' = Bind(content, OutputOf(p), RowsOf(job[p].removes))
        /\ job' = [job EXCEPT ![p].adds = {OutputOf(p)}]
        /\ pc' = [pc EXCEPT ![p] = "executed"]
        /\ UNCHANGED << ver, tries >>
  /\ UNCHANGED << log, logDir, batch, history >>

(* The tick reads the log again and takes the version after what it finds. *)
ReadVersion(p) ==
  /\ pc[p] = "executed"
  /\ ver' = [ver EXCEPT ![p] = NextVersion]
  /\ pc' = [pc EXCEPT ![p] = "ready"]
  /\ UNCHANGED << log, logDir, content, tries, job, batch, history >>

(* expire_quarantine: the live set and its version read together; every    *)
(* live file of an aged partition is removed at the version after it.      *)
StartExpiry(p) ==
  \E d \in Partitions :
    LET aged == { f \in Live : f[2] = d }
    IN  /\ aged # {}
        /\ Begin(p, "ready", NextVersion, [Empty EXCEPT !.removes = aged])
        /\ UNCHANGED << log, logDir, content, batch, history >>

-----------------------------------------------------------------------------
Start ==
  \/ \E p \in Creators : StartCreate(p)
  \/ \E p \in Appenders : StartAppend(p)
  \/ \E p \in Recorders : StartRecord(p)
  \/ \E p \in Evolvers : StartEvolve(p)
  \/ \E p \in Mergers : Plan(p) \/ Execute(p) \/ ReadVersion(p)
  \/ \E p \in Expirers : StartExpiry(p)

Next ==
  \/ Start
  \/ \E p \in Recorders \cup Evolvers : ReadMetadata(p)
  \/ \E p \in Committers :
       Probe(p) \/ Claim(p) \/ Rebase(p) \/ GiveUp(p) \/ Fail(p)

Spec == Init /\ [][Next]_vars

-----------------------------------------------------------------------------
(* Versions are contiguous, whatever version a caller asks for: the walk   *)
(* that stops at the first absent version has seen every commit.           *)
Contiguous ==
  \A v \in DOMAIN log : \A u \in 0..v : u \in DOMAIN log

(* A commit, once in the log, is there for ever and says the same: two     *)
(* committers of one version never both succeed.                           *)
CommitsImmutable ==
  [][\A v \in DOMAIN log : v \in DOMAIN log' /\ log'[v] = log[v]]_vars

(* The log begins with the commit that declares the table.  With feeds for *)
(* writers it does; append_rebasing can come before it.                    *)
BeginsWithMetadata ==
  DOMAIN log # {} => 0 \in DOMAIN log /\ log[0].meta # {}

(* No acknowledged row is lost and none is live twice, through any race of *)
(* publishes, merges and expiry.                                           *)
RowsConserved ==
  /\ acked \subseteq RowsOf(Live) \cup expired
  /\ \A f, g \in Live : f # g => content[f] \cap content[g] = {}

(* A feed's position and its rows are both visible or neither is, and no   *)
(* rebase undoes what another committer recorded: the rows of a feed the   *)
(* log ever took in are exactly the batches up to its current position,    *)
(* and no reported evolution is missing.                                   *)
PositionMatchesRows ==
  \A now \in CurrentMetadata :
    /\ \A r \in Recorders :
         { row \in RowsOf(Live) \cup expired : row[1] = r }
           = { << r, n >> : n \in 1..now.position[r] }
    /\ now.schema >= widened

(* An expiry takes the whole partition as it stands: it never commits      *)
(* against files a merge has meanwhile replaced.                           *)
DetachIsWhole ==
  [][\A x \in Expirers :
       (log' # log /\ pc'[x] # pc[x]) =>
         \A f \in LiveIn(log') : \A g \in job[x].removes : f[2] # g[2]]_vars

(* What an expiry detached stays out of the table.  commit_tick: a merge   *)
(* that loses "must re-read the log and rebase, because a compaction's     *)
(* decisions are exactly which files to merge and those were made against  *)
(* a state that no longer exists".  The tick reads the version again after *)
(* the merge, and so a merge that should lose does not.                    *)
ExpiredStaysGone == RowsOf(Live) \cap expired = {}
=============================================================================
