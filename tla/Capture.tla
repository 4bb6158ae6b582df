------------------------------ MODULE Capture ------------------------------
(***************************************************************************)
(* The capture pipeline of crates/sankhya-ingest over its batchers: a      *)
(* source database streams its changes, the pipeline batches them by table *)
(* and publishes whole transactions to each table's log with the position  *)
(* they reach.  The process can stop between any two steps and the source  *)
(* then sends again everything past some position that was confirmed.      *)
(*                                                                         *)
(* Nothing under src/ drives the pipeline but its tests, so the driver is  *)
(* theirs (crash_safety.rs): it feeds a message, publishes now and then,   *)
(* and after a restart gives each table the position its log declares.     *)
(* The source is external: PostgreSQL's logical decoding, which interleaves*)
(* the chunks of streamed transactions, and describes a relation before    *)
(* its first row on a connection, whenever its shape changed, and at times *)
(* when it did not.                                                        *)
(*                                                                         *)
(* Abstracted: a row is its place in the stream and its number of columns, *)
(* and so is a shape; shape 0 is one the format cannot carry, fewer        *)
(* columns are a change that quarantines, more are one that is adopted.    *)
(* What the log does with a commit is TableLog's.                          *)
(***************************************************************************)
EXTENDS Batcher, Sequences

CONSTANTS
  Tables,        \* the relations of the publication
  Shapes,        \* the numbers of columns a relation may have
  FirstShape,    \* and has at first
  SourceDoes,    \* what the source is let do, see below
  CarriesOn,     \* whether the driver may go on after an error
  MaxStream,     \* bound: the messages the source sends
  MaxStreaming,  \* bound: streamed transactions open at once
  MaxOddities,   \* bound: shapes changed, tables emptied, values withheld,
                 \* relations described again for nothing, and commits of
                 \* somebody else to a log, such as a merge
  MaxRestarts    \* bound: how often the process is started again

(* "stream": transactions are streamed before they commit.  "withhold": an *)
(* update leaves a large value out.  "truncate": a table is emptied.       *)
(* "reshape inside": a table is altered in a transaction that wrote to it. *)
ASSUME CaptureAssumption ==
  /\ Shapes \subseteq Nat /\ FirstShape \in Shapes
  /\ MaxRows \in Nat \ {0} /\ MaxTransactions \in Nat \ {0}
  /\ CarriesOn \in BOOLEAN
  /\ { MaxStream, MaxStreaming, MaxOddities, MaxRestarts } \subseteq Nat
  /\ SourceDoes \subseteq { "stream", "withhold", "truncate", "reshape inside" }

VARIABLES
  (* the source *)
  stream,     \* every message it has produced
  block,      \* the transaction it is sending the changes of
  streaming,  \* the streamed transactions it has not ended
  shape,      \* the shape of each table
  oddities,   \* how often something out of the ordinary happened to a table
  (* the connection *)
  arriving,   \* the message it will deliver
  described,  \* the shape it last described each table with
  (* the process *)
  running,
  tables,     \* Pipeline::tables
  opening,    \* Pipeline::open_transaction
  work,       \* the publish that is under way
  applied,    \* PipelineStats::applied_through
  (* the warehouse *)
  log,        \* the commits of each table
  (* the surroundings, and what a reader of the counters would know *)
  restarts,
  givenUp     \* rows dead-lettered, refused, or dropped by a failed publish

upstream    == << stream, block, streaming, shape, oddities >>
connection  == << arriving, described >>
process     == << running, tables, opening, work, applied >>
captureVars == << upstream, connection, process, log, restarts, givenUp >>

-----------------------------------------------------------------------------
(* The stream.  A boundary has no table; a row of the stream belongs to    *)
(* the transaction xid, which the pipeline is told of by boundaries only.  *)

NoTable == "no table"
Undescribed == -1

RowKinds == { "row", "withheld" }
Message(kind, xid, table, columns) ==
  [kind |-> kind, xid |-> xid, table |-> table, columns |-> columns]

(* Where a transaction commits; zero when it has not.                      *)
CommitOf(xid) ==
  LET at == { i \in DOMAIN stream : /\ stream[i].xid = xid
                                    /\ stream[i].kind \in Endings \ { "stream_abort" } }
  IN  IF at = {} THEN 0 ELSE CHOOSE i \in at : TRUE

IsOpen(xid) == xid \in streaming \/ xid = block

(* The rows of a table that transactions still open have written.          *)
OpenRowsOf(t) ==
  { i \in DOMAIN stream : stream[i].table = t /\ IsOpen(stream[i].xid) /\ stream[i].kind \in RowKinds }

(* The changes the source has committed to a table.                        *)
CommittedChanges(t) ==
  { m \in { [row |-> i, lsn |-> CommitOf(stream[i].xid)] :
              i \in { j \in DOMAIN stream : stream[j].table = t /\ stream[j].kind \in RowKinds } } :
      m.lsn # 0 }

Streamed(xid) == xid \in streaming

Produce(m) == stream' = Append(stream, m)

Begin ==
  /\ block = NoTransaction \/ Streamed(block)
  /\ LET xid == Len(stream) + 1
     IN  /\ Produce(Message("begin", xid, NoTable, 0))
         /\ block' = xid
  /\ UNCHANGED << streaming, shape, oddities >>

End ==
  /\ block # NoTransaction /\ ~Streamed(block)
  /\ Produce(Message("commit", block, NoTable, 0))
  /\ block' = NoTransaction
  /\ UNCHANGED << streaming, shape, oddities >>

StreamChunk ==
  /\ "stream" \in SourceDoes
  /\ block = NoTransaction \/ Streamed(block)
  /\ \E xid \in (streaming \ {block}) \cup {Len(stream) + 1} :
       /\ Cardinality(streaming \cup {xid}) <= MaxStreaming
       /\ Produce(Message("start", xid, NoTable, 0))
       /\ block' = xid
       /\ streaming' = streaming \cup {xid}
  /\ UNCHANGED << shape, oddities >>

StreamEnd(kind) ==
  /\ block = NoTransaction \/ Streamed(block)
  /\ \E xid \in streaming :
       /\ Produce(Message(kind, xid, NoTable, 0))
       /\ streaming' = streaming \ {xid}
  /\ block' = NoTransaction
  /\ UNCHANGED << shape, oddities >>

(* A table is altered when no transaction that wrote to it is open, but    *)
(* for the one that alters it; a row of the new shape shows that it was.   *)
MayAlter(t) ==
  /\ oddities < MaxOddities
  /\ \A i \in OpenRowsOf(t) : "reshape inside" \in SourceDoes /\ stream[i].xid = block

Change ==
  /\ block # NoTransaction
  /\ \E t \in Tables, columns \in Shapes :
       /\ columns # shape[t] => MayAlter(t)
       /\ Produce(Message("row", block, t, columns))
       /\ shape' = [shape EXCEPT ![t] = columns]
       /\ oddities' = IF columns = shape[t] THEN oddities ELSE oddities + 1
  /\ UNCHANGED << block, streaming >>

(* An update whose large value did not change, and is not sent.            *)
Withhold ==
  /\ "withhold" \in SourceDoes
  /\ block # NoTransaction
  /\ oddities < MaxOddities
  /\ \E t \in Tables : Produce(Message("withheld", block, t, shape[t]))
  /\ oddities' = oddities + 1
  /\ UNCHANGED << block, streaming, shape >>

Truncate ==
  /\ "truncate" \in SourceDoes
  /\ block # NoTransaction
  /\ oddities < MaxOddities
  /\ \E t \in Tables : Produce(Message("truncate", block, t, 0))
  /\ oddities' = oddities + 1
  /\ UNCHANGED << block, streaming, shape >>

(* The pipeline sees nothing of the source but what it is delivered, so    *)
(* the source moves only when all it produced has been.                    *)
Source ==
  /\ arriving > Len(stream)
  /\ Len(stream) < MaxStream
  /\ \/ Begin \/ End \/ StreamChunk
     \/ StreamEnd("stream_commit") \/ StreamEnd("stream_abort")
     \/ Change \/ Withhold \/ Truncate
  /\ UNCHANGED << connection, process, log, restarts, givenUp >>

-----------------------------------------------------------------------------
(* A table's log: its first commit and a change of shape carry metadata, a *)
(* commit of rows the position it covers, one of somebody else neither.    *)

LogEntry(kind, rows, covers, columns) ==
  [kind |-> kind, rows |-> rows, covers |-> covers, columns |-> columns]

Newest(places) == CHOOSE i \in places : \A j \in places : j <= i

AppendsAt(t) == { i \in DOMAIN log[t] : log[t][i].kind = "append" }
Appends(t)   == { log[t][i] : i \in AppendsAt(t) }
Published(t) == UNION { log[t][i].rows : i \in DOMAIN log[t] }

(* What restore_published_position is given: the position of the newest    *)
(* commit that declares one.                                               *)
LogPosition(t) == IF AppendsAt(t) = {} THEN 0 ELSE log[t][Newest(AppendsAt(t))].covers

(* The shape the log declares, and whether there is a log at all.          *)
IsTable(t) == log[t] # << >>
Declares(t) ==
  LET named == { i \in DOMAIN log[t] : log[t][i].kind = "metadata" }
  IN  IF named = {} THEN 0 ELSE log[t][Newest(named)].columns

-----------------------------------------------------------------------------
(* The process.                                                            *)

NotOnboarded == [onboarded |-> FALSE]

(* TableState.  pending: the shape an operator may adopt, or Undescribed.  *)
(* version: next_version, zero until the log has been looked at.           *)
NewTable(columns, position) ==
  [onboarded |-> TRUE, columns |-> columns, batcher |-> NewBatcher, quarantined |-> FALSE,
   pending |-> Undescribed, version |-> 0, through |-> position]

Idle == [kind |-> "idle", todo |-> {}, table |-> NoTable, columns |-> 0]

(* The process is gone, and what it held with it.                          *)
Down ==
  /\ running' = FALSE
  /\ tables' = [t \in Tables |-> NotOnboarded]
  /\ opening' = NoTransaction
  /\ work' = Idle
  /\ applied' = 0

(* An error: the process stops, or its driver goes on with what is left.   *)
(* Either way the rows that had been taken out of the batcher are gone,    *)
(* and only in the first case does the source send them again.             *)
Fails(after, lost) ==
  \/ Down /\ UNCHANGED givenUp
  \/ /\ CarriesOn
     /\ tables' = after
     /\ givenUp' = givenUp \cup lost
     /\ work' = Idle
     /\ UNCHANGED << running, opening, applied >>

(* A boundary reaches every table's batcher, and an opening one is kept    *)
(* for the tables this transaction introduces.                             *)
AcceptBoundary(m) ==
  /\ m.kind \in Openings \cup Endings
  /\ opening' = IF m.kind \in Openings THEN m.xid ELSE NoTransaction
  /\ tables' = [t \in Tables |->
                  IF tables[t].onboarded
                  THEN [tables[t] EXCEPT !.batcher = Boundary(@, m, arriving)] ELSE tables[t]]
  /\ UNCHANGED << described, running, work, applied, givenUp >>

(* A truncation quarantines the table, with no shape that would end it.    *)
AcceptTruncate(m) ==
  /\ m.kind = "truncate"
  /\ tables' = [tables EXCEPT ![m.table] =
                  IF @.onboarded THEN [@ EXCEPT !.quarantined = TRUE] ELSE @]
  /\ UNCHANGED << described, running, opening, work, applied, givenUp >>

(* A row goes to its table: counted and left there if the table is         *)
(* quarantined, refused, or put with its transaction.  A row of no         *)
(* transaction, which the source does not send, is refused unrecorded.     *)
AcceptRow(m) ==
  /\ m.kind \in RowKinds
  /\ described[m.table] = m.columns
  /\ LET state == tables[m.table]
     IN  /\ givenUp' = IF state.quarantined \/ m.kind = "withheld"
                       THEN givenUp \cup {arriving} ELSE givenUp
         /\ tables' = IF state.quarantined \/ Refuses(state.batcher, m) THEN tables
                      ELSE [tables EXCEPT ![m.table].batcher = Pushed(@, arriving)]
  /\ UNCHANGED << described, running, opening, work, applied >>

AcceptMessage ==
  /\ running /\ work = Idle /\ arriving <= Len(stream)
  /\ LET m == stream[arriving]
     IN  AcceptBoundary(m) \/ AcceptTruncate(m) \/ AcceptRow(m)
  /\ arriving' = arriving + 1
  /\ UNCHANGED << upstream, log, restarts >>

(* A relation is described before the first row that needs it.             *)
Describes(t, columns) ==
  /\ running /\ work = Idle /\ arriving <= Len(stream)
  /\ stream[arriving].kind \in RowKinds
  /\ t = stream[arriving].table /\ columns = stream[arriving].columns
  /\ described[t] # columns
  /\ described' = [described EXCEPT ![t] = columns]

(* Mutant: a restarted pipeline begins at position zero.                   *)
RestoredZero(t) == 0

(* The position the driver restores a table with.                          *)
Restored(t) == LogPosition(t)

(* A table seen for the first time is told the transaction that is open.   *)
Fresh(t, columns) ==
  [NewTable(columns, Restored(t)) EXCEPT
     !.batcher = IF opening = NoTransaction THEN @ ELSE Opened(@, opening)]

(* A relation that cannot be onboarded stops the pipeline.                 *)
Onboard(t, columns) ==
  /\ Describes(t, columns)
  /\ ~tables[t].onboarded
  /\ IF columns = 0 THEN Down
     ELSE /\ tables' = [tables EXCEPT ![t] = Fresh(t, columns)]
          /\ UNCHANGED << running, opening, work, applied >>
  /\ UNCHANGED << upstream, arriving, log, restarts, givenUp >>

(* A shape that has columns fewer, or none the format can carry, is not    *)
(* adopted but quarantines the table.                                      *)
Quarantine(t, columns) ==
  /\ Describes(t, columns)
  /\ tables[t].onboarded
  /\ columns < tables[t].columns
  /\ tables' = [tables EXCEPT
                  ![t].quarantined = TRUE,
                  ![t].pending = IF columns = 0 THEN Undescribed ELSE columns]
  /\ UNCHANGED << upstream, arriving, running, opening, work, applied, log, restarts, givenUp >>

(* The relation is described again as it was.                              *)
Unchanged(t, columns) ==
  /\ Describes(t, columns)
  /\ tables[t].onboarded
  /\ columns = tables[t].columns
  /\ UNCHANGED << upstream, arriving, process, log, restarts, givenUp >>

(* The tables a publish flushes: those that are not quarantined, if they   *)
(* are due or the publish is forced.                                       *)
ToPublish(force) ==
  { t \in Tables : /\ tables[t].onboarded
                   /\ ~tables[t].quarantined
                   /\ force \/ Due(tables[t].batcher) }

(* A wider shape: everything captured under the old one is published       *)
(* before the new one is adopted.                                          *)
Widen(t, columns) ==
  /\ Describes(t, columns)
  /\ tables[t].onboarded
  /\ columns > tables[t].columns
  /\ work' = [kind |-> "evolve", todo |-> ToPublish(TRUE), table |-> t, columns |-> columns]
  /\ UNCHANGED << upstream, arriving, running, tables, opening, applied, log, restarts, givenUp >>

(* ... and then it goes to the log, at the version this process believes   *)
(* is next and at no other, and to memory.                                 *)
Evolve ==
  /\ running /\ work.kind = "evolve" /\ work.todo = {}
  /\ LET t == work.table
         state == tables[t]
         adopted(version) == [tables EXCEPT ![t].columns = work.columns, ![t].version = version]
         at == IF state.version = 0 THEN Len(log[t]) ELSE state.version
     IN  \/ /\ ~IsTable(t)
           /\ tables' = adopted(state.version)
           /\ work' = Idle
           /\ UNCHANGED << running, opening, applied, log, givenUp >>
        \/ /\ IsTable(t) /\ at = Len(log[t])
           /\ log' = [log EXCEPT ![t] = Append(@, LogEntry("metadata", {}, 0, work.columns))]
           /\ \/ /\ tables' = adopted(at + 1)
                 /\ work' = Idle
                 /\ UNCHANGED << running, opening, applied, givenUp >>
              \/ Fails(tables, {})
        \/ /\ IsTable(t)
           /\ Fails(tables, {})
           /\ UNCHANGED log
  /\ UNCHANGED << upstream, connection, restarts >>

BeginPublish(force) ==
  /\ running /\ work = Idle
  /\ \E t \in ToPublish(force) : tables[t].batcher.sealed # {}
  /\ work' = [Idle EXCEPT !.kind = "publish", !.todo = ToPublish(force)]
  /\ UNCHANGED << upstream, connection, running, tables, opening, applied, log, restarts, givenUp >>

(* Mutant: a batch is dropped only when every row of it is old.            *)
NewRowsByBatch(state) ==
  IF \E m \in state.batcher.sealed : m.lsn > state.through THEN state.batcher.sealed ELSE {}

(* The rows of a flush that were not published before.                     *)
NewRows(state) == { m \in state.batcher.sealed : m.lsn > state.through }

(* encode_batch wants a value for every column of the shape.               *)
Encodes(rows, columns) == \A m \in rows : stream[m.row].columns >= columns

(* The position a flush covers.                                            *)
Covers(state) == state.batcher.covers

(* One table of a publish: what is sealed is taken, the rows below the     *)
(* floor are left out, the table is created when it is not there, and the  *)
(* rows are appended with the position, rebasing past anybody else's       *)
(* commits.  The append may fail, or be made and reported as failed, and a *)
(* table may be created and nothing appended.                              *)
PublishTable(t) ==
  /\ running /\ t \in work.todo
  /\ LET state == tables[t]
         rows == NewRows(state)
         lost == { m.row : m \in rows }
         flushed == [tables EXCEPT ![t].batcher = Flushed(@)]
         created == IF IsTable(t) THEN << >> ELSE << LogEntry("metadata", {}, 0, state.columns) >>
         appended == Append(created, LogEntry("append", rows, Covers(state), state.columns))
         looked == [flushed EXCEPT ![t].version = IF @ = 0 THEN Len(log[t] \o created) ELSE @]
         writes(entries) == log' = [log EXCEPT ![t] = @ \o entries]
         rest == IF work.kind = "publish" /\ work.todo = {t} THEN Idle
                 ELSE [work EXCEPT !.todo = @ \ {t}]
     IN  \/ /\ rows = {}
           /\ tables' = flushed
           /\ work' = rest
           /\ UNCHANGED << running, opening, applied, log, givenUp >>
        \/ /\ rows # {} /\ ~Encodes(rows, state.columns)
           /\ Fails(flushed, lost)
           /\ UNCHANGED log
        \/ /\ rows # {} /\ Encodes(rows, state.columns)
           /\ \/ /\ writes(appended)
                 /\ tables' = [flushed EXCEPT ![t].version = Len(log[t] \o appended),
                                              ![t].through = Covers(state)]
                 /\ applied' = IF Covers(state) > applied THEN Covers(state) ELSE applied
                 /\ work' = rest
                 /\ UNCHANGED << running, opening, givenUp >>
              \/ writes(appended) /\ Fails(looked, {})
              \/ writes(created)  /\ Fails(looked, lost)
  /\ UNCHANGED << upstream, connection, restarts >>

(* An operator adopts the shape the source moved to.                       *)
AdoptPendingSchema(t) ==
  /\ running /\ work = Idle
  /\ tables[t].onboarded
  /\ tables[t].pending # Undescribed
  /\ tables' = [tables EXCEPT ![t].columns = tables[t].pending,
                              ![t].quarantined = FALSE,
                              ![t].pending = Undescribed]
  /\ UNCHANGED << upstream, connection, running, opening, work, applied, log, restarts, givenUp >>

(* Somebody else commits to the log: maintenance, which moves no rows.     *)
OtherCommits(t) ==
  /\ IsTable(t)
  /\ oddities < MaxOddities
  /\ log' = [log EXCEPT ![t] = Append(@, LogEntry("other", {}, 0, 0))]
  /\ oddities' = oddities + 1
  /\ UNCHANGED << stream, block, streaming, shape, connection, process, restarts, givenUp >>

(* The source forgets that it described a relation, as it does whenever    *)
(* its cache of the relation is invalidated, and describes it once more.   *)
Invalidate(t) ==
  /\ described[t] # Undescribed
  /\ oddities < MaxOddities
  /\ described' = [described EXCEPT ![t] = Undescribed]
  /\ oddities' = oddities + 1
  /\ UNCHANGED << stream, block, streaming, shape, arriving, process, log, restarts, givenUp >>

(* A crash that no restart follows would show nothing more.                *)
ProcessCrash ==
  /\ running /\ restarts < MaxRestarts
  /\ Down
  /\ UNCHANGED << upstream, connection, log, restarts, givenUp >>

(* A position that may have been confirmed: no transaction is open there,  *)
(* and every change before it is in its table or was given up.             *)
MayResumeAt(position) ==
  /\ \A x \in 1..position : stream[x].xid = x =>
       \E e \in 1..position : stream[e].xid = x /\ stream[e].kind \in Endings
  /\ \A t \in Tables : \A c \in CommittedChanges(t) :
       c.lsn <= position => c.row \in givenUp \/ c \in Published(t)

(* The process starts with nothing in memory, and the source sends what    *)
(* follows a position that was confirmed, describing relations anew.       *)
Restart ==
  /\ ~running
  /\ restarts < MaxRestarts
  /\ \E position \in 0..Len(stream) :
       /\ MayResumeAt(position)
       /\ arriving' = position + 1
  /\ described' = [t \in Tables |-> Undescribed]
  /\ running' = TRUE
  /\ restarts' = restarts + 1
  /\ UNCHANGED << upstream, tables, opening, work, applied, log, givenUp >>

-----------------------------------------------------------------------------
CaptureInit ==
  /\ stream = << >> /\ block = NoTransaction /\ streaming = {}
  /\ shape = [t \in Tables |-> FirstShape] /\ oddities = 0
  /\ arriving = 1 /\ described = [t \in Tables |-> Undescribed]
  /\ running = TRUE
  /\ tables = [t \in Tables |-> NotOnboarded]
  /\ opening = NoTransaction /\ work = Idle /\ applied = 0
  /\ log = [t \in Tables |-> << >>]
  /\ restarts = 0 /\ givenUp = {}

CaptureNext ==
  \/ Source
  \/ AcceptMessage
  \/ \E t \in Tables, columns \in Shapes :
       Onboard(t, columns) \/ Quarantine(t, columns) \/ Unchanged(t, columns) \/ Widen(t, columns)
  \/ Evolve
  \/ \E force \in BOOLEAN : BeginPublish(force)
  \/ \E t \in Tables : PublishTable(t) \/ AdoptPendingSchema(t)
                       \/ OtherCommits(t) \/ Invalidate(t)
  \/ ProcessCrash
  \/ Restart

CaptureSpec == CaptureInit /\ [][CaptureNext]_captureVars

-----------------------------------------------------------------------------
(* No change is in a table twice: neither what the source sends again      *)
(* after a restart, nor what a publish wrote and was told it had not.      *)
(* pipeline.rs, the floor of publish.                                      *)
RowsOnce ==
  \A t \in Tables : \A i, j \in DOMAIN log[t] :
    i # j => \A m \in log[t][i].rows, n \in log[t][j].rows : m.row # n.row

(* Only whole, committed transactions are published: what one commit of a  *)
(* table holds of a transaction no other commit holds a part of, and an    *)
(* aborted transaction leaves nothing.  batch.rs, "The invariant".         *)
NeverTorn ==
  \A t \in Tables : \A i \in DOMAIN log[t] : \A m \in log[t][i].rows :
    /\ m.lsn = CommitOf(stream[m.row].xid)
    /\ \A j \in DOMAIN log[t] \ {i} : \A n \in log[t][j].rows :
         stream[n.row].xid # stream[m.row].xid

(* Each table, to a reader of its log, behaves as ExactlyOnce promises.    *)
Promise == INSTANCE ExactlyOnce WITH
  committed <- [t \in Tables |-> CommittedChanges(t)],
  history   <- [t \in Tables |-> Appends(t)]

KeepsPromise == Promise!Spec

(* pipeline.rs:71, "The highest position wholly published across every     *)
(* table."                                                                 *)
AppliedByEveryTable ==
  work = Idle => \A t \in Tables : \A c \in CommittedChanges(t) :
    c.lsn <= applied => c.row \in givenUp \/ c \in Published(t)

(* pipeline.rs:372, "The change reaches the **log**, not only this         *)
(* process's memory."                                                      *)
LogDeclaresItsColumns ==
  \A t \in Tables : \A i \in DOMAIN log[t] :
    log[t][i].kind = "append" => log[t][i].columns <= Declares(t)
=============================================================================
