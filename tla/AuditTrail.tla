------------------------------ MODULE AuditTrail -------------------------------
(***************************************************************************)
(* The audit of a warehouse: a chain of records in the memory of the       *)
(* server that holds the warehouse's lock, and the journal it writes each  *)
(* of them through to, a line at a time, from which the next server        *)
(* resumes.  Source: src/crates/sankhya-audit/src/chain.rs and journal.rs, *)
(* src/crates/sankhya-server/src/audit.rs.                                 *)
(*                                                                         *)
(* Entries are numbered in the order in which they are made.  A digest is  *)
(* the entry it is the digest of, and 0 is the genesis value: no two       *)
(* records share one.                                                      *)
(***************************************************************************)
EXTENDS WarehouseLock, FiniteSetsExt, SequencesExt

CONSTANTS
    Window,       \* the records a server's chain keeps in memory
    MaxEntries    \* bound: entries made, over all the processes

ASSUME AuditAssumption ==
    /\ Window \in Nat \ {0}
    /\ MaxEntries \in Nat

VARIABLES
    journal,    \* the lines of the file
    ended,      \* whether its last line has its newline
    chain,      \* the chain and the journal each process holds
    made,       \* counts the entries made
    durable,    \* entries whose append to the journal returned
    unwritten,  \* entries whose append failed, which is logged and counted
    lost,       \* entries whose process stopped inside their append
    misread,    \* history: the servers that resumed from less than the journal
    doubtful    \* history: the first entry made by one of those, or beside another server

entries   == <<made, durable, unwritten, lost, doubtful>>
auditVars == <<journal, ended, chain, entries, misread>>
vars == <<lockVars, auditVars>>

Genesis == 0

\* A line that is not a record.
Junk == [sequence |-> -1, entry |-> Genesis, previous |-> Genesis]

IsRecord(line) == line # Junk

\* A chain of nothing, with or without a journal; what a process has until it resumes.
Empty == [total |-> 0, head |-> Genesis, records |-> <<>>, open |-> FALSE]
NotResumed == [Empty EXCEPT !.total = -1]

Serving(p) == Holding(p) /\ chain[p] # NotResumed

AuditInit ==
    /\ LockInit
    /\ journal = <<>>
    /\ ended = TRUE
    /\ chain = [p \in Processes |-> NotResumed]
    /\ made = 0
    /\ durable = {}
    /\ unwritten = {}
    /\ lost = {}
    /\ misread = {}
    /\ doubtful = {}

-----------------------------------------------------------------------------
(* The chain. *)

\* Mutant: a chain that forgets nothing.
KeptAll(records) == records

\* forget_old: the oldest records go until the window is satisfied.
Kept(records) == SubSeq(records, Max({1, Len(records) - Window + 1}), Len(records))

\* append_raw, and the end of append: a record is taken as it is given.
AppendRaw(c, r) ==
    [c EXCEPT !.head = r.entry, !.total = @ + 1, !.records = Kept(Append(@, r))]

\* append: what a new record holds comes from the whole chain, not from the window.
NewRecord(c, entry) == [sequence |-> c.total, entry |-> entry, previous |-> c.head]

\* verify: the records follow each other from the first of them on.
Verifies(records) ==
    \A i \in 1 .. Len(records) :
        /\ records[i].sequence = records[1].sequence + i - 1
        /\ i > 1 => records[i].previous = records[i - 1].entry

-----------------------------------------------------------------------------
(* The journal. *)

\* Mutant: a reading whose count is of the records it kept.
ReadCountingTheWindow(lines) ==
    LET records == Kept(SelectSeq(lines, IsRecord))
    IN  IF records = <<>> THEN Empty
        ELSE [total |-> Len(records), head |-> Last(records).entry,
              records |-> records, open |-> FALSE]

\* A line that is not a record is passed over.
TakeLine(c, line) == IF IsRecord(line) THEN AppendRaw(c, line) ELSE c

\* read_windowed: every line is read, from the first to the last.
ReadWindowed(lines) == FoldLeft(TakeLine, Empty, lines)

\* What is read instead when something fails: nothing, and no word of it, when the
\* file does not open; without a line that cannot be read, which is complained of.
Misread(lines) ==
    {<<>>} \cup {ReplaceAt(lines, i, Junk) : i \in {j \in 1 .. Len(lines) : IsRecord(lines[j])}}

\* What is written goes after what is there: a line that has no newline yet is
\* continued, and what it then holds is not a record.
Continued(line) ==
    IF ended THEN Append(journal, line) ELSE ReplaceAt(journal, Len(journal), Junk)

\* The append finishes, its sync too.
WriteWhole(r) ==
    /\ journal' = Continued(r)
    /\ ended' = TRUE

\* The append stops somewhere: before its first byte, inside the record, after the
\* record, or after its newline and before the sync has answered.
WriteInPart(r) ==
    \/ UNCHANGED <<journal, ended>>
    \/ journal' = Continued(Junk) /\ ended' = FALSE
    \/ journal' = Continued(r) /\ ended' = FALSE
    \/ journal' = Continued(r) /\ ended' = TRUE

-----------------------------------------------------------------------------
(* A server. *)

\* resume_audit, before anything is served: the chain is read, and the journal is
\* opened again to be appended to, whatever became of the reading.
Resumes(p, lines, open) ==
    /\ Holding(p) /\ chain[p] = NotResumed
    /\ chain' = [chain EXCEPT ![p] = [ReadWindowed(lines) EXCEPT !.open = open]]
    /\ UNCHANGED <<claims, journal, ended, entries>>

Resume(p) == Resumes(p, journal, TRUE) /\ UNCHANGED <<misread, failures>>

\* A journal that does not open leaves the chain in memory, which is said as the
\* server starts.
ResumeInMemory(p) ==
    /\ failures < MaxFailures /\ failures' = failures + 1
    /\ Resumes(p, journal, FALSE)
    /\ UNCHANGED misread

\* The server starts on what was read of the journal, and appends to all of it.
ResumeMisread(p) ==
    /\ failures < MaxFailures /\ failures' = failures + 1
    /\ \E lines \in Misread(journal) \ {journal} : Resumes(p, lines, TRUE)
    /\ misread' = misread \cup {p}

\* The chain once one more entry is in it.
WithEntry(c, entry) == AppendRaw(c, NewRecord(c, entry))

\* Mutant: the record to write is looked for by its number among those still in
\* memory.
HasRecordByNumber(c) == c.total \in 1 .. Len(c.records)

\* Whether there is one: the last record the chain holds.
HasRecord(c) == c.records # <<>>

\* p has read the whole journal, and is the only one who adds to it.
Alone(p) == p \notin misread /\ \A q \in Processes \ {p} : ~Serving(q)

\* An entry goes into the chain first, and from there to the journal, under one lock.
Make(p) ==
    /\ Serving(p) /\ made < MaxEntries
    /\ made' = made + 1
    /\ doubtful' = IF Alone(p) \/ doubtful # {} THEN doubtful ELSE {made'}

\* The append returns, or there is nothing to append to, or nothing to append.
Answer(p) ==
    /\ Make(p)
    /\ chain' = [chain EXCEPT ![p] = WithEntry(@, made')]
    /\ LET c == chain'[p]
       IN  IF c.open /\ HasRecord(c)
           THEN /\ WriteWhole(Last(c.records))
                /\ durable' = durable \cup {made'}
           ELSE UNCHANGED <<journal, ended, durable>>
    /\ unwritten' = IF chain[p].open THEN unwritten ELSE unwritten \cup {made'}
    /\ UNCHANGED <<lockVars, lost, misread>>

\* The append fails: logged and counted, and the statement goes on.
AnswerUnwritten(p) ==
    /\ Make(p)
    /\ chain' = [chain EXCEPT ![p] = WithEntry(@, made')]
    /\ chain[p].open
    /\ failures < MaxFailures
    /\ failures' = failures + 1
    /\ WriteInPart(Last(chain'[p].records))
    /\ unwritten' = unwritten \cup {made'}
    /\ UNCHANGED <<claims, durable, lost, misread>>

\* The process stops inside the append.
StopAnswering(p) ==
    /\ Make(p)
    /\ chain[p].open
    /\ Crash(p)
    /\ WriteInPart(Last(WithEntry(chain[p], made').records))
    /\ chain' = [chain EXCEPT ![p] = NotResumed]
    /\ misread' = misread \ {p}
    /\ lost' = lost \cup {made'}
    /\ UNCHANGED <<durable, unwritten>>

\* A step of the lock; what a process had in memory goes with the process.
Lock(p) ==
    /\ LockStep(p)
    /\ chain' = IF Holding(p) THEN [chain EXCEPT ![p] = NotResumed] ELSE chain
    /\ misread' = misread \ {p}
    /\ UNCHANGED <<journal, ended, entries>>

Next ==
    \E p \in Processes :
        \/ Lock(p)
        \/ Resume(p) \/ ResumeInMemory(p) \/ ResumeMisread(p)
        \/ Answer(p) \/ AnswerUnwritten(p) \/ StopAnswering(p)

\* A process that is taking the lock goes on: take waits for nothing.
Fairness == \A p \in Processes : WF_vars(Take(p) /\ UNCHANGED auditVars)

Spec == AuditInit /\ [][Next]_vars /\ Fairness

-----------------------------------------------------------------------------
Entries == 1 .. MaxEntries

Records == [sequence : Nat, entry : Entries, previous : {Genesis} \cup Entries]

TypeOK ==
    /\ LockTypeOK
    /\ journal \in Seq(Records \cup {Junk})
    /\ ended \in BOOLEAN
    /\ \A p \in Processes :
          \/ chain[p] = NotResumed
          \/ /\ chain[p].total \in Nat
             /\ chain[p].head \in {Genesis} \cup Entries
             /\ chain[p].records \in Seq(Records)
             /\ Len(chain[p].records) = Min({Window, chain[p].total})
             /\ chain[p].open \in BOOLEAN
    /\ made \in 0 .. MaxEntries
    /\ durable \cup unwritten \cup lost \cup doubtful \subseteq 1 .. made
    /\ misread \in SUBSET Processes

\* The audit never stops in silence: every entry made was appended to the journal,
\* or its failure was reported, or its process stopped inside the append.
NothingSilent == 1 .. made = durable \cup unwritten \cup lost

\* The first entry that was not appended, or not by a server that knew the journal.
FirstHole == Min({made + 1} \cup unwritten \cup lost \cup doubtful)

\* Up to the first entry that could not be written, or was made beside another
\* server or by one that had not read the whole journal, the journal is the audit:
\* every entry, in the order they were made, each linked to the one before it, over
\* any number of servers, restarts and windows.  Nothing that happens later changes
\* it, neither half a line nor a chain that begins again at its genesis.
SoundToTheFirstHole ==
    /\ FirstHole - 1 <= Len(journal)
    /\ Verifies(SubSeq(journal, 1, FirstHole - 1))
    /\ \A i \in 1 .. FirstHole - 1 : journal[i].entry = i /\ journal[i].sequence = i - 1

\* "Write one record and make it durable before returning": an entry whose append
\* returned is a record of the journal.
DurableIsThere ==
    \A e \in durable : \E i \in 1 .. Len(journal) : journal[i].entry = e
=============================================================================
