----------------------------- MODULE Snapshots -----------------------------
(***************************************************************************)
(* Named snapshots: how the versions of many tables are read at one        *)
(* instant without a lock over them, how the document that names them is   *)
(* put in its directory, and what a session that quotes the name finds.    *)
(* Source: src/crates/sankhya-server/src/snapshots.rs,                     *)
(* sankhya-atomicfs/src/lib.rs, sankhya-snapshot/src.                      *)
(*                                                                         *)
(* Abstracted: reading one table is one step, which stands for finding it  *)
(* in the list of servable tables and reading its log; a table that is not *)
(* there is at version -1.  Expiry, who may read what, and the text of a   *)
(* document are left out.                                                  *)
(***************************************************************************)
EXTENDS Integers

CONSTANTS
    Tables,      \* ordinary tables: their versions only grow
    Clones,      \* clones: at version 0 for as long as they are there
    Names,       \* names of snapshots
    Statements,  \* statements that take and drop snapshots
    Attempts,    \* ATTEMPTS: how often the two passes are tried
    MaxVersion,  \* bound: the last version of a table
    MaxFiles,    \* bound: staging files beside one another
    MaxMade,     \* bound: how often a clone is made
    MaxFaults    \* bound: reads and writes that fail, and restarts

All == Tables \cup Clones

SnapshotsAssumption ==
    /\ Tables \cap Clones = {}
    /\ Attempts \in Nat \ {0}
    /\ MaxVersion \in Nat /\ MaxFiles \in Nat /\ MaxMade \in Nat /\ MaxFaults \in Nat

ASSUME SnapshotsAssumption

VARIABLES
    stand,    \* the version each table stands at
    made,     \* which making of it each clone is
    final,    \* the document under each name
    staging,  \* the staging files beside them
    at,       \* where each statement is
    asked,    \* the name it was asked for
    todo,     \* the tables this pass has still to read
    first,    \* what the first pass read
    second,   \* what the second pass read
    tries,    \* how often the two have disagreed
    file,     \* the staging file it is writing
    faults,   \* how many faults there have been
    instant   \* history: where the tables it found stood between the two passes

passes == <<todo, first, second, tries, file, instant>>
disk   == <<final, staging>>
world  == <<stand, made>>
vars   == <<world, disk, at, asked, passes, faults>>

Versions == [All -> -1 .. MaxVersion]
Unread   == [t \in All |-> -1]
NoDoc    == [kind |-> "none"]

Documents == [kind : {"snapshot"}, tables : Versions, instant : Versions]
Files     == [id : 0 .. MaxFiles, name : Names, whole : BOOLEAN, document : Documents]

TypeOK ==
    /\ stand \in Versions
    /\ made \in [Clones -> 0 .. MaxMade]
    /\ final \in [Names -> Documents \cup {NoDoc}]
    /\ staging \in SUBSET Files /\ file \in [Statements -> 0 .. MaxFiles]
    /\ at \in [Statements -> {"idle", "first", "second", "check", "stage", "write",
                              "rename", "dropping"}]
    /\ asked \in [Statements -> Names] /\ todo \in [Statements -> SUBSET All]
    /\ first \in [Statements -> Versions] /\ second \in [Statements -> Versions]
    /\ tries \in [Statements -> 0 .. Attempts - 1] /\ faults \in 0 .. MaxFaults
    /\ instant \in [Statements -> Versions]

Init ==
    /\ stand \in {v \in [All -> {-1, 0}] : \A c \in Clones : v[c] = -1}
    /\ made = [c \in Clones |-> 0]
    /\ final = [n \in Names |-> NoDoc] /\ staging = {}
    /\ file = [s \in Statements |-> 0]
    /\ at = [s \in Statements |-> "idle"]
    /\ asked \in [Statements -> Names]
    /\ todo = [s \in Statements |-> {}]
    /\ first = [s \in Statements |-> Unread] /\ second = [s \in Statements |-> Unread]
    /\ tries = [s \in Statements |-> 0]
    /\ faults = 0
    /\ instant = [s \in Statements |-> Unread]

-----------------------------------------------------------------------------
(* The warehouse moves.                                                    *)

\* A table is created, or commits.
Commit(t) ==
    /\ stand[t] < MaxVersion
    /\ stand' = [stand EXCEPT ![t] = @ + 1]
    /\ UNCHANGED <<made, disk, at, asked, passes, faults>>

\* A clone is made, at whatever version of its origin.
Make(c) ==
    /\ stand[c] = -1 /\ made[c] < MaxMade
    /\ stand' = [stand EXCEPT ![c] = 0]
    /\ made' = [made EXCEPT ![c] = @ + 1]
    /\ UNCHANGED <<disk, at, asked, passes, faults>>

\* A clone is dropped: nobody asks whether a snapshot names it.
Unmake(c) ==
    /\ stand[c] = 0
    /\ stand' = [stand EXCEPT ![c] = -1]
    /\ UNCHANGED <<made, disk, at, asked, passes, faults>>

-----------------------------------------------------------------------------
(* at_one_instant: two passes over the tables that must agree.             *)

\* CREATE SNAPSHOT n.
Begin(s, n) ==
    /\ at[s] = "idle"
    /\ at' = [at EXCEPT ![s] = "first"]
    /\ asked' = [asked EXCEPT ![s] = n]
    /\ todo' = [todo EXCEPT ![s] = All]
    /\ UNCHANGED <<world, disk, first, second, tries, file, instant, faults>>

\* What a statement holds goes with it.
Forgets(S) ==
    /\ todo' = [s \in Statements |-> IF s \in S THEN {} ELSE todo[s]]
    /\ first' = [s \in Statements |-> IF s \in S THEN Unread ELSE first[s]]
    /\ second' = [s \in Statements |-> IF s \in S THEN Unread ELSE second[s]]
    /\ tries' = [s \in Statements |-> IF s \in S THEN 0 ELSE tries[s]]
    /\ file' = [s \in Statements |-> IF s \in S THEN 0 ELSE file[s]]
    /\ instant' = [s \in Statements |-> IF s \in S THEN Unread ELSE instant[s]]

Reads(s, t, version) ==
    /\ at[s] \in {"first", "second"} /\ t \in todo[s]
    /\ todo' = [todo EXCEPT ![s] = @ \ {t}]
    /\ first' = IF at[s] = "first" THEN [first EXCEPT ![s][t] = version] ELSE first
    /\ second' = IF at[s] = "second" THEN [second EXCEPT ![s][t] = version] ELSE second
    /\ UNCHANGED <<world, disk, at, asked, tries, file, instant>>

\* once: the version of one table.
Look(s, t) == Reads(s, t, stand[t]) /\ UNCHANGED faults

\* A log that cannot be read is left out.
LookFails(s, t) ==
    /\ faults < MaxFaults /\ faults' = faults + 1
    /\ Reads(s, t, -1)

\* From the first pass to the second.
Turn(s) ==
    /\ at[s] = "first" /\ todo[s] = {}
    /\ at' = [at EXCEPT ![s] = "second"]
    /\ todo' = [todo EXCEPT ![s] = All]
    /\ instant' = [instant EXCEPT ![s] =
                      [t \in All |-> IF first[s][t] = -1 THEN -1 ELSE stand[t]]]
    /\ UNCHANGED <<world, disk, asked, first, second, tries, file, faults>>

\* Mutant: the passes found the same tables.
AgreeOnNames(s) == \A t \in All : (first[s][t] = -1) = (second[s][t] = -1)

Agree(s) == first[s] = second[s]

Agreed(s) ==
    /\ at[s] = "second" /\ todo[s] = {} /\ Agree(s)
    /\ at' = [at EXCEPT ![s] = "check"]
    /\ UNCHANGED <<world, disk, asked, passes, faults>>

\* Mutant: one attempt too many.
MayRetryOnceMore(s) == tries[s] < Attempts

MayRetry(s) == tries[s] + 1 < Attempts

\* Something moved: both passes again.
Retry(s) ==
    /\ at[s] = "second" /\ todo[s] = {} /\ ~Agree(s) /\ MayRetry(s)
    /\ at' = [at EXCEPT ![s] = "first"]
    /\ todo' = [todo EXCEPT ![s] = All]
    /\ tries' = [tries EXCEPT ![s] = @ + 1]
    /\ first' = [first EXCEPT ![s] = Unread] /\ second' = [second EXCEPT ![s] = Unread]
    /\ instant' = [instant EXCEPT ![s] = Unread]
    /\ UNCHANGED <<world, disk, asked, file, faults>>

\* ... or refused, once it has moved in every attempt.
Refuse(s) ==
    /\ at[s] = "second" /\ todo[s] = {} /\ ~Agree(s) /\ ~MayRetry(s)
    /\ at' = [at EXCEPT ![s] = "idle"]
    /\ Forgets({s})
    /\ UNCHANGED <<world, disk, asked, faults>>

-----------------------------------------------------------------------------
(* take: the document, through atomicfs publish.                           *)

NameFree(n) == final[n] = NoDoc

\* An existing name is refused rather than replaced.
Check(s) ==
    /\ at[s] = "check"
    /\ IF NameFree(asked[s])
         THEN at' = [at EXCEPT ![s] = "stage"] /\ UNCHANGED passes
         ELSE at' = [at EXCEPT ![s] = "idle"] /\ Forgets({s})
    /\ UNCHANGED <<world, disk, asked, faults>>

\* What take records: what the passes agreed on.
DocumentOf(s) == [kind |-> "snapshot", tables |-> first[s], instant |-> instant[s]]

\* NEXT: a number no staging file beside it has.
NewFiles ==
    LET free == {i \in 0 .. MaxFiles : \A f \in staging : f.id # i}
    IN  {i \in free : \A j \in free : i <= j}

\* The staging file is created, beside the documents, and is not whole yet.
Stage(s) ==
    /\ at[s] = "stage"
    /\ \E i \in NewFiles :
          /\ staging' = staging \cup {[id |-> i, name |-> asked[s], whole |-> FALSE,
                                       document |-> DocumentOf(s)]}
          /\ file' = [file EXCEPT ![s] = i]
    /\ at' = [at EXCEPT ![s] = "write"]
    /\ UNCHANGED <<world, final, asked, todo, first, second, tries, instant, faults>>

\* write_durably: written and synced.
Write(s) ==
    /\ at[s] = "write"
    /\ staging' = {IF f.id = file[s] THEN [f EXCEPT !.whole = TRUE] ELSE f : f \in staging}
    /\ at' = [at EXCEPT ![s] = "rename"]
    /\ UNCHANGED <<world, final, asked, passes, faults>>

\* It cannot be written: publish returns before anything removes it.
WriteFails(s) ==
    /\ at[s] = "write" /\ faults < MaxFaults
    /\ faults' = faults + 1
    /\ at' = [at EXCEPT ![s] = "idle"]
    /\ Forgets({s})
    /\ UNCHANGED <<world, disk, asked>>

\* The rename replaces whatever has the name by now.
Rename(s) ==
    /\ at[s] = "rename"
    /\ staging' = {f \in staging : f.id # file[s]}
    /\ final' = [final EXCEPT ![asked[s]] = DocumentOf(s)]
    /\ at' = [at EXCEPT ![s] = "idle"]
    /\ Forgets({s})
    /\ UNCHANGED <<world, asked, faults>>

-----------------------------------------------------------------------------
(* drop_it, a restart, and what a session finds under a name.                *)

\* DROP SNAPSHOT n: it exists, and may be dropped.
Drop(s, n) ==
    /\ at[s] = "idle" /\ ~NameFree(n)
    /\ at' = [at EXCEPT ![s] = "dropping"]
    /\ asked' = [asked EXCEPT ![s] = n]
    /\ UNCHANGED <<world, disk, passes, faults>>

\* remove_file, of whatever has the name by now.
Dropped(s) ==
    /\ at[s] = "dropping"
    /\ final' = [final EXCEPT ![asked[s]] = NoDoc]
    /\ at' = [at EXCEPT ![s] = "idle"]
    /\ UNCHANGED <<world, staging, asked, passes, faults>>

\* The server stops and starts: statements are gone, files are not.
Restart ==
    /\ faults < MaxFaults
    /\ faults' = faults + 1
    /\ at' = [s \in Statements |-> "idle"]
    /\ Forgets(Statements)
    /\ UNCHANGED <<world, disk, asked>>

Next ==
    \/ \E s \in Statements :
          \/ \E n \in Names : Begin(s, n) \/ Drop(s, n)
          \/ \E t \in All : Look(s, t) \/ LookFails(s, t)
          \/ Turn(s) \/ Agreed(s) \/ Retry(s) \/ Refuse(s)
          \/ Check(s) \/ Stage(s) \/ Write(s) \/ WriteFails(s) \/ Rename(s) \/ Dropped(s)
    \/ \E t \in Tables : Commit(t)
    \/ \E c \in Clones : Make(c) \/ Unmake(c)
    \/ Restart

Spec == Init /\ [][Next]_vars

\* load reads every file of the directory, and staging files sort first.
Staged(n) == {f.document : f \in {g \in staging : g.name = n /\ g.whole}}
Complaints == {f \in staging : ~f.whole}

\* as_of and check_setting: the first document of that name.
Found(n) == IF Staged(n) # {} THEN Staged(n) ELSE {final[n]} \ {NoDoc}

-----------------------------------------------------------------------------
(* Properties.                                                             *)

Written == ({final[n] : n \in Names} \ {NoDoc}) \cup {f.document : f \in staging}

\* The versions a snapshot names were all current together: at the moment
\* between the two passes that agreed, every table it names stood there.
OneInstant ==
    \A d \in Written : \A t \in All : d.tables[t] # -1 => d.instant[t] = d.tables[t]

(* What the source says, and does not keep.                                *)

\* "An existing name is refused rather than replaced": with two statements that
\* take one name, each looks before the other renames.
NeverReplaced ==
    [][\A n \in Names : final[n] # NoDoc => final'[n] \in {final[n], NoDoc}]_vars

\* A session that quotes a name reads the document of that name: a staging file
\* that was left behind is found before it.
DocumentIsFound == \A n \in Names : final[n] # NoDoc => Found(n) = {final[n]}

\* No document in the directory is ever half written.
AlwaysLegible == Complaints = {}
=============================================================================
