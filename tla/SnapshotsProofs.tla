--------------------------- MODULE SnapshotsProofs ---------------------------
(***************************************************************************)
(* That two passes that agree have read one instant, for any number of     *)
(* tables, statements, attempts, failures and restarts.  No clone is among *)
(* the tables: one that is dropped and made again between the reads is at  *)
(* version 0 in both, and was not there in between.                        *)
(*                                                                         *)
(* The argument for the instant is that versions only grow.  What the      *)
(* first pass read was at most what stood between the passes, what the     *)
(* second read was at least that; where they are equal, it stood there.    *)
(***************************************************************************)
EXTENDS Snapshots, TLAPS

InFirst(s) ==
    at[s] = "first" => \A t \in All \ todo[s] : first[s][t] <= stand[t]

InSecond(s) ==
    at[s] = "second" =>
        /\ \A t \in All : first[s][t] <= instant[s][t] /\ instant[s][t] <= stand[t]
        /\ \A t \in All \ todo[s] :
              second[s][t] # -1 => instant[s][t] <= second[s][t]

HasAgreed(s) ==
    at[s] \in {"check", "stage", "write", "rename"} =>
        \A t \in All : first[s][t] # -1 => instant[s][t] = first[s][t]

Passes == \A s \in Statements : InFirst(s) /\ InSecond(s) /\ HasAgreed(s)

IInv == TypeOK /\ Passes /\ OneInstant

-----------------------------------------------------------------------------
LEMMA Shapes == Unread \in Versions /\ NoDoc \notin Documents
BY SnapshotsAssumption DEF Unread, Versions, NoDoc, Documents, SnapshotsAssumption

LEMMA InitTypes == SnapshotsAssumption /\ Init => TypeOK
<1> SUFFICES ASSUME SnapshotsAssumption, Init PROVE TypeOK
  OBVIOUS
<1>1. stand \in Versions
  BY DEF Init, Versions, SnapshotsAssumption
<1> QED
  BY <1>1, Shapes DEF Init, TypeOK, SnapshotsAssumption

\* What a statement forgets keeps its type.
LEMMA ForgetsTypes ==
    ASSUME SnapshotsAssumption, TypeOK, NEW S \in SUBSET Statements, Forgets(S)
    PROVE  /\ todo' \in [Statements -> SUBSET All]
           /\ first' \in [Statements -> Versions] /\ second' \in [Statements -> Versions]
           /\ tries' \in [Statements -> 0 .. Attempts - 1]
           /\ file' \in [Statements -> 0 .. MaxFiles]
           /\ instant' \in [Statements -> Versions]
BY Shapes DEF Forgets, TypeOK, SnapshotsAssumption

LEMMA DocumentTypes ==
    ASSUME TypeOK, NEW s \in Statements
    PROVE  DocumentOf(s) \in Documents
BY DEF TypeOK, DocumentOf, Documents

\* The step of a statement that reads a table.
LEMMA ReadsTypes ==
    ASSUME SnapshotsAssumption, TypeOK, NEW s \in Statements, NEW t \in All,
           NEW v \in -1 .. MaxVersion, Reads(s, t, v), faults' \in 0 .. MaxFaults
    PROVE  TypeOK'
<1>1. first' \in [Statements -> Versions]
  BY DEF Reads, TypeOK, Versions
<1>2. second' \in [Statements -> Versions]
  BY DEF Reads, TypeOK, Versions
<1> QED
  BY <1>1, <1>2 DEF Reads, TypeOK, world, disk

LEMMA NextTypes == SnapshotsAssumption /\ TypeOK /\ [Next]_vars => TypeOK'
<1> SUFFICES ASSUME SnapshotsAssumption, TypeOK, [Next]_vars PROVE TypeOK'
  OBVIOUS
<1> USE DEF world, disk, passes
<1>1. ASSUME NEW s \in Statements, NEW n \in Names, Begin(s, n) PROVE TypeOK'
  BY <1>1 DEF Begin, TypeOK
<1>2. ASSUME NEW s \in Statements, NEW n \in Names, Drop(s, n) PROVE TypeOK'
  BY <1>2 DEF Drop, TypeOK
<1>3. ASSUME NEW s \in Statements, NEW t \in All, Look(s, t) PROVE TypeOK'
  <2>1. stand[t] \in -1 .. MaxVersion /\ faults' \in 0 .. MaxFaults
    BY <1>3 DEF Look, TypeOK, Versions
  <2> QED
    BY <1>3, <2>1, ReadsTypes DEF Look
<1>4. ASSUME NEW s \in Statements, NEW t \in All, LookFails(s, t) PROVE TypeOK'
  <2>1. -1 \in -1 .. MaxVersion /\ faults' \in 0 .. MaxFaults
    BY <1>4 DEF LookFails, TypeOK, SnapshotsAssumption
  <2> QED
    BY <1>4, <2>1, ReadsTypes DEF LookFails
<1>5. ASSUME NEW s \in Statements, Turn(s) PROVE TypeOK'
  <2>1. [t \in All |-> IF first[s][t] = -1 THEN -1 ELSE stand[t]] \in Versions
    BY DEF TypeOK, Versions, SnapshotsAssumption
  <2>2. instant' \in [Statements -> Versions]
    BY <1>5, <2>1 DEF Turn, TypeOK
  <2> QED
    BY <1>5, <2>2 DEF Turn, TypeOK
<1>6. ASSUME NEW s \in Statements, Agreed(s) PROVE TypeOK'
  BY <1>6 DEF Agreed, TypeOK
<1>7. ASSUME NEW s \in Statements, Retry(s) PROVE TypeOK'
  BY <1>7, Shapes DEF Retry, MayRetry, TypeOK, SnapshotsAssumption
<1>8. ASSUME NEW s \in Statements, Refuse(s) PROVE TypeOK'
  BY <1>8, ForgetsTypes DEF Refuse, TypeOK
<1>9. ASSUME NEW s \in Statements, Check(s) PROVE TypeOK'
  <2>1. CASE Forgets({s}) /\ at' = [at EXCEPT ![s] = "idle"]
    BY <1>9, <2>1, ForgetsTypes DEF Check, TypeOK
  <2>2. CASE UNCHANGED passes /\ at' = [at EXCEPT ![s] = "stage"]
    BY <1>9, <2>2 DEF Check, TypeOK
  <2> QED
    BY <1>9, <2>1, <2>2 DEF Check
<1>10. ASSUME NEW s \in Statements, Stage(s) PROVE TypeOK'
  <2>1. PICK i \in NewFiles :
          /\ staging' = staging \cup {[id |-> i, name |-> asked[s], whole |-> FALSE,
                                       document |-> DocumentOf(s)]}
          /\ file' = [file EXCEPT ![s] = i]
    BY <1>10 DEF Stage
  <2>2. i \in 0 .. MaxFiles
    BY DEF NewFiles
  <2>3. [id |-> i, name |-> asked[s], whole |-> FALSE, document |-> DocumentOf(s)] \in Files
    BY <2>2, DocumentTypes DEF Files, TypeOK
  <2> QED
    BY <1>10, <2>1, <2>2, <2>3 DEF Stage, TypeOK
<1>11. ASSUME NEW s \in Statements, Write(s) PROVE TypeOK'
  <2>1. \A f \in Files : [f EXCEPT !.whole = TRUE] \in Files
    BY DEF Files
  <2>2. staging' \in SUBSET Files
    BY <1>11, <2>1 DEF Write, TypeOK
  <2> QED
    BY <1>11, <2>2 DEF Write, TypeOK
<1>12. ASSUME NEW s \in Statements, WriteFails(s) PROVE TypeOK'
  BY <1>12, ForgetsTypes DEF WriteFails, TypeOK, SnapshotsAssumption
<1>13. ASSUME NEW s \in Statements, Rename(s) PROVE TypeOK'
  <2>1. staging' \in SUBSET Files
    BY <1>13 DEF Rename, TypeOK
  <2>2. final' \in [Names -> Documents \cup {NoDoc}]
    BY <1>13, DocumentTypes DEF Rename, TypeOK
  <2> QED
    BY <1>13, <2>1, <2>2, ForgetsTypes DEF Rename, TypeOK
<1>14. ASSUME NEW s \in Statements, Dropped(s) PROVE TypeOK'
  BY <1>14 DEF Dropped, TypeOK
<1>15. ASSUME NEW t \in Tables, Commit(t) PROVE TypeOK'
  <2>1. t \in All
    BY DEF All
  <2>2. stand' \in Versions
    BY <1>15, <2>1 DEF Commit, TypeOK, Versions, SnapshotsAssumption
  <2> QED
    BY <1>15, <2>2 DEF Commit, TypeOK
<1>16. ASSUME NEW c \in Clones, Make(c) \/ Unmake(c) PROVE TypeOK'
  <2>1. c \in All
    BY DEF All
  <2>2. stand' \in Versions
    <3>1. \E v \in {-1, 0} : stand' = [stand EXCEPT ![c] = v]
      BY <1>16 DEF Make, Unmake
    <3>2. -1 \in -1 .. MaxVersion /\ 0 \in -1 .. MaxVersion
      BY DEF SnapshotsAssumption
    <3> QED
      BY <2>1, <3>1, <3>2 DEF TypeOK, Versions
  <2>3. made' \in [Clones -> 0 .. MaxMade]
    <3>1. CASE Make(c)
      <4>1. made[c] \in 0 .. MaxMade /\ made[c] < MaxMade
        BY <3>1 DEF Make, TypeOK
      <4>2. made[c] + 1 \in 0 .. MaxMade
        BY <4>1 DEF SnapshotsAssumption
      <4> QED
        BY <3>1, <4>2 DEF Make, TypeOK
    <3>2. CASE Unmake(c)
      BY <3>2 DEF Unmake, TypeOK
    <3> QED
      BY <1>16, <3>1, <3>2
  <2> QED
    BY <1>16, <2>2, <2>3 DEF Make, Unmake, TypeOK
<1>17. ASSUME Restart PROVE TypeOK'
  BY <1>17, ForgetsTypes DEF Restart, TypeOK, SnapshotsAssumption
<1>18. CASE UNCHANGED vars
  BY <1>18 DEF vars, TypeOK
<1> QED
  BY <1>1, <1>2, <1>3, <1>4, <1>5, <1>6, <1>7, <1>8, <1>9, <1>10, <1>11, <1>12, <1>13, <1>14,
     <1>15, <1>16, <1>17, <1>18 DEF Next

\* The types of the whole state, for any tables, clones, statements and faults.
THEOREM TypeCorrect == Spec => []TypeOK
<1>1. Init => TypeOK
  BY SnapshotsAssumption, InitTypes
<1>2. TypeOK /\ [Next]_vars => TypeOK'
  BY SnapshotsAssumption, NextTypes
<1> QED
  BY <1>1, <1>2, PTL DEF Spec

-----------------------------------------------------------------------------
(* Two passes that agree have read one instant.                            *)

LEMMA InitInstant == Init => Passes /\ OneInstant
<1> SUFFICES ASSUME Init PROVE Passes /\ OneInstant
  OBVIOUS
<1>1. Written = {}
  BY DEF Init, Written
<1> QED
  BY <1>1 DEF Init, Passes, InFirst, InSecond, HasAgreed, OneInstant

\* A statement of which nothing changes, while no version goes back.
LEMMA Unmoved ==
    ASSUME TypeOK, TypeOK', NEW s \in Statements,
           InFirst(s), InSecond(s), HasAgreed(s),
           \A t \in All : stand[t] <= stand'[t],
           at'[s] = at[s], todo'[s] = todo[s], first'[s] = first[s],
           second'[s] = second[s], instant'[s] = instant[s]
    PROVE  InFirst(s)' /\ InSecond(s)' /\ HasAgreed(s)'
<1>1. \A t \in All : /\ stand[t] \in Int /\ stand'[t] \in Int
                    /\ first[s][t] \in Int /\ instant[s][t] \in Int
  BY DEF TypeOK, Versions
<1>2. InFirst(s)'
  BY <1>1 DEF InFirst
<1>3. InSecond(s)'
  BY <1>1 DEF InSecond
<1>4. HasAgreed(s)'
  BY DEF HasAgreed
<1> QED
  BY <1>2, <1>3, <1>4

\* A statement that has just stopped has nothing to keep.
LEMMA Stopped ==
    ASSUME NEW s \in Statements, at'[s] \in {"idle", "dropping"}
    PROVE  InFirst(s)' /\ InSecond(s)' /\ HasAgreed(s)'
BY DEF InFirst, InSecond, HasAgreed

\* A step of one statement leaves the others alone.
LEMMA OneMoves ==
    ASSUME TypeOK, TypeOK', Passes, NEW s \in Statements,
           UNCHANGED stand,
           \A r \in Statements \ {s} :
              /\ at'[r] = at[r] /\ todo'[r] = todo[r] /\ first'[r] = first[r]
              /\ second'[r] = second[r] /\ instant'[r] = instant[r],
           InFirst(s)', InSecond(s)', HasAgreed(s)'
    PROVE  Passes'
<1>1. \A t \in All : stand[t] <= stand'[t]
  BY DEF TypeOK, Versions
<1>2. ASSUME NEW r \in Statements \ {s} PROVE InFirst(r)' /\ InSecond(r)' /\ HasAgreed(r)'
  BY <1>1, Unmoved DEF Passes
<1> QED
  BY <1>2 DEF Passes

\* Only the rename and the staging file change what is written.
LEMMA NothingWritten ==
    ASSUME OneInstant, Written' \subseteq Written
    PROVE  OneInstant'
BY DEF OneInstant

LEMMA ReadsInstant ==
    ASSUME TypeOK, TypeOK', Passes, OneInstant, NEW s \in Statements, NEW t \in All,
           NEW v \in {stand[t], -1}, Reads(s, t, v)
    PROVE  Passes' /\ OneInstant'
<1>1. UNCHANGED stand /\ Written' = Written
  BY DEF Reads, world, disk, Written
<1>2. \A r \in Statements \ {s} :
        /\ at'[r] = at[r] /\ todo'[r] = todo[r] /\ first'[r] = first[r]
        /\ second'[r] = second[r] /\ instant'[r] = instant[r]
  BY DEF Reads, TypeOK
<1>3. /\ at'[s] = at[s] /\ todo'[s] = todo[s] \ {t} /\ instant'[s] = instant[s]
      /\ at[s] \in {"first", "second"}
  BY DEF Reads, TypeOK
<1>4. \A u \in All : /\ stand[u] \in -1 .. MaxVersion /\ first[s][u] \in -1 .. MaxVersion
                    /\ instant[s][u] \in -1 .. MaxVersion
                    /\ second[s][u] \in -1 .. MaxVersion
  BY DEF TypeOK, Versions
<1>5. CASE at[s] = "first"
  <2>1. /\ first'[s][t] = v /\ second'[s] = second[s]
        /\ \A u \in All \ {t} : first'[s][u] = first[s][u]
    BY <1>5 DEF Reads, TypeOK, Versions
  <2>2. v <= stand[t]
    BY <1>4
  <2>3. InFirst(s)'
    BY <1>1, <1>3, <1>5, <2>1, <2>2 DEF Passes, InFirst
  <2>4. InSecond(s)' /\ HasAgreed(s)'
    BY <1>3, <1>5 DEF InSecond, HasAgreed
  <2> QED
    BY <1>1, <1>2, <2>3, <2>4, OneMoves, NothingWritten
<1>6. CASE at[s] = "second"
  <2>1. /\ second'[s][t] = v /\ first'[s] = first[s]
        /\ \A u \in All \ {t} : second'[s][u] = second[s][u]
    BY <1>6 DEF Reads, TypeOK, Versions
  <2>2. v # -1 => instant[s][t] <= v
    BY <1>6 DEF Passes, InSecond
  <2>3. InSecond(s)'
    BY <1>1, <1>3, <1>6, <2>1, <2>2 DEF Passes, InSecond
  <2>4. InFirst(s)' /\ HasAgreed(s)'
    BY <1>3, <1>6 DEF InFirst, HasAgreed
  <2> QED
    BY <1>1, <1>2, <2>3, <2>4, OneMoves, NothingWritten
<1> QED
  BY <1>3, <1>5, <1>6

\* A statement that forgets what it holds, and writes nothing.
LEMMA StopsInstant ==
    ASSUME TypeOK, TypeOK', Passes, OneInstant, NEW s \in Statements,
           at' = [at EXCEPT ![s] = "idle"], Forgets({s}),
           UNCHANGED stand, Written' \subseteq Written
    PROVE  Passes' /\ OneInstant'
<1>1. \A r \in Statements \ {s} :
        /\ at'[r] = at[r] /\ todo'[r] = todo[r] /\ first'[r] = first[r]
        /\ second'[r] = second[r] /\ instant'[r] = instant[r]
  BY DEF Forgets, TypeOK
<1>2. at'[s] = "idle"
  BY DEF TypeOK
<1> QED
  BY <1>1, <1>2, Stopped, OneMoves, NothingWritten

\* What a statement that has agreed writes was current at one instant.
LEMMA WritesInstant ==
    ASSUME Passes, NEW s \in Statements, at[s] \in {"stage", "write", "rename"}, NEW t \in All,
           DocumentOf(s).tables[t] # -1
    PROVE  DocumentOf(s).instant[t] = DocumentOf(s).tables[t]
BY DEF Passes, HasAgreed, DocumentOf

LEMMA NextInstant ==
    Clones = {} /\ TypeOK /\ TypeOK' /\ Passes /\ OneInstant /\ [Next]_vars
        => Passes' /\ OneInstant'
<1> SUFFICES ASSUME Clones = {}, TypeOK, TypeOK', Passes, OneInstant, [Next]_vars
             PROVE  Passes' /\ OneInstant'
  OBVIOUS
<1> DEFINE Same(r) == /\ at'[r] = at[r] /\ todo'[r] = todo[r] /\ first'[r] = first[r]
                      /\ second'[r] = second[r] /\ instant'[r] = instant[r]
<1>1. ASSUME NEW s \in Statements, NEW n \in Names, Begin(s, n) PROVE Passes' /\ OneInstant'
  <2>1. UNCHANGED stand /\ Written' = Written
    BY <1>1 DEF Begin, world, disk, Written
  <2>2. \A r \in Statements \ {s} : Same(r)
    BY <1>1 DEF Begin, TypeOK
  <2>3. at'[s] = "first" /\ todo'[s] = All
    BY <1>1 DEF Begin, TypeOK
  <2>4. InFirst(s)' /\ InSecond(s)' /\ HasAgreed(s)'
    BY <2>3 DEF InFirst, InSecond, HasAgreed
  <2> QED
    BY <2>1, <2>2, <2>4, OneMoves, NothingWritten
<1>2. ASSUME NEW s \in Statements, NEW n \in Names, Drop(s, n) PROVE Passes' /\ OneInstant'
  <2>1. UNCHANGED stand /\ Written' = Written
    BY <1>2 DEF Drop, world, disk, Written
  <2>2. \A r \in Statements \ {s} : Same(r)
    BY <1>2 DEF Drop, TypeOK, passes
  <2>3. at'[s] = "dropping"
    BY <1>2 DEF Drop, TypeOK
  <2> QED
    BY <2>1, <2>2, <2>3, Stopped, OneMoves, NothingWritten
<1>3. ASSUME NEW s \in Statements, NEW t \in All, Look(s, t) PROVE Passes' /\ OneInstant'
  BY <1>3, ReadsInstant DEF Look
<1>4. ASSUME NEW s \in Statements, NEW t \in All, LookFails(s, t) PROVE Passes' /\ OneInstant'
  BY <1>4, ReadsInstant DEF LookFails
<1>5. ASSUME NEW s \in Statements, Turn(s) PROVE Passes' /\ OneInstant'
  <2>1. UNCHANGED stand /\ Written' = Written
    BY <1>5 DEF Turn, world, disk, Written
  <2>2. \A r \in Statements \ {s} : Same(r)
    BY <1>5 DEF Turn, TypeOK
  <2>3. /\ at'[s] = "second" /\ todo'[s] = All /\ first'[s] = first[s]
        /\ instant'[s] = [t \in All |-> IF first[s][t] = -1 THEN -1 ELSE stand[t]]
    BY <1>5 DEF Turn, TypeOK
  <2>4. \A t \in All : first[s][t] <= stand[t] /\ stand[t] \in Int
    BY <1>5 DEF Turn, Passes, InFirst, TypeOK, Versions
  <2>5. InFirst(s)' /\ InSecond(s)' /\ HasAgreed(s)'
    BY <2>1, <2>3, <2>4 DEF InFirst, InSecond, HasAgreed
  <2> QED
    BY <2>1, <2>2, <2>5, OneMoves, NothingWritten
<1>6. ASSUME NEW s \in Statements, Agreed(s) PROVE Passes' /\ OneInstant'
  <2>1. UNCHANGED stand /\ Written' = Written
    BY <1>6 DEF Agreed, world, disk, Written
  <2>2. \A r \in Statements \ {s} : Same(r)
    BY <1>6 DEF Agreed, TypeOK, passes
  <2>3. at'[s] = "check" /\ first'[s] = first[s] /\ instant'[s] = instant[s]
    BY <1>6 DEF Agreed, TypeOK, passes
  <2>4. ASSUME NEW t \in All, first[s][t] # -1 PROVE instant[s][t] = first[s][t]
    <3>1. first[s][t] \in Int /\ instant[s][t] \in Int
      BY DEF TypeOK, Versions
    <3>2. first[s][t] <= instant[s][t] /\ instant[s][t] <= first[s][t]
      BY <1>6, <2>4 DEF Agreed, Agree, Passes, InSecond
    <3> QED
      BY <3>1, <3>2
  <2>5. InFirst(s)' /\ InSecond(s)' /\ HasAgreed(s)'
    BY <2>3, <2>4 DEF InFirst, InSecond, HasAgreed
  <2> QED
    BY <2>1, <2>2, <2>5, OneMoves, NothingWritten
<1>7. ASSUME NEW s \in Statements, Retry(s) PROVE Passes' /\ OneInstant'
  <2>1. UNCHANGED stand /\ Written' = Written
    BY <1>7 DEF Retry, world, disk, Written
  <2>2. \A r \in Statements \ {s} : Same(r)
    BY <1>7 DEF Retry, TypeOK
  <2>3. at'[s] = "first" /\ todo'[s] = All
    BY <1>7 DEF Retry, TypeOK
  <2>4. InFirst(s)' /\ InSecond(s)' /\ HasAgreed(s)'
    BY <2>3 DEF InFirst, InSecond, HasAgreed
  <2> QED
    BY <2>1, <2>2, <2>4, OneMoves, NothingWritten
<1>8. ASSUME NEW s \in Statements, Refuse(s) PROVE Passes' /\ OneInstant'
  BY <1>8, StopsInstant DEF Refuse, world, disk, Written
<1>9. ASSUME NEW s \in Statements, Check(s) PROVE Passes' /\ OneInstant'
  <2>1. UNCHANGED stand /\ Written' = Written
    BY <1>9 DEF Check, world, disk, Written
  <2>2. CASE Forgets({s}) /\ at' = [at EXCEPT ![s] = "idle"]
    BY <2>1, <2>2, StopsInstant
  <2>3. CASE UNCHANGED passes /\ at' = [at EXCEPT ![s] = "stage"]
    <3>1. \A r \in Statements \ {s} : Same(r)
      BY <2>3 DEF TypeOK, passes
    <3>2. at[s] = "check" /\ at'[s] = "stage" /\ first'[s] = first[s] /\ instant'[s] = instant[s]
      BY <1>9, <2>3 DEF Check, TypeOK, passes
    <3>3. InFirst(s)' /\ InSecond(s)' /\ HasAgreed(s)'
      BY <3>2 DEF Passes, InFirst, InSecond, HasAgreed
    <3> QED
      BY <2>1, <3>1, <3>3, OneMoves, NothingWritten
  <2> QED
    BY <1>9, <2>2, <2>3 DEF Check
<1>10. ASSUME NEW s \in Statements, Stage(s) PROVE Passes' /\ OneInstant'
  <2>1. UNCHANGED stand /\ at[s] = "stage"
    BY <1>10 DEF Stage, world
  <2>2. \A r \in Statements \ {s} : Same(r)
    BY <1>10 DEF Stage, TypeOK, passes
  <2>3. at'[s] = "write" /\ first'[s] = first[s] /\ instant'[s] = instant[s]
    BY <1>10 DEF Stage, TypeOK, passes
  <2>4. InFirst(s)' /\ InSecond(s)' /\ HasAgreed(s)'
    BY <2>1, <2>3 DEF Passes, InFirst, InSecond, HasAgreed
  <2>5. Written' \subseteq Written \cup {DocumentOf(s)}
    BY <1>10 DEF Stage, Written
  <2>6. OneInstant'
    BY <2>1, <2>5, WritesInstant DEF OneInstant
  <2> QED
    BY <2>1, <2>2, <2>4, <2>6, OneMoves
<1>11. ASSUME NEW s \in Statements, Write(s) PROVE Passes' /\ OneInstant'
  <2>1. UNCHANGED stand /\ at[s] = "write"
    BY <1>11 DEF Write, world
  <2>2. \A r \in Statements \ {s} : Same(r)
    BY <1>11 DEF Write, TypeOK, passes
  <2>3. at'[s] = "rename" /\ first'[s] = first[s] /\ instant'[s] = instant[s]
    BY <1>11 DEF Write, TypeOK, passes
  <2>4. InFirst(s)' /\ InSecond(s)' /\ HasAgreed(s)'
    BY <2>1, <2>3 DEF Passes, InFirst, InSecond, HasAgreed
  <2>5. Written' \subseteq Written
    BY <1>11 DEF Write, Written, TypeOK, Files
  <2> QED
    BY <2>1, <2>2, <2>4, <2>5, OneMoves, NothingWritten
<1>12. ASSUME NEW s \in Statements, WriteFails(s) PROVE Passes' /\ OneInstant'
  BY <1>12, StopsInstant DEF WriteFails, world, disk, Written
<1>13. ASSUME NEW s \in Statements, Rename(s) PROVE Passes' /\ OneInstant'
  <2>1. Written' \subseteq Written \cup {DocumentOf(s)}
    BY <1>13 DEF Rename, Written, TypeOK
  <2>2. OneInstant'
    BY <1>13, <2>1, WritesInstant DEF OneInstant, Rename
  <2>3. \A r \in Statements \ {s} : Same(r)
    BY <1>13 DEF Rename, Forgets, TypeOK
  <2>4. at'[s] = "idle" /\ UNCHANGED stand
    BY <1>13 DEF Rename, TypeOK, world
  <2> QED
    BY <2>2, <2>3, <2>4, Stopped, OneMoves
<1>14. ASSUME NEW s \in Statements, Dropped(s) PROVE Passes' /\ OneInstant'
  <2>1. UNCHANGED stand /\ at'[s] = "idle"
    BY <1>14 DEF Dropped, world, TypeOK
  <2>2. \A r \in Statements \ {s} : Same(r)
    BY <1>14 DEF Dropped, TypeOK, passes
  <2>3. Written' \subseteq Written
    BY <1>14 DEF Dropped, Written, TypeOK
  <2> QED
    BY <2>1, <2>2, <2>3, Stopped, OneMoves, NothingWritten
<1>15. ASSUME NEW t \in Tables, Commit(t) PROVE Passes' /\ OneInstant'
  <2>1. \A u \in All : stand[u] <= stand'[u]
    BY <1>15 DEF Commit, TypeOK, Versions, All
  <2>2. Written' = Written /\ \A r \in Statements : Same(r)
    BY <1>15 DEF Commit, disk, passes, Written
  <2>3. \A r \in Statements : InFirst(r)' /\ InSecond(r)' /\ HasAgreed(r)'
    BY <2>1, <2>2, Unmoved DEF Passes
  <2> QED
    BY <2>2, <2>3, NothingWritten DEF Passes
<1>17. ASSUME Restart PROVE Passes' /\ OneInstant'
  <2>1. \A r \in Statements : at'[r] = "idle"
    BY <1>17 DEF Restart
  <2>2. Written' = Written
    BY <1>17 DEF Restart, disk, Written
  <2> QED
    BY <2>1, <2>2, Stopped, NothingWritten DEF Passes
<1>18. CASE UNCHANGED vars
  <2>1. \A t \in All : stand[t] <= stand'[t]
    BY <1>18 DEF vars, world, TypeOK, Versions
  <2>2. Written' = Written /\ \A r \in Statements : Same(r)
    BY <1>18 DEF vars, disk, passes, Written
  <2>3. \A r \in Statements : InFirst(r)' /\ InSecond(r)' /\ HasAgreed(r)'
    BY <2>1, <2>2, Unmoved DEF Passes
  <2> QED
    BY <2>2, <2>3, NothingWritten DEF Passes
<1> QED
  BY <1>1, <1>2, <1>3, <1>4, <1>5, <1>6, <1>7, <1>8, <1>9, <1>10, <1>11, <1>12, <1>13, <1>14,
     <1>15, <1>17, <1>18 DEF Next

\* at_one_instant: the versions in a snapshot were all current together,
\* whatever commits, however many statements take one, and whatever fails, where
\* none of the tables is a clone.
THEOREM SnapshotsAreInstants == Clones = {} /\ Spec => []OneInstant
<1> SUFFICES ASSUME Clones = {} PROVE Spec => []OneInstant
  OBVIOUS
<1>1. Init => IInv
  BY SnapshotsAssumption, InitTypes, InitInstant DEF IInv
<1>2. IInv /\ [Next]_vars => IInv'
  BY SnapshotsAssumption, NextTypes, NextInstant DEF IInv
<1>3. IInv => OneInstant
  BY DEF IInv
<1> QED
  BY <1>1, <1>2, <1>3, PTL DEF Spec
=============================================================================
