--------------------------- MODULE AuditTrailProofs ---------------------------
(***************************************************************************)
(* The lock and the audit, for any number of processes, crashes, pids,     *)
(* entries, windows and failures, and for any way of starting together.    *)
(*                                                                         *)
(* The lock keeps a warehouse to one server until a process removes a lock *)
(* it had not read, or takes for gone one that lives.  Until then the file *)
(* is whose who has made it says, and a process about to remove it looked  *)
(* for the holder it had read, and found it gone; what is gone never comes *)
(* back, so the file it removes, if it is that holder's, is nobody's.      *)
(*                                                                         *)
(* The journal is the audit up to the first entry that was not appended,   *)
(* or not by a server that is alone and has read the journal.  As long as  *)
(* there is none, whoever serves and has read the journal has a chain that *)
(* ends where the journal does, because it wrote the last line or read it; *)
(* after that, what is written comes after the hole.                       *)
(***************************************************************************)
EXTENDS AuditTrail, WellFoundedInduction, TLAPS

LockShapes ==
    /\ step \in [Processes -> Steps]
    /\ DOMAIN passes = Processes /\ DOMAIN named = Processes
    /\ file = [by |-> file.by, whole |-> file.whole]

\* Whoever a lock names has started, and so has whoever was read in one.
NamesTheStarted ==
    \A q \in Processes :
        /\ file.by = q => step[q] # "new"
        /\ \A p \in Processes :
              step[p] \in {"judge", "remove"} /\ named[p] = q => step[q] # "new"

\* Who has made the file goes on having made it.
OwnersFile ==
    \A p \in Processes :
        /\ step[p] = "write" => file = Claimed(p)
        /\ step[p] \in {"holding", "unlink"} => file = Written(p)

\* A process that is about to remove the file has read of one that is gone.
RemovesTheDead ==
    \A p, q \in Processes : step[p] = "remove" /\ named[p] = q => step[q] = "gone"

IInv == LockShapes /\ NamesTheStarted /\ (~hasty => OwnersFile /\ RemovesTheDead)

-----------------------------------------------------------------------------
LEMMA InitIInv == LockAssumption /\ AuditInit => IInv
BY DEF LockAssumption, AuditInit, LockInit, IInv, LockShapes, NamesTheStarted, OwnersFile,
       RemovesTheDead, NoFile, Steps

CountsFailures ==
    failures' = failures \/ (failures < MaxFailures /\ failures' = failures + 1)

\* What the audit does leaves the lock alone, except to crash.
LEMMA LockMoves ==
    ASSUME [Next]_vars
    PROVE  \/ UNCHANGED claims /\ CountsFailures
           \/ \E p \in Processes : LockStep(p)
<1>1. ASSUME NEW p \in Processes, Lock(p) PROVE LockStep(p)
  BY <1>1 DEF Lock
<1>2. ASSUME NEW p \in Processes, StopAnswering(p) PROVE LockStep(p)
  BY <1>2 DEF StopAnswering, LockStep
<1>3. ASSUME NEW p \in Processes, Resume(p) \/ ResumeInMemory(p) \/ ResumeMisread(p)
      PROVE  UNCHANGED claims /\ CountsFailures
  BY <1>3 DEF Resume, ResumeInMemory, ResumeMisread, Resumes, CountsFailures
<1>4. ASSUME NEW p \in Processes, Answer(p) \/ AnswerUnwritten(p)
      PROVE  UNCHANGED claims /\ CountsFailures
  BY <1>4 DEF Answer, AnswerUnwritten, lockVars, CountsFailures
<1>5. ASSUME UNCHANGED vars PROVE UNCHANGED claims /\ CountsFailures
  BY <1>5 DEF vars, lockVars, CountsFailures
<1> QED
  BY <1>1, <1>2, <1>3, <1>4, <1>5 DEF Next

LEMMA StutterIInv == ASSUME IInv, UNCHANGED claims PROVE IInv'
BY DEF claims, IInv, LockShapes, NamesTheStarted, OwnersFile, RemovesTheDead

\* Each step, over the parts of the invariant.
LEMMA StepIInv ==
    ASSUME LockAssumption, IInv, NEW p \in Processes, LockStep(p)
    PROVE  IInv'
<1> USE DEF Goto, Forgets, Steps, Claimed, Written, NoFile, Alive
<1>0. LockShapes /\ NamesTheStarted /\ (~hasty => OwnersFile /\ RemovesTheDead)
  BY DEF IInv
<1>1. Nobody \notin Processes
  BY DEF LockAssumption
<1>2. CASE Start(p)
  <2>1. LockShapes' /\ NamesTheStarted'
    BY <1>0, <1>2 DEF Start, LockShapes, NamesTheStarted
  <2>2. ~hasty' => OwnersFile' /\ RemovesTheDead'
    BY <1>0, <1>2 DEF Start, LockShapes, OwnersFile, RemovesTheDead
  <2> QED
    BY <2>1, <2>2 DEF IInv
<1>3. CASE Create(p)
  <2>1. CASE file = NoFile
    <3>1. LockShapes' /\ NamesTheStarted'
      BY <1>0, <1>1, <1>3, <2>1 DEF Create, LockShapes, NamesTheStarted
    <3>2. ~hasty' => OwnersFile'
      BY <1>0, <1>1, <1>3, <2>1 DEF Create, LockShapes, OwnersFile
    <3>3. ~hasty' => RemovesTheDead'
      BY <1>0, <1>3, <2>1 DEF Create, LockShapes, RemovesTheDead
    <3> QED
      BY <3>1, <3>2, <3>3 DEF IInv
  <2>2. CASE file # NoFile
    <3>1. LockShapes' /\ NamesTheStarted'
      BY <1>0, <1>3, <2>2 DEF Create, LockShapes, NamesTheStarted
    <3>2. ~hasty' => OwnersFile' /\ RemovesTheDead'
      BY <1>0, <1>3, <2>2 DEF Create, LockShapes, OwnersFile, RemovesTheDead
    <3> QED
      BY <3>1, <3>2 DEF IInv
  <2> QED
    BY <2>1, <2>2
<1>4. CASE Write(p)
  <2>1. file' = file \/ (file = Claimed(p) /\ file' = Written(p))
    BY <1>4 DEF Write, AfterWrite
  <2>2. LockShapes' /\ NamesTheStarted'
    BY <1>0, <1>4, <2>1 DEF Write, LockShapes, NamesTheStarted
  <2>3. ASSUME ~hasty' PROVE OwnersFile' /\ RemovesTheDead'
    <3>1. file' = Written(p) /\ file = Claimed(p) /\ OwnersFile /\ RemovesTheDead
      BY <1>0, <1>4, <2>3 DEF Write, AfterWrite, OwnersFile
    <3>2. OwnersFile'
      BY <1>0, <1>4, <3>1 DEF Write, LockShapes, OwnersFile
    <3>3. RemovesTheDead'
      BY <1>0, <1>4, <3>1 DEF Write, LockShapes, RemovesTheDead
    <3> QED
      BY <3>2, <3>3
  <2> QED
    BY <2>2, <2>3 DEF IInv
<1>5. CASE Read(p)
  <2>1. LockShapes' /\ NamesTheStarted'
    BY <1>0, <1>5 DEF Read, LockShapes, NamesTheStarted
  <2>2. ~hasty' => OwnersFile' /\ RemovesTheDead'
    BY <1>0, <1>5 DEF Read, LockShapes, OwnersFile, RemovesTheDead
  <2> QED
    BY <2>1, <2>2 DEF IInv
<1>6. CASE Judge(p)
  <2>1. LockShapes' /\ NamesTheStarted'
    BY <1>0, <1>1, <1>6 DEF Judge, LockShapes, NamesTheStarted
  <2>2. ~hasty' => OwnersFile'
    BY <1>0, <1>6 DEF Judge, LockShapes, OwnersFile
  <2>3. ~hasty' => RemovesTheDead'
    BY <1>0, <1>6 DEF Judge, HolderAlive, LockShapes, NamesTheStarted, RemovesTheDead
  <2> QED
    BY <2>1, <2>2, <2>3 DEF IInv
<1>7. CASE JudgeBlindly(p)
  <2>1. LockShapes' /\ NamesTheStarted'
    BY <1>0, <1>7 DEF JudgeBlindly, LockShapes, NamesTheStarted
  <2>2. ~hasty' => ~hasty /\ ~HolderAlive(named[p])
    BY <1>7 DEF JudgeBlindly
  <2>3. ~hasty' => OwnersFile'
    BY <1>0, <1>7, <2>2 DEF JudgeBlindly, LockShapes, OwnersFile
  <2>4. ~hasty' => RemovesTheDead'
    BY <1>0, <1>7, <2>2
       DEF JudgeBlindly, HolderAlive, LockShapes, NamesTheStarted, RemovesTheDead
  <2> QED
    BY <2>1, <2>3, <2>4 DEF IInv
<1>8. CASE RemoveStale(p)
  <2>1. /\ file' = NoFile /\ named' = [named EXCEPT ![p] = Nobody]
        /\ step[p] = "remove"
        /\ step' = [step EXCEPT ![p] = "create"] \/ step' = [step EXCEPT ![p] = "gone"]
        /\ DOMAIN passes' = DOMAIN passes
        /\ hasty' = (hasty \/ file.by \notin {Nobody, named[p]})
    BY <1>8 DEF RemoveStale, RemoveName
  <2>2. LockShapes' /\ NamesTheStarted'
    BY <1>0, <1>1, <2>1 DEF LockShapes, NamesTheStarted
  <2>3. ASSUME ~hasty' PROVE OwnersFile' /\ RemovesTheDead'
    <3>1. ~hasty /\ file.by \in {Nobody, named[p]} /\ OwnersFile /\ RemovesTheDead
      BY <1>0, <2>1, <2>3
    <3>2. \A q \in Processes : step[q] \notin {"write", "holding", "unlink"}
      <4>1. ASSUME NEW q \in Processes, step[q] \in {"write", "holding", "unlink"} PROVE FALSE
        <5>1. file.by = q
          BY <3>1, <4>1 DEF OwnersFile
        <5>2. named[p] = q
          BY <1>1, <3>1, <5>1
        <5> QED
          BY <2>1, <3>1, <4>1, <5>2 DEF RemovesTheDead
      <4> QED
        BY <4>1
    <3>3. OwnersFile'
      BY <1>0, <2>1, <3>2 DEF LockShapes, OwnersFile
    <3>4. RemovesTheDead'
      BY <1>0, <1>1, <2>1, <3>1 DEF LockShapes, RemovesTheDead
    <3> QED
      BY <3>3, <3>4
  <2> QED
    BY <2>2, <2>3 DEF IInv
<1>9. CASE Drop(p)
  <2>1. LockShapes' /\ NamesTheStarted'
    BY <1>0, <1>9 DEF Drop, LockShapes, NamesTheStarted
  <2>2. ASSUME ~hasty' PROVE OwnersFile' /\ RemovesTheDead'
    <3>1. file = Written(p) /\ OwnersFile /\ RemovesTheDead
      BY <1>0, <1>9, <2>2 DEF Drop, OwnersFile
    <3> QED
      BY <1>0, <1>9, <3>1 DEF Drop, LockShapes, OwnersFile, RemovesTheDead
  <2> QED
    BY <2>1, <2>2 DEF IInv
<1>10. CASE Unlink(p)
  <2>1. /\ file' = NoFile /\ step[p] = "unlink" /\ step' = [step EXCEPT ![p] = "gone"]
        /\ hasty' = (hasty \/ file.by \notin {Nobody, p})
        /\ UNCHANGED <<passes, named>>
    BY <1>10 DEF Unlink, RemoveName
  <2>2. LockShapes' /\ NamesTheStarted'
    BY <1>0, <1>1, <2>1 DEF LockShapes, NamesTheStarted
  <2>3. ASSUME ~hasty' PROVE OwnersFile' /\ RemovesTheDead'
    <3>1. file = Written(p) /\ OwnersFile /\ RemovesTheDead
      BY <1>0, <2>1, <2>3 DEF OwnersFile
    <3>2. OwnersFile'
      BY <1>0, <2>1, <3>1 DEF LockShapes, OwnersFile
    <3>3. RemovesTheDead'
      BY <1>0, <2>1, <3>1 DEF LockShapes, RemovesTheDead
    <3> QED
      BY <3>2, <3>3
  <2> QED
    BY <2>2, <2>3 DEF IInv
<1>11. CASE Crash(p)
  <2>1. file' = file \/ (step[p] = "write" /\ file = Claimed(p) /\ file' = Written(p))
    BY <1>11 DEF Crash, AfterWrite
  <2>2. /\ step' = [step EXCEPT ![p] = "gone"] /\ named' = [named EXCEPT ![p] = Nobody]
        /\ UNCHANGED <<passes, hasty>> /\ step[p] # "new"
    BY <1>11 DEF Crash
  <2>3. LockShapes' /\ NamesTheStarted'
    BY <1>0, <1>1, <2>1, <2>2 DEF LockShapes, NamesTheStarted
  <2>4. ~hasty' => OwnersFile'
    BY <1>0, <2>1, <2>2 DEF LockShapes, OwnersFile
  <2>5. ~hasty' => RemovesTheDead'
    BY <1>0, <1>1, <2>2 DEF LockShapes, RemovesTheDead
  <2> QED
    BY <2>3, <2>4, <2>5 DEF IInv
<1> QED
  BY <1>2, <1>3, <1>4, <1>5, <1>6, <1>7, <1>8, <1>9, <1>10, <1>11 DEF LockStep, Take

LEMMA Inductive == Spec => []IInv
<1>1. AuditInit => IInv
  BY InitIInv, LockAssumption
<1>2. IInv /\ [Next]_vars => IInv'
  BY LockAssumption, LockMoves, StutterIInv, StepIInv
<1> QED
  BY <1>1, <1>2, PTL DEF Spec

LEMMA IInvSuffices == LockAssumption /\ IInv => OneServerUnlessHasty /\ HolderIsNamed
BY DEF LockAssumption, IInv, OwnersFile, OneServerUnlessHasty, OneServer, HolderIsNamed,
       Holding, Written

\* Two servers are in one warehouse only after a process has removed a lock it had not
\* read, or taken for gone one that lives, however many start together, crash, leave
\* their locks behind, or are given each other's pids.  exclusive.rs, take and drop.
THEOREM OnlyOneServer == Spec => []OneServerUnlessHasty
<1>1. IInv => OneServerUnlessHasty
  BY IInvSuffices, LockAssumption
<1> QED
  BY <1>1, Inductive, PTL

\* Until then the lock a running server holds is there and names it.  exclusive.rs, take
\* and drop.
THEOREM LockNamesHolder == Spec => []HolderIsNamed
<1>1. IInv => HolderIsNamed
  BY IInvSuffices, LockAssumption
<1> QED
  BY <1>1, Inductive, PTL

-----------------------------------------------------------------------------
(* Reading the journal is a fold over its lines.  What it computes is      *)
(* proved by induction, stated over a set of naturals: every nonempty set  *)
(* of naturals has a least element, because < is well founded.             *)

LEMMA LeastElement ==
    ASSUME NEW S \in SUBSET Nat, S # {}
    PROVE  \E m \in S : \A n \in S : m <= n
<1> DEFINE Less == OpToRel(<, Nat)
<1>1. \A x, y \in Nat : x < y => <<x, y>> \in Less
  BY DEF OpToRel
<1>2. PICK m \in S : \A n \in S : ~ (<<n, m>> \in Less)
  <2>1. IsWellFoundedOn(Less, Nat)
    BY NatLessThanWellFounded
  <2> HIDE DEF Less
  <2> QED
    BY <2>1, WFMin
<1> HIDE DEF Less
<1>3. ASSUME NEW n \in S PROVE m <= n
  <2>1. ~ (n < m)
    BY <1>1, <1>2
  <2> QED
    BY <2>1
<1> QED
  BY <1>2, <1>3

LEMMA SetInduction ==
    ASSUME NEW S \in SUBSET Nat, 0 \in S, \A n \in S : n + 1 \in S
    PROVE  S = Nat
<1>1. ASSUME Nat \ S # {} PROVE FALSE
  <2>1. PICK m \in Nat \ S : \A n \in Nat \ S : m <= n
    BY <1>1, LeastElement
  <2>2. m # 0 /\ m - 1 \in Nat /\ ~ (m <= m - 1)
    BY <2>1
  <2>3. m - 1 \in S
    BY <2>1, <2>2
  <2>4. (m - 1) + 1 \in S
    BY <2>3
  <2> QED
    BY <2>1, <2>4
<1> QED
  BY <1>1

LEMMA MaxIsTop ==
    ASSUME NEW n \in Nat, NEW s \in SUBSET (1 .. n + 1), n + 1 \in s
    PROVE  Max(s) = n + 1
<1>1. \A x \in s : x \in Int /\ n + 1 >= x
  OBVIOUS
<1>2. ASSUME NEW x \in s, \A y \in s : x >= y PROVE x = n + 1
  BY <1>1, <1>2
<1>3. Max(s) \in s /\ \A y \in s : Max(s) >= y
  BY <1>1 DEF Max
<1> QED
  BY <1>2, <1>3

LEMMA MaxOfTwo ==
    ASSUME NEW a \in Int, NEW b \in Int
    PROVE  Max({a, b}) = IF a >= b THEN a ELSE b
BY DEF Max

LEMMA MinOfTwo ==
    ASSUME NEW a \in Int, NEW b \in Int
    PROVE  Min({a, b}) = IF a <= b THEN a ELSE b
BY DEF Min

\* What the fold computes on each set of the first n lines.
Unrolled(lines, n, g) ==
    [s \in SUBSET (1 .. n) |->
        IF s = {} THEN Empty ELSE TakeLine(g[s \ {Max(s)}], lines[Max(s)])]

LEMMA FoldIsUnrolled ==
    ASSUME NEW S, NEW lines \in Seq(S)
    PROVE  ReadWindowed(lines) =
             (CHOOSE g : g = Unrolled(lines, Len(lines), g))[1 .. Len(lines)]
<1>1. DOMAIN lines = 1 .. Len(lines)
  OBVIOUS
<1>2. ReadWindowed(lines) =
        (CHOOSE g : g = [s \in SUBSET DOMAIN lines |->
            IF s = {} THEN Empty ELSE TakeLine(g[s \ {Max(s)}], lines[Max(s)])])[DOMAIN lines]
  BY Zenon DEF ReadWindowed, FoldLeft, MapThenFoldSet
<1> QED
  BY <1>1, <1>2, Zenon DEF Unrolled

LEMMA UnrolledExists ==
    ASSUME NEW lines
    PROVE  \A n \in Nat : \E g : g = Unrolled(lines, n, g)
<1> DEFINE S == {n \in Nat : \E g : g = Unrolled(lines, n, g)}
<1>1. 0 \in S
  <2> DEFINE g == [s \in SUBSET (1 .. 0) |-> Empty]
  <2>1. \A s \in SUBSET (1 .. 0) : s = {}
    OBVIOUS
  <2>2. g = Unrolled(lines, 0, g)
    BY <2>1 DEF Unrolled
  <2> QED
    BY <2>2
<1>2. ASSUME NEW n \in S PROVE n + 1 \in S
  <2>1. PICK g : g = Unrolled(lines, n, g)
    OBVIOUS
  <2>2. n \in Nat
    OBVIOUS
  <2> DEFINE h == [s \in SUBSET (1 .. n + 1) |->
                     IF n + 1 \in s THEN TakeLine(g[s \ {n + 1}], lines[n + 1]) ELSE g[s]]
             u == Unrolled(lines, n + 1, h)
  <2>3. ASSUME NEW s \in SUBSET (1 .. n + 1) PROVE h[s] = u[s]
    <3>1. u[s] = IF s = {} THEN Empty ELSE TakeLine(h[s \ {Max(s)}], lines[Max(s)])
      BY Zenon DEF Unrolled
    <3>2. CASE n + 1 \in s
      <4>1. Max(s) = n + 1
        BY <2>2, <3>2, MaxIsTop
      <4>2. s \ {n + 1} \in SUBSET (1 .. n + 1) /\ n + 1 \notin s \ {n + 1}
        OBVIOUS
      <4>3. h[s \ {n + 1}] = g[s \ {n + 1}]
        BY <4>2
      <4>4. h[s] = TakeLine(g[s \ {n + 1}], lines[n + 1])
        BY <3>2
      <4> QED
        BY <3>1, <3>2, <4>1, <4>3, <4>4, Zenon
    <3>3. CASE n + 1 \notin s
      <4>1. s \in SUBSET (1 .. n) /\ h[s] = g[s]
        BY <2>2, <3>3
      <4>2. g[s] = IF s = {} THEN Empty ELSE TakeLine(g[s \ {Max(s)}], lines[Max(s)])
        BY <2>1, <4>1, Zenon DEF Unrolled
      <4>3. s \ {Max(s)} \in SUBSET (1 .. n + 1) /\ n + 1 \notin s \ {Max(s)}
        BY <3>3
      <4>4. h[s \ {Max(s)}] = g[s \ {Max(s)}]
        BY <4>3
      <4> QED
        BY <3>1, <4>1, <4>2, <4>4, Zenon
    <3> QED
      BY <3>2, <3>3
  <2>4. h = u
    <3>1. u = [s \in SUBSET (1 .. n + 1) |-> u[s]]
      BY Zenon DEF Unrolled
    <3>2. h = [s \in SUBSET (1 .. n + 1) |-> h[s]]
      BY Zenon
    <3> HIDE DEF h, u
    <3> QED
      BY <2>3, <3>1, <3>2
  <2>5. \E f : f = Unrolled(lines, n + 1, f)
    BY <2>4, Zenon
  <2> QED
    BY <2>2, <2>5
<1>3. S = Nat
  <2>1. S \in SUBSET Nat
    OBVIOUS
  <2> HIDE DEF S
  <2> QED
    BY <1>1, <1>2, <2>1, SetInduction
<1> QED
  BY <1>3

\* What has been read after each line.
LEMMA ReadLineByLine ==
    ASSUME NEW S, NEW lines \in Seq(S)
    PROVE  \E r : /\ r[0] = Empty
                  /\ \A i \in 1 .. Len(lines) : r[i] = TakeLine(r[i - 1], lines[i])
                  /\ ReadWindowed(lines) = r[Len(lines)]
<1> DEFINE n == Len(lines)
           g == CHOOSE g : g = Unrolled(lines, n, g)
           r == [i \in 0 .. n |-> g[1 .. i]]
<1>1. n \in Nat
  OBVIOUS
<1>2. g = Unrolled(lines, n, g)
  BY <1>1, UnrolledExists, Zenon
<1>3. ReadWindowed(lines) = r[n]
  BY <1>1, FoldIsUnrolled
<1> HIDE DEF g
<1>4. r[0] = Empty
  <2>1. 1 .. 0 = {} /\ {} \in SUBSET (1 .. n)
    OBVIOUS
  <2>2. g[{}] = Empty
    BY <1>2, <2>1, Zenon DEF Unrolled
  <2> QED
    BY <1>1, <2>1, <2>2
<1>5. ASSUME NEW i \in 1 .. n PROVE r[i] = TakeLine(r[i - 1], lines[i])
  <2>1. /\ i - 1 \in Nat /\ (i - 1) + 1 = i
        /\ 1 .. i \in SUBSET (1 .. n) /\ i \in 1 .. i
        /\ (1 .. i) \ {i} = 1 .. i - 1
        /\ i \in 0 .. n /\ i - 1 \in 0 .. n
    BY <1>1
  <2>2. Max(1 .. i) = i
    BY <2>1, MaxIsTop
  <2>3. g[1 .. i] = TakeLine(g[(1 .. i) \ {Max(1 .. i)}], lines[Max(1 .. i)])
    BY <1>2, <2>1, Zenon DEF Unrolled
  <2> QED
    BY <2>1, <2>2, <2>3
<1> QED
  BY <1>3, <1>4, <1>5

\* An invariant of the reading.
LEMMA ReadingInduction ==
    ASSUME NEW S, NEW lines \in Seq(S), NEW Good,
           <<0, Empty>> \in Good,
           \A i \in 1 .. Len(lines) : \A c :
               <<i - 1, c>> \in Good => <<i, TakeLine(c, lines[i])>> \in Good
    PROVE  <<Len(lines), ReadWindowed(lines)>> \in Good
<1>1. PICK r : /\ r[0] = Empty
               /\ \A i \in 1 .. Len(lines) : r[i] = TakeLine(r[i - 1], lines[i])
               /\ ReadWindowed(lines) = r[Len(lines)]
  BY ReadLineByLine
<1> DEFINE S0 == {k \in Nat : k <= Len(lines) => <<k, r[k]>> \in Good}
<1>2. 0 \in S0
  BY <1>1
<1>3. ASSUME NEW k \in S0 PROVE k + 1 \in S0
  <2>1. CASE k + 1 <= Len(lines)
    <3>1. k + 1 \in 1 .. Len(lines) /\ (k + 1) - 1 = k /\ <<k, r[k]>> \in Good
      BY <2>1
    <3> QED
      BY <1>1, <3>1
  <2>2. CASE ~ (k + 1 <= Len(lines))
    BY <2>2
  <2> QED
    BY <2>1, <2>2
<1>4. S0 = Nat
  <2>1. S0 \in SUBSET Nat
    OBVIOUS
  <2> HIDE DEF S0
  <2> QED
    BY <1>2, <1>3, <2>1, SetInduction
<1>5. Len(lines) \in S0
  BY <1>4
<1> QED
  BY <1>1, <1>5

-----------------------------------------------------------------------------
(* Types. *)

ChainShapes ==
    [total : Nat, head : {Genesis} \cup Entries, records : Seq(Records), open : BOOLEAN]

Chains == {c \in ChainShapes : Len(c.records) = Min({Window, c.total})}

AuditTyped ==
    /\ journal \in Seq(Records \cup {Junk})
    /\ ended \in BOOLEAN
    /\ chain \in [Processes -> Chains \cup {NotResumed}]
    /\ made \in 0 .. MaxEntries
    /\ durable \cup unwritten \cup lost \cup doubtful \subseteq 1 .. made
    /\ misread \in SUBSET Processes

LEMMA JunkIsNoRecord == Junk \notin Records
BY DEF Junk, Records

LEMMA NotResumedIsNoChain == NotResumed \notin Chains
BY DEF NotResumed, Empty, Chains, ChainShapes

\* A chain is never short of the record it has just taken.
LEMMA AppendRawTyped ==
    ASSUME NEW c \in Chains, NEW r \in Records
    PROVE  LET d == AppendRaw(c, r)
           IN  /\ d \in Chains /\ HasRecord(d) /\ Last(d.records) = r
               /\ d.total = c.total + 1 /\ d.head = r.entry /\ d.open = c.open
<1> DEFINE longer == Append(c.records, r)
           from   == Max({1, Len(longer) - Window + 1})
           kept   == Kept(longer)
           d      == AppendRaw(c, r)
<1>1. Window \in Nat /\ Window >= 1
  BY AuditAssumption
<1>2. /\ c.total \in Nat /\ c.records \in Seq(Records) /\ c.open \in BOOLEAN
      /\ Len(c.records) = IF Window <= c.total THEN Window ELSE c.total
      /\ c = [total |-> c.total, head |-> c.head, records |-> c.records, open |-> c.open]
  BY <1>1, MinOfTwo DEF Chains, ChainShapes
<1>3. /\ longer \in Seq(Records) /\ Len(longer) = Len(c.records) + 1
      /\ longer[Len(longer)] = r
  BY <1>2
<1>4. from = IF Window <= c.total THEN 2 ELSE 1
  <2>1. from = IF 1 >= Len(longer) - Window + 1 THEN 1 ELSE Len(longer) - Window + 1
    BY <1>1, <1>3, MaxOfTwo
  <2> HIDE DEF longer, from
  <2> QED
    BY <1>1, <1>2, <1>3, <2>1
<1>5. kept = SubSeq(longer, from, Len(longer))
  BY DEF Kept
<1> HIDE DEF longer, from, kept
<1>6. /\ kept \in Seq(Records) /\ Len(kept) = Len(longer) - from + 1
      /\ kept[Len(kept)] = longer[Len(longer)] /\ Len(kept) >= 1
  BY <1>1, <1>2, <1>3, <1>4, <1>5
<1>7. Len(kept) = Min({Window, c.total + 1})
  <2>1. Len(kept) = IF Window <= c.total + 1 THEN Window ELSE c.total + 1
    BY <1>1, <1>2, <1>3, <1>4, <1>6
  <2> QED
    BY <1>1, <1>2, <2>1, MinOfTwo
<1>8. /\ d.head = r.entry /\ d.total = c.total + 1 /\ d.records = kept /\ d.open = c.open
      /\ d = [total |-> c.total + 1, head |-> r.entry, records |-> kept, open |-> c.open]
  <2>1. d = [c EXCEPT !.head = r.entry, !.total = c.total + 1, !.records = kept]
    BY Zenon DEF AppendRaw, kept, longer
  <2> HIDE DEF d
  <2> QED
    BY <1>2, <2>1
<1>9. r.entry \in Entries
  BY DEF Records
<1>10. d \in Chains
  <2> HIDE DEF d
  <2>1. d \in ChainShapes
    BY <1>2, <1>6, <1>8, <1>9 DEF ChainShapes
  <2>2. Len(d.records) = Min({Window, d.total})
    BY <1>7, <1>8
  <2> QED
    BY <2>1, <2>2 DEF Chains
<1>11. d.records # <<>> /\ Last(d.records) = r
  BY <1>3, <1>6, <1>8 DEF Last
<1> QED
  BY <1>8, <1>10, <1>11 DEF HasRecord

LEMMA EmptyTyped == Empty \in Chains
<1>1. Min({Window, 0}) = 0
  BY AuditAssumption, MinOfTwo
<1>2. Empty \in ChainShapes
  BY DEF Empty, ChainShapes
<1>3. Len(Empty.records) = 0 /\ Empty.total = 0
  BY DEF Empty
<1> QED
  BY <1>1, <1>2, <1>3 DEF Chains

LEMMA NewRecordTyped ==
    ASSUME NEW c \in Chains, NEW entry \in Entries
    PROVE  /\ NewRecord(c, entry) \in Records
           /\ NewRecord(c, entry).entry = entry
BY DEF NewRecord, Records, Chains, ChainShapes

LEMMA WithEntryTyped ==
    ASSUME NEW c \in Chains, NEW entry \in Entries
    PROVE  LET d == WithEntry(c, entry)
           IN  /\ d \in Chains /\ HasRecord(d) /\ Last(d.records) = NewRecord(c, entry)
               /\ d.total = c.total + 1 /\ d.head = entry /\ d.open = c.open
<1> DEFINE r == NewRecord(c, entry)
<1>1. r \in Records /\ r.entry = entry
  BY NewRecordTyped
<1>2. WithEntry(c, entry) = AppendRaw(c, r)
  BY DEF WithEntry
<1> HIDE DEF r
<1>3. LET d == AppendRaw(c, r)
      IN  /\ d \in Chains /\ HasRecord(d) /\ Last(d.records) = r
          /\ d.total = c.total + 1 /\ d.head = entry /\ d.open = c.open
  BY <1>1, AppendRawTyped
<1> QED
  BY <1>2, <1>3, Zenon DEF r

\* Whatever the lines are, what is read from them is a chain.
LEMMA ReadTyped ==
    ASSUME NEW lines \in Seq(Records \cup {Junk})
    PROVE  ReadWindowed(lines) \in Chains
<1> DEFINE Good == Nat \X Chains
<1>1. <<0, Empty>> \in Good
  BY EmptyTyped
<1>2. ASSUME NEW i \in 1 .. Len(lines), NEW c, <<i - 1, c>> \in Good
      PROVE  <<i, TakeLine(c, lines[i])>> \in Good
  <2>1. c \in Chains /\ lines[i] \in Records \cup {Junk} /\ i \in Nat
    BY <1>2
  <2>2. TakeLine(c, lines[i]) \in Chains
    BY <2>1, AppendRawTyped DEF TakeLine, IsRecord
  <2> QED
    BY <2>1, <2>2
<1>3. <<Len(lines), ReadWindowed(lines)>> \in Good
  <2> HIDE DEF Good
  <2> QED
    BY <1>1, <1>2, ReadingInduction
<1> QED
  BY <1>3

\* A journal that is whole is read as the chain that wrote it.
Rec(i) == [sequence |-> i - 1, entry |-> i, previous |-> i - 1]

LEMMA ReadWhole ==
    ASSUME NEW lines \in Seq(Records \cup {Junk}),
           \A i \in 1 .. Len(lines) : lines[i] = Rec(i)
    PROVE  /\ ReadWindowed(lines).total = Len(lines)
           /\ ReadWindowed(lines).head = Len(lines)
<1> DEFINE Good == {x \in Nat \X Chains : x[2].total = x[1] /\ x[2].head = x[1]}
<1>1. <<0, Empty>> \in Good
  <2>1. Empty.total = 0 /\ Empty.head = 0
    BY DEF Empty, Genesis
  <2> QED
    BY <2>1, EmptyTyped
<1>2. ASSUME NEW i \in 1 .. Len(lines), NEW c, <<i - 1, c>> \in Good
      PROVE  <<i, TakeLine(c, lines[i])>> \in Good
  <2>1. c \in Chains /\ c.total = i - 1 /\ i \in Nat /\ lines[i] = Rec(i)
    BY <1>2
  <2>2. lines[i] # Junk /\ lines[i] \in Records /\ lines[i].entry = i
    <3>1. Rec(i).sequence # Junk.sequence /\ Rec(i).entry = i
      BY <2>1 DEF Rec, Junk
    <3>2. lines[i] \in Records \cup {Junk}
      OBVIOUS
    <3> QED
      BY <2>1, <3>1, <3>2
  <2>3. TakeLine(c, lines[i]) = AppendRaw(c, lines[i])
    BY <2>2 DEF TakeLine, IsRecord
  <2>4. /\ TakeLine(c, lines[i]) \in Chains
        /\ TakeLine(c, lines[i]).total = i /\ TakeLine(c, lines[i]).head = i
    BY <2>1, <2>2, <2>3, AppendRawTyped
  <2> QED
    BY <2>1, <2>4
<1>3. <<Len(lines), ReadWindowed(lines)>> \in Good
  <2> HIDE DEF Good
  <2> QED
    BY <1>1, <1>2, ReadingInduction
<1> QED
  BY <1>3

-----------------------------------------------------------------------------
(* What is written goes after what is there. *)

LEMMA ContinuedTyped ==
    ASSUME journal \in Seq(Records \cup {Junk}), NEW line \in Records \cup {Junk}
    PROVE  /\ Continued(line) \in Seq(Records \cup {Junk})
           /\ ended => /\ Len(Continued(line)) = Len(journal) + 1
                       /\ Continued(line)[Len(journal) + 1] = line
                       /\ \A i \in 1 .. Len(journal) : Continued(line)[i] = journal[i]
           /\ ~ended => /\ Len(Continued(line)) = Len(journal)
                        /\ \A i \in 1 .. Len(journal) - 1 : Continued(line)[i] = journal[i]
<1>1. CASE ended
  <2>1. Continued(line) = Append(journal, line)
    BY <1>1 DEF Continued
  <2> QED
    BY <1>1, <2>1
<1>2. CASE ~ended
  <2>1. Continued(line) = [journal EXCEPT ![Len(journal)] = Junk]
    BY <1>2 DEF Continued, ReplaceAt
  <2>2. Continued(line) \in Seq(Records \cup {Junk}) /\ Len(Continued(line)) = Len(journal)
    <3>1. journal \in [1 .. Len(journal) -> Records \cup {Junk}] /\ Len(journal) \in Nat
      OBVIOUS
    <3>2. Continued(line) \in [1 .. Len(journal) -> Records \cup {Junk}]
      BY <2>1, <3>1
    <3> QED
      BY <3>1, <3>2
  <2>3. \A i \in 1 .. Len(journal) - 1 : Continued(line)[i] = journal[i]
    BY <2>1
  <2> QED
    BY <1>2, <2>2, <2>3
<1> QED
  BY <1>1, <1>2

\* An append adds to the journal, in whole or in part; a line that is left without
\* its newline is the last.
LEMMA WritesAdd ==
    ASSUME journal \in Seq(Records \cup {Junk}), ended \in BOOLEAN, NEW r \in Records,
           WriteWhole(r) \/ WriteInPart(r)
    PROVE  /\ journal' \in Seq(Records \cup {Junk}) /\ ended' \in BOOLEAN
           /\ Len(journal') >= Len(journal)
           /\ \A i \in 1 .. Len(journal) : ended \/ i < Len(journal) => journal'[i] = journal[i]
           /\ ~ended' => ~ended \/ Len(journal') = Len(journal) + 1
<1>1. journal' \in {journal, Continued(r), Continued(Junk)}
  BY DEF WriteWhole, WriteInPart
<1>2. Len(journal) \in Nat /\ r \in Records \cup {Junk} /\ Junk \in Records \cup {Junk}
  OBVIOUS
<1>3. journal' \in Seq(Records \cup {Junk}) /\ Len(journal') >= Len(journal)
  BY <1>1, <1>2, ContinuedTyped
<1>4. \A i \in 1 .. Len(journal) : ended \/ i < Len(journal) => journal'[i] = journal[i]
  BY <1>1, <1>2, ContinuedTyped
<1>5. ended' \in BOOLEAN /\ (~ended' => ~ended \/ Len(journal') = Len(journal) + 1)
  BY <1>2, ContinuedTyped DEF WriteWhole, WriteInPart
<1> QED
  BY <1>3, <1>4, <1>5

-----------------------------------------------------------------------------
(* Types, and that no entry goes missing in silence. *)

Accounted == 1 .. made = durable \cup unwritten \cup lost

LEMMA InitTyped == AuditInit => AuditTyped /\ Accounted
<1> SUFFICES ASSUME AuditInit PROVE AuditTyped /\ Accounted
  OBVIOUS
<1>1. MaxEntries \in Nat /\ 1 .. 0 = {}
  BY AuditAssumption
<1> QED
  BY <1>1 DEF AuditInit, AuditTyped, Accounted

\* The chain and the counter of entries, in the three actions that make one.
LEMMA MakeTyped ==
    ASSUME AuditTyped, NEW p \in Processes, Serving(p), made < MaxEntries, made' = made + 1
    PROVE  LET d == WithEntry(chain[p], made')
           IN  /\ chain[p] \in Chains
               /\ made' \in Entries /\ made' \in 0 .. MaxEntries
               /\ 1 .. made' = 1 .. made \cup {made'} /\ made' \notin 1 .. made
               /\ d \in Chains /\ HasRecord(d) /\ Last(d.records) = NewRecord(chain[p], made')
               /\ Last(d.records) \in Records
               /\ d.total = chain[p].total + 1 /\ d.head = made' /\ d.open = chain[p].open
<1>1. made \in Nat /\ MaxEntries \in Nat
  BY AuditAssumption DEF AuditTyped
<1>2. /\ made' \in Entries /\ made' \in 0 .. MaxEntries
      /\ 1 .. made' = 1 .. made \cup {made'} /\ made' \notin 1 .. made
  BY <1>1 DEF Entries
<1>3. chain[p] \in Chains
  BY DEF AuditTyped, Serving
<1>4. NewRecord(chain[p], made') \in Records
  BY <1>2, <1>3, NewRecordTyped
<1> QED
  BY <1>2, <1>3, <1>4, WithEntryTyped

\* Doubt comes with the first entry that gives cause for it.
LEMMA MakeDoubts ==
    ASSUME AuditTyped, NEW p \in Processes, Make(p)
    PROVE  /\ Serving(p) /\ made < MaxEntries /\ made' = made + 1
           /\ doubtful' \in {doubtful, {made'}} /\ (doubtful # {} => doubtful' = doubtful)
           /\ doubtful' \subseteq 1 .. made' /\ (doubtful' = {} => Alone(p))
<1>1. made \in Nat /\ doubtful \subseteq 1 .. made
  BY DEF AuditTyped
<1>2. Serving(p) /\ made < MaxEntries /\ made' = made + 1
  BY DEF Make
<1>3. doubtful' = IF Alone(p) \/ doubtful # {} THEN doubtful ELSE {made'}
  BY DEF Make
<1>4. made' \in 1 .. made' /\ 1 .. made \subseteq 1 .. made'
  BY <1>1, <1>2
<1> QED
  BY <1>1, <1>2, <1>3, <1>4

\* A reading that fails is one of lines and junk.
LEMMA MisreadTyped ==
    ASSUME NEW lines \in Seq(Records \cup {Junk}), NEW part \in Misread(lines)
    PROVE  part \in Seq(Records \cup {Junk})
<1>1. CASE part = <<>>
  BY <1>1
<1>2. ASSUME NEW i \in 1 .. Len(lines), part = ReplaceAt(lines, i, Junk)
      PROVE  part \in Seq(Records \cup {Junk})
  <2>1. part = [lines EXCEPT ![i] = Junk]
    BY <1>2 DEF ReplaceAt
  <2>2. lines \in [1 .. Len(lines) -> Records \cup {Junk}] /\ Len(lines) \in Nat
    OBVIOUS
  <2>3. part \in [1 .. Len(lines) -> Records \cup {Junk}]
    BY <2>1, <2>2
  <2> QED
    BY <2>2, <2>3
<1> QED
  BY <1>1, <1>2 DEF Misread

\* What a server resumes from is read of the journal, or of a part of it.
LEMMA ResumesTyped ==
    ASSUME AuditTyped, NEW p \in Processes, NEW lines \in Seq(Records \cup {Junk}),
           NEW open \in BOOLEAN, Resumes(p, lines, open)
    PROVE  /\ Holding(p) /\ UNCHANGED <<claims, journal, ended, entries>>
           /\ chain' \in [Processes -> Chains \cup {NotResumed}]
           /\ chain'[p].total = ReadWindowed(lines).total
           /\ chain'[p].head = ReadWindowed(lines).head
           /\ \A q \in Processes : q # p => chain'[q] = chain[q]
<1> DEFINE c == ReadWindowed(lines)
           d == [c EXCEPT !.open = open]
<1>1. c \in Chains
  BY ReadTyped
<1>2. chain' = [chain EXCEPT ![p] = d]
  BY DEF Resumes
<1>3. /\ d \in ChainShapes /\ d.records = c.records /\ d.total = c.total /\ d.head = c.head
  <2> HIDE DEF c
  <2> QED
    BY <1>1 DEF Chains, ChainShapes
<1>4. d \in Chains
  <2> HIDE DEF d
  <2> QED
    BY <1>1, <1>3 DEF Chains
<1> HIDE DEF d
<1>5. /\ chain' \in [Processes -> Chains \cup {NotResumed}] /\ chain'[p] = d
      /\ \A q \in Processes : q # p => chain'[q] = chain[q]
  BY <1>2, <1>4 DEF AuditTyped
<1>6. Holding(p) /\ UNCHANGED <<claims, journal, ended, entries>>
  BY DEF Resumes
<1> QED
  BY <1>3, <1>5, <1>6

\* The three ways to resume.
LEMMA ResumeWays ==
    ASSUME AuditTyped, NEW p \in Processes,
           Resume(p) \/ ResumeInMemory(p) \/ ResumeMisread(p)
    PROVE  /\ \E lines \in Seq(Records \cup {Junk}), open \in BOOLEAN :
                 Resumes(p, lines, open) /\ (lines = journal \/ misread' = misread \cup {p})
           /\ misread' \in {misread, misread \cup {p}}
<1>1. journal \in Seq(Records \cup {Junk})
  BY DEF AuditTyped
<1>2. CASE Resume(p)
  BY <1>1, <1>2 DEF Resume
<1>3. CASE ResumeInMemory(p)
  BY <1>1, <1>3 DEF ResumeInMemory
<1>4. CASE ResumeMisread(p)
  <2>1. PICK lines \in Misread(journal) \ {journal} : Resumes(p, lines, TRUE)
    BY <1>4 DEF ResumeMisread
  <2>2. lines \in Seq(Records \cup {Junk}) /\ misread' = misread \cup {p}
    BY <1>1, <1>4, <2>1, MisreadTyped DEF ResumeMisread
  <2> QED
    BY <2>1, <2>2
<1> QED
  BY <1>2, <1>3, <1>4

LEMMA StepTyped ==
    ASSUME AuditTyped, Accounted, [Next]_vars
    PROVE  AuditTyped' /\ Accounted'
<1> DEFINE Lines == Records \cup {Junk}
<1>1. ASSUME NEW p \in Processes, Lock(p) PROVE AuditTyped' /\ Accounted'
  <2>1. /\ UNCHANGED <<journal, ended, entries>> /\ misread' = misread \ {p}
        /\ chain' \in [Processes -> Chains \cup {NotResumed}]
    BY <1>1 DEF Lock, AuditTyped
  <2> QED
    BY <2>1 DEF entries, AuditTyped, Accounted
<1>2. ASSUME NEW p \in Processes, Resume(p) \/ ResumeInMemory(p) \/ ResumeMisread(p)
      PROVE  AuditTyped' /\ Accounted'
  <2>1. /\ chain' \in [Processes -> Chains \cup {NotResumed}]
        /\ UNCHANGED <<journal, ended, entries>> /\ misread' \in {misread, misread \cup {p}}
    BY <1>2, ResumeWays, ResumesTyped
  <2> QED
    BY <2>1 DEF entries, AuditTyped, Accounted
<1>3. ASSUME NEW p \in Processes, Answer(p) PROVE AuditTyped' /\ Accounted'
  <2> DEFINE d == WithEntry(chain[p], made')
  <2>1. /\ Serving(p) /\ made < MaxEntries /\ made' = made + 1
        /\ chain' = [chain EXCEPT ![p] = d] /\ doubtful' \subseteq 1 .. made'
        /\ UNCHANGED <<lost, misread>>
    BY <1>3, MakeDoubts DEF Answer
  <2>2. /\ made' \in 0 .. MaxEntries /\ 1 .. made' = 1 .. made \cup {made'}
        /\ d \in Chains /\ HasRecord(d) /\ Last(d.records) \in Records
        /\ d.open = chain[p].open /\ chain[p] \in Chains
    BY <2>1, MakeTyped
  <2> HIDE DEF d
  <2>3. chain' \in [Processes -> Chains \cup {NotResumed}] /\ chain'[p] = d
    BY <2>1, <2>2 DEF AuditTyped
  <2>4. CASE chain[p].open
    <3>1. /\ WriteWhole(Last(d.records)) /\ durable' = durable \cup {made'}
          /\ unwritten' = unwritten
      BY <1>3, <2>2, <2>3, <2>4 DEF Answer
    <3>2. journal' \in Seq(Lines) /\ ended' \in BOOLEAN
      BY <2>2, <3>1, WritesAdd DEF AuditTyped
    <3> QED
      BY <2>1, <2>2, <2>3, <3>1, <3>2 DEF AuditTyped, Accounted
  <2>5. CASE ~chain[p].open
    <3>1. /\ UNCHANGED <<journal, ended, durable>>
          /\ unwritten' = unwritten \cup {made'}
      BY <1>3, <2>2, <2>3, <2>5 DEF Answer
    <3> QED
      BY <2>1, <2>2, <2>3, <3>1 DEF AuditTyped, Accounted
  <2> QED
    BY <2>4, <2>5
<1>4. ASSUME NEW p \in Processes, AnswerUnwritten(p) PROVE AuditTyped' /\ Accounted'
  <2> DEFINE d == WithEntry(chain[p], made')
  <2>1. /\ Serving(p) /\ made < MaxEntries /\ made' = made + 1
        /\ chain' = [chain EXCEPT ![p] = d] /\ doubtful' \subseteq 1 .. made'
        /\ unwritten' = unwritten \cup {made'}
        /\ UNCHANGED <<durable, lost, misread>>
        /\ WriteInPart(Last(chain'[p].records))
    BY <1>4, MakeDoubts DEF AnswerUnwritten
  <2>2. /\ made' \in 0 .. MaxEntries /\ 1 .. made' = 1 .. made \cup {made'}
        /\ d \in Chains /\ Last(d.records) \in Records
    BY <2>1, MakeTyped
  <2> HIDE DEF d
  <2>3. chain' \in [Processes -> Chains \cup {NotResumed}] /\ chain'[p] = d
    BY <2>1, <2>2 DEF AuditTyped
  <2>4. journal' \in Seq(Lines) /\ ended' \in BOOLEAN
    BY <2>1, <2>2, <2>3, WritesAdd DEF AuditTyped
  <2> QED
    BY <2>1, <2>2, <2>3, <2>4 DEF AuditTyped, Accounted
<1>5. ASSUME NEW p \in Processes, StopAnswering(p) PROVE AuditTyped' /\ Accounted'
  <2> DEFINE d == WithEntry(chain[p], made')
  <2>1. /\ Serving(p) /\ made < MaxEntries /\ made' = made + 1
        /\ chain' = [chain EXCEPT ![p] = NotResumed] /\ doubtful' \subseteq 1 .. made'
        /\ lost' = lost \cup {made'} /\ misread' = misread \ {p}
        /\ UNCHANGED <<durable, unwritten>>
        /\ WriteInPart(Last(d.records))
    BY <1>5, MakeDoubts DEF StopAnswering
  <2>2. /\ made' \in 0 .. MaxEntries /\ 1 .. made' = 1 .. made \cup {made'}
        /\ Last(d.records) \in Records
    BY <2>1, MakeTyped
  <2> HIDE DEF d
  <2>3. chain' \in [Processes -> Chains \cup {NotResumed}]
    BY <2>1 DEF AuditTyped
  <2>4. journal' \in Seq(Lines) /\ ended' \in BOOLEAN
    BY <2>1, <2>2, WritesAdd DEF AuditTyped
  <2> QED
    BY <2>1, <2>2, <2>3, <2>4 DEF AuditTyped, Accounted
<1>6. ASSUME UNCHANGED vars PROVE AuditTyped' /\ Accounted'
  BY <1>6 DEF vars, auditVars, entries, AuditTyped, Accounted
<1> QED
  BY <1>1, <1>2, <1>3, <1>4, <1>5, <1>6 DEF Next

LEMMA TypedAlways == Spec => [](AuditTyped /\ Accounted)
BY InitTyped, StepTyped, PTL DEF Spec

LEMMA LockTypes == Spec => []LockTypeOK
<1>1. AuditInit => LockTypeOK
  <2> SUFFICES ASSUME LockInit PROVE LockTypeOK
    BY DEF AuditInit
  <2>1. failures \in 0 .. MaxFailures
    BY LockAssumption DEF LockAssumption, LockInit
  <2>2. step \in [Processes -> Steps] /\ passes \in [Processes -> 0 .. 3]
    BY DEF LockInit, Steps
  <2>3. /\ named \in [Processes -> Processes \cup {Nobody}]
        /\ file \in [by : Processes \cup {Nobody}, whole : BOOLEAN]
    BY DEF LockInit, NoFile
  <2>4. crashed \in SUBSET Processes /\ hasty \in BOOLEAN
    BY DEF LockInit
  <2> QED
    BY <2>1, <2>2, <2>3, <2>4 DEF LockTypeOK
<1>2. ASSUME LockTypeOK, NEW p \in Processes, LockStep(p) PROVE LockTypeOK'
  <2> USE DEF LockStep, Start, Take, Create, Write, Read, Judge, JudgeBlindly, RemoveStale,
              Drop, Unlink, Crash, Forgets, RemoveName
  <2>1. PICK where \in Steps : Goto(p, where)
    <3>1. \E where : where \in Steps /\ Goto(p, where)
      <4>1. \A where \in {"create", "write", "read", "judge", "remove", "holding", "unlink", "gone"} :
              where \in Steps
        BY DEF Steps
      <4> QED
        BY <1>2, <4>1
    <3> QED
      BY <3>1
  <2>2. step' \in [Processes -> Steps]
    BY <1>2, <2>1 DEF Goto, LockTypeOK
  <2>3. file' \in {file, NoFile, Claimed(p), Written(p)}
    BY <1>2 DEF AfterWrite
  <2>4. file' \in [by : Processes \cup {Nobody}, whole : BOOLEAN]
    <3>1. /\ NoFile \in [by : Processes \cup {Nobody}, whole : BOOLEAN]
          /\ Claimed(p) \in [by : Processes \cup {Nobody}, whole : BOOLEAN]
          /\ Written(p) \in [by : Processes \cup {Nobody}, whole : BOOLEAN]
      BY DEF NoFile, Claimed, Written
    <3>2. file \in [by : Processes \cup {Nobody}, whole : BOOLEAN]
      BY <1>2 DEF LockTypeOK
    <3> QED
      BY <2>3, <3>1, <3>2
  <2>5. passes' \in [Processes -> 0 .. 3]
    <3>1. passes[p] \in 0 .. 3 /\ (passes[p] < 3 => passes[p] + 1 \in 0 .. 3) /\ 1 \in 0 .. 3
      BY <1>2 DEF LockTypeOK
    <3>2. \/ UNCHANGED passes \/ passes' = [passes EXCEPT ![p] = 1]
          \/ passes[p] < 3 /\ passes' = [passes EXCEPT ![p] = passes[p] + 1]
      BY <1>2
    <3> QED
      BY <1>2, <3>1, <3>2 DEF LockTypeOK
  <2>6. crashed' \in SUBSET Processes
    <3>1. crashed' \in {crashed, crashed \cup {p}}
      BY <1>2
    <3> QED
      BY <1>2, <3>1 DEF LockTypeOK
  <2>7. named' \in [Processes -> Processes \cup {Nobody}]
    <3>1. \/ UNCHANGED named \/ named' = [named EXCEPT ![p] = Nobody]
          \/ named' = [named EXCEPT ![p] = file.by]
      BY <1>2
    <3> QED
      BY <1>2, <3>1 DEF LockTypeOK
  <2>8. failures' \in 0 .. MaxFailures
    <3>1. CountsFailures
      BY <1>2 DEF CountsFailures
    <3> QED
      BY <1>2, <3>1, LockAssumption DEF LockAssumption, LockTypeOK, CountsFailures
  <2>9. hasty' \in BOOLEAN
    BY <1>2 DEF LockTypeOK
  <2> QED
    BY <2>2, <2>4, <2>5, <2>6, <2>7, <2>8, <2>9 DEF LockTypeOK
<1>3. ASSUME LockTypeOK, UNCHANGED claims, CountsFailures PROVE LockTypeOK'
  <2>1. failures' \in 0 .. MaxFailures
    BY <1>3, LockAssumption DEF LockAssumption, LockTypeOK, CountsFailures
  <2> QED
    BY <1>3, <2>1 DEF LockTypeOK, claims
<1>4. LockTypeOK /\ [Next]_vars => LockTypeOK'
  BY <1>2, <1>3, LockMoves
<1> QED
  BY <1>1, <1>4, PTL DEF Spec

\* The lock, the journal and the chains keep their types, for any processes, windows,
\* entries and failures.
THEOREM TypesHold == Spec => []TypeOK
<1>1. AuditTyped /\ LockTypeOK => TypeOK
  <2> SUFFICES ASSUME AuditTyped, LockTypeOK PROVE TypeOK
    OBVIOUS
  <2>1. ASSUME NEW p \in Processes, chain[p] # NotResumed
        PROVE  /\ chain[p].total \in Nat
               /\ chain[p].head \in {Genesis} \cup Entries
               /\ chain[p].records \in Seq(Records)
               /\ Len(chain[p].records) = Min({Window, chain[p].total})
               /\ chain[p].open \in BOOLEAN
    BY <2>1 DEF AuditTyped, Chains, ChainShapes
  <2> QED
    BY <2>1 DEF AuditTyped, TypeOK
<1> QED
  BY <1>1, TypedAlways, LockTypes, PTL

\* The audit never stops in silence: what an append did not bring into the journal was
\* reported, or its process stopped.  audit.rs, AuditLog::record.
THEOREM NothingMissing == Spec => []NothingSilent
<1>1. Accounted => NothingSilent
  BY DEF Accounted, NothingSilent
<1> QED
  BY <1>1, TypedAlways, PTL

-----------------------------------------------------------------------------
(* Up to the first entry that was not appended, or not by a server that    *)
(* is alone and has read the journal, the journal is the audit.            *)

Holes == unwritten \cup lost \cup doubtful

\* No entry up to this one is missing.
Intact(i) == \A j \in 1 .. i : j \notin Holes

\* What is in memory goes with the lock.
ChainOfHolder == \A p \in Processes : chain[p] # NotResumed => Holding(p)

\* A line is left open only after a hole, and as long as there is none the chain in
\* memory ends where the journal does.
JournalSound ==
    /\ \A i \in 1 .. made : Intact(i) => i <= Len(journal) /\ journal[i] = Rec(i)
    /\ ~ended => \E k \in Holes : k <= Len(journal)
    /\ Holes = {} =>
          /\ Len(journal) = made
          /\ \A p \in Processes :
                chain[p] # NotResumed /\ p \notin misread
                => chain[p].total = made /\ chain[p].head = made

LEMMA InitSound == AuditInit => ChainOfHolder /\ JournalSound
<1> SUFFICES ASSUME AuditInit PROVE ChainOfHolder /\ JournalSound
  OBVIOUS
<1>1. /\ journal = <<>> /\ ended = TRUE /\ made = 0 /\ 1 .. 0 = {} /\ Len(<<>>) = 0
      /\ \A p \in Processes : chain[p] = NotResumed
  BY DEF AuditInit
<1> QED
  BY <1>1 DEF ChainOfHolder, JournalSound

LEMMA LockStepLocal ==
    ASSUME NEW p \in Processes, LockStep(p), LockShapes, NEW q \in Processes, q # p
    PROVE  step'[q] = step[q]
BY DEF LockStep, Take, Start, Create, Write, Read, Judge, JudgeBlindly, RemoveStale, Drop, Unlink,
       Crash, Goto, LockShapes

LEMMA StepHolder ==
    ASSUME LockShapes, AuditTyped, ChainOfHolder, [Next]_vars
    PROVE  ChainOfHolder'
<1>1. ASSUME NEW p \in Processes, Lock(p) PROVE ChainOfHolder'
  <2>1. ASSUME NEW q \in Processes, chain'[q] # NotResumed
        PROVE  q # p /\ chain[q] # NotResumed
    BY <1>1, <2>1 DEF Lock, ChainOfHolder, AuditTyped
  <2>2. \A q \in Processes : q # p => step'[q] = step[q]
    BY <1>1, LockStepLocal DEF Lock
  <2> QED
    BY <2>1, <2>2 DEF ChainOfHolder, Holding
<1>2. ASSUME NEW p \in Processes, UNCHANGED step, Holding(p),
             \A q \in Processes : q # p => chain'[q] = chain[q]
      PROVE  ChainOfHolder'
  BY <1>2 DEF ChainOfHolder, Holding
<1>5. ASSUME NEW p \in Processes, Resume(p) \/ ResumeInMemory(p) \/ ResumeMisread(p)
      PROVE  ChainOfHolder'
  BY <1>2, <1>5, ResumeWays, ResumesTyped DEF claims
<1>6. ASSUME NEW p \in Processes, Answer(p) \/ AnswerUnwritten(p)
      PROVE  ChainOfHolder'
  BY <1>2, <1>6 DEF Answer, AnswerUnwritten, Make, Serving, lockVars, claims, AuditTyped
<1>3. ASSUME NEW p \in Processes, StopAnswering(p) PROVE ChainOfHolder'
  <2>1. /\ chain'[p] = NotResumed
        /\ \A q \in Processes : q # p => chain'[q] = chain[q]
    BY <1>3 DEF StopAnswering, AuditTyped
  <2>2. \A q \in Processes : q # p => step'[q] = step[q]
    BY <1>3, LockStepLocal DEF StopAnswering, LockStep
  <2> QED
    BY <2>1, <2>2 DEF ChainOfHolder, Holding
<1>4. ASSUME UNCHANGED vars PROVE ChainOfHolder'
  BY <1>4 DEF vars, lockVars, claims, auditVars, ChainOfHolder, Holding
<1> QED
  BY <1>1, <1>3, <1>4, <1>5, <1>6 DEF Next

\* Once there is a hole, nothing that is written later changes what is before it.
LEMMA AfterAHole ==
    ASSUME AuditTyped, JournalSound, Holes # {}, made' = made + 1,
           Holes' \in {Holes, Holes \cup {made'}},
           \/ UNCHANGED <<journal, ended>>
           \/ \E r \in Records : WriteWhole(r) \/ WriteInPart(r)
    PROVE  JournalSound'
<1>1. made \in Nat /\ Holes \subseteq 1 .. made /\ Holes \subseteq Nat
  BY DEF AuditTyped, Holes
<1>2. /\ Len(journal) \in Nat /\ Len(journal') \in Nat /\ Len(journal') >= Len(journal)
      /\ \A i \in 1 .. Len(journal) : ended \/ i < Len(journal) => journal'[i] = journal[i]
      /\ ~ended' => ~ended \/ Len(journal') = Len(journal) + 1
  <2>1. journal \in Seq(Records \cup {Junk}) /\ ended \in BOOLEAN
    BY DEF AuditTyped
  <2>2. CASE UNCHANGED <<journal, ended>>
    BY <2>1, <2>2
  <2>3. ASSUME NEW r \in Records, WriteWhole(r) \/ WriteInPart(r)
        PROVE  /\ journal' \in Seq(Records \cup {Junk}) /\ Len(journal') >= Len(journal)
               /\ \A i \in 1 .. Len(journal) :
                     ended \/ i < Len(journal) => journal'[i] = journal[i]
               /\ ~ended' => ~ended \/ Len(journal') = Len(journal) + 1
    BY <2>1, <2>3, WritesAdd
  <2> QED
    BY <2>1, <2>2, <2>3
<1>3. PICK k \in Holes : \A n \in Holes : k <= n
  BY <1>1, LeastElement
<1>4. ASSUME NEW i \in 1 .. made', Intact(i)'
      PROVE  i <= Len(journal') /\ journal'[i] = Rec(i)
  <2>1. \A j \in 1 .. i : j \notin Holes
    BY <1>4 DEF Intact
  <2>2. i < k /\ i \in 1 .. made /\ Intact(i)
    BY <1>1, <1>3, <1>4, <2>1 DEF Intact
  <2>3. i <= Len(journal) /\ journal[i] = Rec(i)
    BY <2>2 DEF JournalSound
  <2>4. ended \/ i < Len(journal)
    <3>1. ASSUME NEW n \in Holes, n <= Len(journal) PROVE i < Len(journal)
      BY <1>1, <1>2, <1>3, <2>2, <3>1
    <3> QED
      BY <3>1 DEF JournalSound
  <2> QED
    BY <1>2, <2>3, <2>4
<1>5. k <= Len(journal) + 1
  <2>1. CASE k = 1
    BY <1>2, <2>1
  <2>2. CASE k # 1
    <3>1. k - 1 \in 1 .. made /\ \A j \in 1 .. k - 1 : j \notin Holes
      BY <1>1, <1>3, <2>2
    <3>2. k - 1 <= Len(journal)
      BY <3>1 DEF JournalSound, Intact
    <3> QED
      BY <1>1, <1>2, <3>2
  <2> QED
    BY <2>1, <2>2
<1>6. ~ended' => \E n \in Holes' : n <= Len(journal')
  <2>1. CASE ~ended
    <3>1. PICK n \in Holes : n <= Len(journal)
      BY <2>1 DEF JournalSound
    <3> QED
      BY <1>1, <1>2, <3>1
  <2>2. CASE Len(journal') = Len(journal) + 1
    BY <1>5, <2>2
  <2> QED
    BY <1>2, <2>1, <2>2
<1>7. Holes' # {}
  OBVIOUS
<1> QED
  BY <1>4, <1>6, <1>7 DEF JournalSound

\* The first hole: all the entries before it are there.
LEMMA FirstHoleMade ==
    ASSUME AuditTyped, JournalSound, Holes = {}, made' = made + 1, Holes' = {made'},
           \/ UNCHANGED <<journal, ended>>
           \/ \E r \in Records : WriteWhole(r) \/ WriteInPart(r)
    PROVE  JournalSound'
<1>1. made \in Nat /\ Len(journal) = made /\ ended = TRUE
  BY DEF AuditTyped, JournalSound
<1>2. /\ Len(journal') \in Nat /\ Len(journal') >= made
      /\ \A i \in 1 .. made : journal'[i] = journal[i]
      /\ ~ended' => Len(journal') = made + 1
  <2>1. journal \in Seq(Records \cup {Junk}) /\ ended \in BOOLEAN
    BY DEF AuditTyped
  <2>2. CASE UNCHANGED <<journal, ended>>
    BY <1>1, <2>1, <2>2
  <2>3. CASE \E r \in Records : WriteWhole(r) \/ WriteInPart(r)
    <3>1. /\ journal' \in Seq(Records \cup {Junk}) /\ Len(journal') >= Len(journal)
          /\ \A i \in 1 .. Len(journal) : ended \/ i < Len(journal) => journal'[i] = journal[i]
          /\ ~ended' => ~ended \/ Len(journal') = Len(journal) + 1
      BY <2>1, <2>3, WritesAdd
    <3> QED
      BY <1>1, <3>1
  <2> QED
    BY <2>2, <2>3
<1>3. ASSUME NEW i \in 1 .. made', Intact(i)'
      PROVE  i <= Len(journal') /\ journal'[i] = Rec(i)
  <2>1. i # made' /\ i \in 1 .. made
    BY <1>1, <1>3 DEF Intact
  <2>2. i <= Len(journal) /\ journal[i] = Rec(i)
    BY <2>1 DEF JournalSound, Intact
  <2> QED
    BY <1>1, <1>2, <2>1, <2>2
<1>4. ~ended' => \E k \in Holes' : k <= Len(journal')
  BY <1>1, <1>2
<1> QED
  BY <1>3, <1>4 DEF JournalSound

\* An entry that is appended while there is no hole, by a server that is alone.
LEMMA NoHoleMade ==
    ASSUME AuditTyped, ChainOfHolder, JournalSound,
           NEW p \in Processes, Serving(p), Alone(p), made < MaxEntries, made' = made + 1,
           chain' = [chain EXCEPT ![p] = WithEntry(@, made')],
           WriteWhole(NewRecord(chain[p], made')),
           Holes = {}, Holes' = {}
    PROVE  JournalSound'
<1> DEFINE r == NewRecord(chain[p], made')
           d == WithEntry(chain[p], made')
<1>1. /\ made \in Nat /\ Len(journal) = made /\ ended = TRUE /\ chain[p] # NotResumed
      /\ chain[p].total = made /\ chain[p].head = made
      /\ journal \in Seq(Records \cup {Junk})
  BY DEF AuditTyped, JournalSound, Serving, Alone
<1>2. r \in Records /\ r = Rec(made') /\ d.total = made' /\ d.head = made'
  <2>1. /\ chain[p] \in Chains /\ made' \in Entries
        /\ d.total = chain[p].total + 1 /\ d.head = made'
    BY MakeTyped
  <2>2. r \in Records
    BY <2>1, NewRecordTyped
  <2>3. r = Rec(made')
    BY <1>1 DEF NewRecord, Rec
  <2> QED
    BY <1>1, <2>1, <2>2, <2>3
<1> HIDE DEF r, d
<1>3. journal' = Append(journal, r) /\ ended' = TRUE
  BY <1>1 DEF WriteWhole, Continued, r
<1>4. /\ Len(journal') = made' /\ journal'[made'] = r
      /\ \A i \in 1 .. made : journal'[i] = journal[i]
  BY <1>1, <1>2, <1>3
<1>5. \A i \in 1 .. made : journal[i] = Rec(i)
  BY DEF JournalSound, Intact
<1>6. \A i \in 1 .. made' : i <= Len(journal') /\ journal'[i] = Rec(i)
  BY <1>1, <1>2, <1>4, <1>5
<1>7. ASSUME NEW q \in Processes, chain'[q] # NotResumed
      PROVE  chain'[q].total = made' /\ chain'[q].head = made'
  <2>1. q = p
    BY <1>7 DEF AuditTyped, ChainOfHolder, Alone, Serving
  <2>2. chain'[p] = d
    BY DEF AuditTyped, d
  <2> QED
    BY <1>2, <2>1, <2>2
<1> QED
  BY <1>3, <1>4, <1>6, <1>7 DEF JournalSound

LEMMA StepSound ==
    ASSUME AuditTyped, ChainOfHolder, JournalSound, [Next]_vars
    PROVE  JournalSound'
<1>1. ASSUME NEW p \in Processes, Lock(p) PROVE JournalSound'
  <2>1. /\ UNCHANGED <<journal, ended, made, Holes>> /\ misread' = misread \ {p}
        /\ \A q \in Processes : chain'[q] # NotResumed => q # p /\ chain'[q] = chain[q]
    BY <1>1 DEF Lock, entries, Holes, ChainOfHolder, AuditTyped
  <2> QED
    BY <2>1 DEF JournalSound, Intact
<1>2. ASSUME NEW p \in Processes, Resume(p) \/ ResumeInMemory(p) \/ ResumeMisread(p)
      PROVE  JournalSound'
  <2>1. PICK lines \in Seq(Records \cup {Junk}), open \in BOOLEAN :
          Resumes(p, lines, open) /\ (lines = journal \/ misread' = misread \cup {p})
    BY <1>2, ResumeWays
  <2>2. /\ UNCHANGED <<journal, ended, made, Holes>>
        /\ chain'[p].total = ReadWindowed(lines).total
        /\ chain'[p].head = ReadWindowed(lines).head
        /\ \A q \in Processes : q # p => chain'[q] = chain[q]
    BY <2>1, ResumesTyped DEF entries, Holes
  <2>3. misread' \in {misread, misread \cup {p}}
    BY <1>2, ResumeWays
  <2>4. ASSUME Holes = {}
        PROVE  ReadWindowed(journal).total = made /\ ReadWindowed(journal).head = made
    <3>1. Len(journal) = made /\ \A i \in 1 .. Len(journal) : journal[i] = Rec(i)
      BY <2>4 DEF JournalSound, Intact
    <3> QED
      BY <3>1, ReadWhole DEF AuditTyped
  <2>5. Holes' = {} =>
          /\ Len(journal') = made'
          /\ \A q \in Processes :
                chain'[q] # NotResumed /\ q \notin misread'
                => chain'[q].total = made' /\ chain'[q].head = made'
    BY <2>1, <2>2, <2>3, <2>4 DEF JournalSound
  <2> QED
    BY <2>2, <2>5 DEF JournalSound, Intact
<1>3. ASSUME NEW p \in Processes, Answer(p) PROVE JournalSound'
  <2> DEFINE d == WithEntry(chain[p], made')
             r == NewRecord(chain[p], made')
  <2>1. /\ Serving(p) /\ made < MaxEntries /\ made' = made + 1
        /\ doubtful' \in {doubtful, {made'}} /\ (doubtful # {} => doubtful' = doubtful)
        /\ (doubtful' = {} => Alone(p))
    BY <1>3, MakeDoubts DEF Answer
  <2>2. chain' = [chain EXCEPT ![p] = d] /\ UNCHANGED <<lost, misread>>
    BY <1>3 DEF Answer
  <2>3. /\ d \in Chains /\ HasRecord(d) /\ Last(d.records) = r /\ Last(d.records) \in Records
        /\ d.open = chain[p].open
    BY <2>1, MakeTyped
  <2>4. chain'[p] = d
    BY <2>2 DEF AuditTyped
  <2> HIDE DEF d, r
  <2>5. CASE chain[p].open
    <3>1. WriteWhole(r) /\ UNCHANGED unwritten /\ r \in Records
      BY <1>3, <2>3, <2>4, <2>5 DEF Answer
    <3>2. Holes' \in {Holes, Holes \cup {made'}}
      BY <2>1, <2>2, <3>1 DEF Holes
    <3>3. CASE Holes # {}
      BY <2>1, <3>1, <3>2, <3>3, AfterAHole
    <3>4. CASE Holes = {} /\ Holes' = {}
      <4>1. chain' = [chain EXCEPT ![p] = WithEntry(@, made')] /\ WriteWhole(NewRecord(chain[p], made'))
        BY <2>2, <3>1 DEF d, r
      <4>2. Alone(p)
        BY <2>1, <3>4 DEF Holes
      <4> QED
        BY <2>1, <2>2, <3>4, <4>1, <4>2, NoHoleMade
    <3>5. CASE Holes = {} /\ Holes' = {made'}
      BY <2>1, <3>1, <3>5, FirstHoleMade
    <3> QED
      BY <3>2, <3>3, <3>4, <3>5
  <2>6. CASE ~chain[p].open
    <3>1. UNCHANGED <<journal, ended>> /\ Holes' = Holes \cup {made'}
      BY <1>3, <2>1, <2>2, <2>3, <2>4, <2>6 DEF Answer, Holes
    <3> QED
      BY <2>1, <3>1, FirstHoleMade, AfterAHole
  <2> QED
    BY <2>5, <2>6
<1>4. ASSUME NEW p \in Processes, AnswerUnwritten(p) \/ StopAnswering(p) PROVE JournalSound'
  <2> DEFINE d == WithEntry(chain[p], made')
  <2>1. /\ Serving(p) /\ made < MaxEntries /\ made' = made + 1
        /\ doubtful' \in {doubtful, {made'}} /\ (doubtful # {} => doubtful' = doubtful)
    BY <1>4, MakeDoubts DEF AnswerUnwritten, StopAnswering
  <2>2. Holes' = Holes \cup {made'}
    <3>1. unwritten' \cup lost' = unwritten \cup lost \cup {made'}
      BY <1>4 DEF AnswerUnwritten, StopAnswering
    <3> QED
      BY <2>1, <3>1 DEF Holes
  <2>3. WriteInPart(Last(d.records))
    <3>1. CASE AnswerUnwritten(p)
      BY <3>1 DEF AnswerUnwritten, AuditTyped
    <3>2. CASE StopAnswering(p)
      BY <3>2 DEF StopAnswering
    <3> QED
      BY <1>4, <3>1, <3>2
  <2>4. Last(d.records) \in Records
    BY <2>1, MakeTyped
  <2> HIDE DEF d
  <2> QED
    BY <2>1, <2>2, <2>3, <2>4, FirstHoleMade, AfterAHole
<1>5. ASSUME UNCHANGED vars PROVE JournalSound'
  BY <1>5 DEF vars, auditVars, entries, JournalSound, Intact, Holes
<1> QED
  BY <1>1, <1>2, <1>3, <1>4, <1>5 DEF Next

LEMMA SoundSuffices ==
    ASSUME AuditTyped, JournalSound
    PROVE  SoundToTheFirstHole
<1> DEFINE h == FirstHole
           S == {made + 1} \cup Holes
<1>1. made \in Nat /\ S \in SUBSET Nat /\ \A n \in S : n >= 1
  BY DEF AuditTyped, Holes
<1>2. h \in S /\ \A n \in S : h <= n
  <2>1. \E m \in S : \A n \in S : m <= n
    BY <1>1, LeastElement
  <2>2. h = Min(S)
    BY DEF FirstHole, Holes
  <2> HIDE DEF h, S
  <2> QED
    BY <2>1, <2>2 DEF Min
<1>3. h \in Nat /\ h >= 1 /\ h <= made + 1 /\ \A j \in Holes : h <= j
  BY <1>1, <1>2
<1> HIDE DEF h, S
<1>4. ASSUME NEW i \in 1 .. h - 1
      PROVE  i <= Len(journal) /\ journal[i] = Rec(i)
  <2>1. i \in 1 .. made /\ Intact(i)
    BY <1>1, <1>3 DEF Intact, AuditTyped, Holes
  <2> QED
    BY <2>1 DEF JournalSound
<1>5. Len(journal) \in Nat /\ journal \in Seq(Records \cup {Junk})
  BY DEF AuditTyped
<1>6. h - 1 <= Len(journal)
  <2>1. CASE h = 1
    BY <1>5, <2>1
  <2>2. CASE h # 1
    <3>1. h - 1 \in 1 .. h - 1
      BY <1>3, <2>2
    <3> QED
      BY <1>4, <3>1
  <2> QED
    BY <2>1, <2>2
<1>7. \A i \in 1 .. h - 1 : journal[i].entry = i /\ journal[i].sequence = i - 1
                            /\ journal[i].previous = i - 1
  <2>1. \A i : Rec(i).entry = i /\ Rec(i).sequence = i - 1 /\ Rec(i).previous = i - 1
    BY DEF Rec
  <2> QED
    BY <1>4, <2>1
<1>8. Verifies(SubSeq(journal, 1, h - 1))
  <2> DEFINE q == SubSeq(journal, 1, h - 1)
  <2>1. Len(q) = h - 1 /\ \A i \in 1 .. h - 1 : q[i] = journal[i]
    BY <1>3, <1>5, <1>6
  <2> HIDE DEF q
  <2>2. ASSUME NEW i \in 1 .. Len(q)
        PROVE  /\ q[i].sequence = q[1].sequence + i - 1
               /\ i > 1 => q[i].previous = q[i - 1].entry
    <3>1. i \in 1 .. h - 1 /\ 1 \in 1 .. h - 1 /\ (i > 1 => i - 1 \in 1 .. h - 1)
      BY <1>3, <2>1
    <3>2. q[i].sequence = i - 1 /\ q[1].sequence = 0 /\ q[i].previous = i - 1
          /\ (i > 1 => q[i - 1].entry = i - 1)
      BY <1>7, <2>1, <3>1
    <3> QED
      BY <1>3, <3>1, <3>2
  <2> QED
    BY <2>2 DEF Verifies, q
<1> QED
  BY <1>6, <1>7, <1>8 DEF SoundToTheFirstHole, h

\* Up to the first entry that could not be written, or was made beside another server
\* or by one that had not read the whole journal, the journal is the audit, over any
\* number of servers, restarts and windows.  journal.rs, read_windowed and append;
\* chain.rs, append.
THEOREM JournalIsTheAudit == Spec => []SoundToTheFirstHole
<1>1. IInv => LockShapes
  BY DEF IInv
<1>2. AuditTyped /\ LockShapes /\ ChainOfHolder /\ JournalSound /\ [Next]_vars
        => ChainOfHolder' /\ JournalSound'
  BY StepHolder, StepSound
<1>3. AuditTyped /\ JournalSound => SoundToTheFirstHole
  BY SoundSuffices
<1> QED
  BY <1>1, <1>2, <1>3, InitSound, Inductive, TypedAlways, PTL DEF Spec
=============================================================================
