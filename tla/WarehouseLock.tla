----------------------------- MODULE WarehouseLock -----------------------------
(***************************************************************************)
(* The lock that keeps a warehouse to one server: a file claimed by an     *)
(* exclusive create, naming a process, and broken by whoever finds that    *)
(* process gone.  Source: src/crates/sankhya-atomicfs/src/exclusive.rs,    *)
(* taken in src/crates/sankhya-server/src/main.rs.                         *)
(*                                                                         *)
(* A member of Processes is one run of a server: its pid with its start    *)
(* time, which never come back together.  Every system call of take and of *)
(* drop is a step of its own: what a process has read of the lock, and     *)
(* what it has found out about the process named there, may both be out of *)
(* date by its next.                                                       *)
(***************************************************************************)
EXTENDS Integers, FiniteSets

CONSTANTS
    Processes,      \* the runs of a server, each started at most once
    PidOf,          \* the pid of each run: two runs may be given the same
    MaxCrashes,     \* bound: processes that stop without dropping their lock
    MaxFailures     \* bound: calls that fail and are gone on from

VARIABLES
    file,     \* the lock file: who created it, and whether it is written
    step,     \* where each process is
    passes,   \* the passes of its loop each process has begun
    named,    \* whom the lock that each process has read names, while that matters
    crashed,  \* the processes that stopped without dropping
    failures, \* counts the calls that failed and were gone on from
    hasty     \* history: whether a process has removed a lock that it had not read,
              \* or has taken a process that lives for gone

claims   == <<file, step, passes, named, crashed, hasty>>
lockVars == <<claims, failures>>

Nobody == "nobody"

ASSUME LockAssumption ==
    /\ Nobody \notin Processes
    /\ MaxCrashes \in Nat /\ MaxFailures \in Nat

\* There is no file.
NoFile == [by |-> Nobody, whole |-> FALSE]

\* The file as create_new leaves it, and as the write after it does.
Claimed(p) == [by |-> p, whole |-> FALSE]
Written(p) == [by |-> p, whole |-> TRUE]

Steps == {"new", "create", "write", "read", "judge", "remove", "holding", "unlink", "gone"}

Alive(p) == step[p] \notin {"new", "gone"}

Holding(p) == step[p] = "holding"

LockInit ==
    /\ file = NoFile
    /\ step = [p \in Processes |-> "new"]
    /\ passes = [p \in Processes |-> 0]
    /\ named = [p \in Processes |-> Nobody]
    /\ crashed = {}
    /\ failures = 0
    /\ hasty = FALSE

\* Mutant: a check that asks only whether the pid is in use.
HolderAliveByPid(h) == \E p \in Processes : Alive(p) /\ PidOf[p] = PidOf[h]

\* alive: the process the lock names is still the process that took it.
HolderAlive(h) == \E p \in Processes : Alive(p) /\ p = h

Goto(p, where) == step' = [step EXCEPT ![p] = where]

Start(p) ==
    /\ step[p] = "new"
    /\ Goto(p, "create")
    /\ passes' = [passes EXCEPT ![p] = 1]
    /\ UNCHANGED <<file, named, crashed, failures, hasty>>

\* Mutant: a create that does not ask whether the name is free.
CreateByReplacing(p) ==
    /\ step[p] = "create"
    /\ file' = Claimed(p)
    /\ Goto(p, "write")
    /\ UNCHANGED <<passes, named, crashed, failures, hasty>>

\* create_new claims the name and nothing else: what it will hold comes after.
Create(p) ==
    /\ step[p] = "create"
    /\ \/ file = NoFile /\ file' = Claimed(p) /\ Goto(p, "write")
       \/ file # NoFile /\ UNCHANGED file /\ Goto(p, "read")
    /\ UNCHANGED <<passes, named, crashed, failures, hasty>>

\* The bytes go to the file that was created, whatever its name holds now.
AfterWrite(p) == IF file = Claimed(p) THEN Written(p) ELSE file

Write(p) ==
    /\ step[p] = "write"
    /\ file' = AfterWrite(p)
    /\ Goto(p, "holding")
    /\ UNCHANGED <<passes, named, crashed, failures, hasty>>

\* A file that is missing or does not parse is refused; of any other it is known
\* whom it names.
Read(p) ==
    /\ step[p] = "read"
    /\ \/ ~file.whole /\ Goto(p, "gone") /\ UNCHANGED named
       \/ file.whole /\ Goto(p, "judge") /\ named' = [named EXCEPT ![p] = file.by]
    /\ UNCHANGED <<file, passes, crashed, failures, hasty>>

\* What a process has read of a lock is gone with the pass of its loop.
Forgets(p) == named' = [named EXCEPT ![p] = Nobody]

\* A live holder refuses, and one that is gone is to be removed.
Judge(p) ==
    /\ step[p] = "judge"
    /\ \/ HolderAlive(named[p]) /\ Goto(p, "gone") /\ Forgets(p)
       \/ ~HolderAlive(named[p]) /\ Goto(p, "remove") /\ UNCHANGED named
    /\ UNCHANGED <<file, passes, crashed, failures, hasty>>

\* A holder /proc cannot be asked about is taken for gone.
JudgeBlindly(p) ==
    /\ step[p] = "judge"
    /\ failures < MaxFailures /\ failures' = failures + 1
    /\ Goto(p, "remove")
    /\ hasty' = (hasty \/ HolderAlive(named[p]))
    /\ UNCHANGED <<file, passes, named, crashed>>

\* The name is removed, whatever it holds now: it may be another than was read.
RemoveName(read) ==
    /\ file' = NoFile
    /\ hasty' = (hasty \/ file.by \notin {Nobody, read})

\* ... and the loop goes round again.
RemoveStale(p) ==
    /\ step[p] = "remove"
    /\ RemoveName(named[p])
    /\ Forgets(p)
    /\ \/ passes[p] < 3 /\ passes' = [passes EXCEPT ![p] = @ + 1] /\ Goto(p, "create")
       \/ passes[p] = 3 /\ UNCHANGED passes /\ Goto(p, "gone")
    /\ UNCHANGED <<crashed, failures>>

\* Drop reads the file before it removes it: a lock that is not its own is left.
Drop(p) ==
    /\ step[p] = "holding"
    /\ Goto(p, IF file = Written(p) THEN "unlink" ELSE "gone")
    /\ UNCHANGED <<file, passes, named, crashed, failures, hasty>>

Unlink(p) ==
    /\ step[p] = "unlink"
    /\ RemoveName(p)
    /\ Goto(p, "gone")
    /\ UNCHANGED <<passes, named, crashed, failures>>

\* A process is killed where it stands, or one of its calls fails and it does not
\* start, or does not remove its lock: what it created stays, written or not.
Crash(p) ==
    /\ Alive(p)
    /\ Cardinality(crashed) < MaxCrashes
    /\ crashed' = crashed \cup {p}
    /\ Goto(p, "gone")
    /\ \/ UNCHANGED file
       \/ step[p] = "write" /\ file' = AfterWrite(p)
    /\ Forgets(p)
    /\ UNCHANGED <<passes, failures, hasty>>

\* take, from its first call to its last.
Take(p) == Create(p) \/ Write(p) \/ Read(p) \/ Judge(p) \/ RemoveStale(p)

LockStep(p) ==
    \/ Start(p) \/ Take(p) \/ JudgeBlindly(p)
    \/ Drop(p) \/ Unlink(p) \/ Crash(p)

-----------------------------------------------------------------------------
LockTypeOK ==
    /\ file \in [by : Processes \cup {Nobody}, whole : BOOLEAN]
    /\ step \in [Processes -> Steps]
    /\ passes \in [Processes -> 0 .. 3]
    /\ named \in [Processes -> Processes \cup {Nobody}]
    /\ crashed \in SUBSET Processes
    /\ failures \in 0 .. MaxFailures
    /\ hasty \in BOOLEAN

\* "One writer per warehouse, enforced rather than assumed": no two processes hold
\* the lock at once.
OneServer == \A p, q \in Processes : Holding(p) /\ Holding(q) => p = q

\* There are two ways to two servers and no third: a process removes a lock that it
\* has not read, since the name has changed hands, or it cannot ask /proc and takes
\* for gone a process that lives.  Starting together, crashes, locks left behind
\* empty, and a pid that has come round again let no second server in.
OneServerUnlessHasty == ~hasty => OneServer

\* As long as nobody is hasty, the lock of a running server names it, so whoever
\* starts next is refused.
HolderIsNamed == ~hasty => \A p \in Processes : Holding(p) => file = Written(p)

\* A lock that somebody left whole stops nobody, even when its pid has come round
\* again, be it to the very process that starts: a server that starts alone comes
\* to hold the warehouse, unless it is stopped or another one starts meanwhile.
StaleIsTaken ==
    \A p \in Processes :
        step[p] = "create" /\ file.whole /\ (\A q \in Processes \ {p} : ~Alive(q))
        ~> Holding(p) \/ p \in crashed \/ \E q \in Processes \ {p} : Alive(q)
=============================================================================
