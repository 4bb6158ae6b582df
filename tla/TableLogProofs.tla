--------------------------- MODULE TableLogProofs ---------------------------
(***************************************************************************)
(* The commit protocol, for every number of callers, versions, files and   *)
(* attempts: the log never has a gap and a commit in it never changes; no  *)
(* acknowledged row is lost or doubled, a feed's position and its rows     *)
(* move together, and an expiry takes the partition as it stands.          *)
(*                                                                         *)
(* A committer acts on a log it read some steps ago.  What saves it is the *)
(* claim: a version that is still free, behind one that exists, is the end *)
(* of the log, so nothing was committed since the version was chosen and   *)
(* what was read after that is still so.  The invariant states what each   *)
(* kind of committer carries, and what of it is true while its version is  *)
(* free.                                                                   *)
(***************************************************************************)
EXTENDS TableLog, FiniteSetTheorems, TLAPS

(* Each committer has a place and a version, whatever they are.            *)
Placed ==
  /\ pc \in [Committers -> States]
  /\ DOMAIN ver = Committers
  /\ ver = [p \in Committers |-> ver[p]]

(* A committer past its probe knows the version before its own exists.     *)
(* Versions are never taken away, so it may go on knowing it for as long   *)
(* as it likes before it claims.                                           *)
ProbedHasPredecessor ==
  \A p \in Committers :
    pc[p] = "probed" => (ver[p] > 0 => ver[p] - 1 \in DOMAIN log)

LogInv ==
  /\ Placed
  /\ DOMAIN log \subseteq Versions
  /\ ProbedHasPredecessor
  /\ Contiguous

-----------------------------------------------------------------------------
(* A step leaves the log alone, or is the claim of one committer that had  *)
(* probed for a version nobody has.                                        *)
Claimed(p) ==
  /\ pc[p] = "probed"
  /\ ver[p] \in Versions
  /\ ver[p] \notin DOMAIN log
  /\ log' = Bind(log, ver[p], job[p])

LEMMA OnlyClaimsWrite ==
  Next => log' = log \/ \E p \in Committers : Claimed(p)
<1> SUFFICES ASSUME Next
             PROVE  log' = log \/ \E p \in Committers : Claimed(p)
  OBVIOUS
<1>1. CASE Start
  BY <1>1 DEF Start, StartCreate, StartAppend, StartRecord, StartEvolve, Plan,
              Execute, ReadVersion, StartExpiry, WriteFile
<1>2. CASE \E p \in Recorders \cup Evolvers : ReadMetadata(p)
  BY <1>2 DEF ReadMetadata
<1>3. ASSUME NEW p \in Committers, Claim(p)
      PROVE  log' = log \/ Claimed(p)
  BY <1>3 DEF Claim, Claimed, Exists
<1>4. ASSUME NEW p \in Committers, Probe(p) \/ Rebase(p) \/ GiveUp(p) \/ Fail(p)
      PROVE  log' = log
  BY <1>4 DEF Probe, Rebase, GiveUp, Fail
<1> QED BY <1>1, <1>2, <1>3, <1>4 DEF Next

(* A version that exists goes on existing, unchanged: Claimed takes a name *)
(* nobody had.                                                             *)
LEMMA StepKeepsCommits ==
  [Next]_vars => \A v \in DOMAIN log : v \in DOMAIN log' /\ log'[v] = log[v]
<1> SUFFICES ASSUME [Next]_vars, NEW v \in DOMAIN log
             PROVE  v \in DOMAIN log' /\ log'[v] = log[v]
  OBVIOUS
<1>1. CASE log' = log
  BY <1>1
<1>2. ASSUME NEW p \in Committers, Claimed(p)
      PROVE  v \in DOMAIN log' /\ log'[v] = log[v]
  BY <1>2 DEF Claimed, Bind
<1> QED BY <1>1, <1>2, OnlyClaimsWrite DEF vars

-----------------------------------------------------------------------------
(* Only a probe brings a committer to where it claims from.                *)
Moved(p) ==
  /\ pc' \in [Committers -> States]
  /\ ver' = [q \in Committers |-> ver'[q]]
  /\ DOMAIN ver' = Committers
  /\ \A q \in Committers \ {p} : pc'[q] = pc[q] /\ ver'[q] = ver[q]
  /\ pc'[p] = "probed" =>
       /\ ver'[p] = ver[p]
       /\ ver[p] > 0 => ver[p] - 1 \in DOMAIN log

LEMMA EveryStepMovesOne ==
  ASSUME Placed, Next
  PROVE  \E p \in Committers : Moved(p)
<1> USE DEF Committers, States
<1>1. ASSUME NEW p \in Committers, NEW state \in States, NEW version, NEW commit,
             Begin(p, state, version, commit), state # "probed"
      PROVE  Moved(p)
  BY <1>1 DEF Begin, Placed, Moved
<1>2. ASSUME NEW p \in Committers, Return(p)
      PROVE  Moved(p)
  BY <1>2 DEF Return, Placed, Moved
<1>3. ASSUME NEW p \in Committers, NEW n, NEW state \in States, NEW version,
             WriteFile(p, n, state, version), state # "probed"
      PROVE  Moved(p)
  BY <1>1, <1>3 DEF WriteFile
<1>4. CASE Start
  <2>1. ASSUME NEW p \in Creators, StartCreate(p)  PROVE Moved(p)
    BY <1>1, <2>1 DEF StartCreate
  <2>2. ASSUME NEW p \in Appenders, StartAppend(p)  PROVE Moved(p)
    BY <1>3, <2>2 DEF StartAppend
  <2>3. ASSUME NEW p \in Recorders, StartRecord(p)  PROVE Moved(p)
    BY <1>3, <2>3 DEF StartRecord
  <2>4. ASSUME NEW p \in Evolvers, StartEvolve(p)  PROVE Moved(p)
    BY <1>1, <2>4 DEF StartEvolve
  <2>5. ASSUME NEW p \in Mergers, Plan(p)  PROVE Moved(p)
    BY <1>1, <2>5 DEF Plan
  <2>6. ASSUME NEW p \in Mergers, Execute(p)  PROVE Moved(p)
    <3>1. CASE Return(p)
      BY <1>2, <3>1
    <3>2. CASE ~Return(p)
      BY <2>6, <3>2 DEF Execute, Placed, Moved
    <3> QED BY <3>1, <3>2
  <2>7. ASSUME NEW p \in Mergers, ReadVersion(p)  PROVE Moved(p)
    BY <2>7 DEF ReadVersion, Placed, Moved
  <2>8. ASSUME NEW p \in Expirers, StartExpiry(p)  PROVE Moved(p)
    BY <1>1, <2>8 DEF StartExpiry
  <2> QED BY <1>4, <2>1, <2>2, <2>3, <2>4, <2>5, <2>6, <2>7, <2>8 DEF Start
<1>5. ASSUME NEW p \in Recorders \cup Evolvers, ReadMetadata(p)
      PROVE  Moved(p)
  <2>1. CASE Return(p)
    BY <1>2, <2>1
  <2>2. CASE ~Return(p)
    BY <1>5, <2>2 DEF ReadMetadata, Placed, Moved
  <2> QED BY <2>1, <2>2
<1>6. ASSUME NEW p \in Committers, Probe(p)
      PROVE  Moved(p)
  <2>1. CASE Return(p)
    BY <1>2, <2>1
  <2>2. CASE ~Return(p)
    BY <1>6, <2>2 DEF Probe, Exists, Placed, Moved
  <2> QED BY <2>1, <2>2
<1>7. ASSUME NEW p \in Committers, Claim(p)
      PROVE  Moved(p)
  <2>1. CASE Return(p)
    BY <1>2, <2>1
  <2>2. CASE ~Return(p)
    BY <1>7, <2>2 DEF Claim, Placed, Moved
  <2> QED BY <2>1, <2>2
<1>8. ASSUME NEW p \in Committers, Rebase(p)
      PROVE  Moved(p)
  BY <1>8 DEF Rebase, Placed, Moved
<1>9. ASSUME NEW p \in Committers, GiveUp(p) \/ Fail(p)
      PROVE  Moved(p)
  BY <1>2, <1>9 DEF GiveUp, Fail
<1> QED BY <1>4, <1>5, <1>6, <1>7, <1>8, <1>9 DEF Next

-----------------------------------------------------------------------------
LEMMA LogInvInit == Init => LogInv
<1> SUFFICES ASSUME Init PROVE LogInv
  OBVIOUS
<1>1. Placed /\ ProbedHasPredecessor
  BY DEF Init, Placed, ProbedHasPredecessor, States
<1>2. DOMAIN log = {} \/ DOMAIN log = {0}
  BY DEF Init
<1>3. DOMAIN log \subseteq Versions /\ Contiguous
  BY <1>2, BoundsAssumption DEF Versions, Contiguous
<1> QED BY <1>1, <1>3 DEF LogInv

LEMMA LogInvNext == LogInv /\ [Next]_vars => LogInv'
<1> SUFFICES ASSUME LogInv, [Next]_vars PROVE LogInv'
  OBVIOUS
<1>1. CASE UNCHANGED vars
  BY <1>1 DEF LogInv, Placed, ProbedHasPredecessor, Contiguous, Versions, vars,
              committer
<1>2. CASE Next
  <2>1. PICK p \in Committers : Moved(p)
    BY <1>2, EveryStepMovesOne DEF LogInv
  <2>2. Placed'
    BY <2>1 DEF Placed, Moved
  <2>3. ProbedHasPredecessor'
    BY <2>1, StepKeepsCommits DEF LogInv, ProbedHasPredecessor, Moved
  <2>4. DOMAIN log' \subseteq Versions /\ Contiguous'
    <3>1. CASE log' = log
      BY <3>1 DEF LogInv, Contiguous
    <3>2. ASSUME NEW q \in Committers, Claimed(q)
          PROVE  DOMAIN log' \subseteq Versions /\ Contiguous'
      <4>1. DOMAIN log' = DOMAIN log \cup {ver[q]} /\ ver[q] \in Versions
        BY <3>2 DEF Claimed, Bind
      <4>2. ver[q] > 0 => ver[q] - 1 \in DOMAIN log
        BY <3>2 DEF Claimed, LogInv, ProbedHasPredecessor
      <4>3. ASSUME NEW v \in DOMAIN log', NEW u \in 0..v
            PROVE  u \in DOMAIN log'
        <5>1. CASE v \in DOMAIN log
          BY <4>1, <5>1 DEF LogInv, Contiguous
        <5>2. CASE v = ver[q] /\ u < v
          <6>1. v > 0 /\ u \in 0..(v - 1)
            BY <4>1, <4>3, <5>2, BoundsAssumption DEF Versions
          <6> QED BY <4>1, <4>2, <5>2, <6>1 DEF LogInv, Contiguous
        <5>3. CASE u = v
          BY <4>3, <5>3
        <5> QED BY <4>1, <4>3, <5>1, <5>2, <5>3, BoundsAssumption DEF Versions
      <4> QED BY <4>1, <4>3 DEF LogInv, Contiguous
    <3> QED BY <1>2, <3>1, <3>2, OnlyClaimsWrite
  <2> QED BY <2>2, <2>3, <2>4 DEF LogInv, Versions
<1> QED BY <1>1, <1>2

(* No gap ever: a walk from version zero that stops at the first absent    *)
(* name has read every commit there is, whatever versions callers ask for. *)
THEOREM NoGap == Spec => []Contiguous
<1>1. LogInv => Contiguous
  BY DEF LogInv
<1> QED BY <1>1, LogInvInit, LogInvNext, PTL DEF Spec

(* Every loser is told: no committer ever replaces another's commit.       *)
THEOREM NoCommitLost == Spec => CommitsImmutable
<1>1. [Next]_vars =>
        [\A v \in DOMAIN log : v \in DOMAIN log' /\ log'[v] = log[v]]_vars
  BY StepKeepsCommits
<1> QED BY <1>1, PTL DEF Spec, CommitsImmutable

-----------------------------------------------------------------------------
(* What the log holds. *)

(* The least number that a bounded set of numbers leaves out.              *)
LEMMA LeastMissing ==
  ASSUME NEW N \in Nat, NEW S, S \subseteq 0..N
  PROVE  \E n \in 0..(N + 1) : n \notin S /\ \A v \in 0..(n - 1) : v \in S
<1> DEFINE R == OpToRel(<, Nat)
           T == Nat \ S
<1>1. IsWellFoundedOn(R, Nat)
  BY NatLessThanWellFounded, Zenon
<1>2. \A x, y \in Nat : x < y => << x, y >> \in R
  BY DEF OpToRel
<1>3. N + 1 \in T /\ T \subseteq Nat
  OBVIOUS
<1> HIDE DEF R
<1>4. PICK n \in T : \A m \in T : ~(<< m, n >> \in R)
  BY <1>1, <1>3, WFMin
<1>5. ASSUME NEW m \in T PROVE n <= m
  <2>1. n \in Nat /\ m \in Nat
    BY <1>3
  <2>2. ~(m < n)
    BY <1>2, <1>4, <2>1
  <2> QED BY <2>1, <2>2
<1> QED BY <1>3, <1>5

(* The greatest member of a bounded set of numbers.                        *)
LEMMA GreatestMember ==
  ASSUME NEW N \in Nat, NEW S, S \subseteq 0..N, S # {}
  PROVE  \E n \in S : \A k \in S : k <= n
<1> DEFINE T == { k \in 0..N : N - k \in S }
           R == OpToRel(<, Nat)
<1>1. IsWellFoundedOn(R, Nat)
  BY NatLessThanWellFounded, Zenon
<1>2. \A x, y \in Nat : x < y => << x, y >> \in R
  BY DEF OpToRel
<1>3. PICK s \in S : TRUE
  OBVIOUS
<1>4. N - s \in T /\ T \subseteq Nat
  BY <1>3
<1> HIDE DEF R
<1>5. PICK n \in T : \A m \in T : ~(<< m, n >> \in R)
  BY <1>1, <1>4, WFMin
<1>6. ASSUME NEW m \in T PROVE n <= m
  <2>1. n \in Nat /\ m \in Nat
    BY <1>4
  <2>2. ~(m < n)
    BY <1>2, <1>5, <2>1
  <2> QED BY <2>1, <2>2
<1>7. ASSUME NEW k \in S PROVE k <= N - n
  <2>1. N - k \in T
    OBVIOUS
  <2>2. n <= N - k
    BY <1>6, <2>1
  <2> QED BY <2>2
<1> QED BY <1>7

(* A walk finds the end of the log.                                        *)
LEMMA NextVersionIsNext ==
  ASSUME DOMAIN log \subseteq Versions
  PROVE  /\ NextVersion \in 0..(MaxVersion + 1)
         /\ NextVersion \notin DOMAIN log
         /\ NextVersion > 0 => NextVersion - 1 \in DOMAIN log
<1> USE BoundsAssumption
<1>1. \E n \in 0..(MaxVersion + 1) : ~Exists(n) /\ \A v \in 0..(n - 1) : Exists(v)
  BY LeastMissing DEF Versions, Exists
<1>2. /\ NextVersion \in 0..(MaxVersion + 1)
      /\ ~Exists(NextVersion) /\ \A v \in 0..(NextVersion - 1) : Exists(v)
  BY <1>1 DEF NextVersion
<1> QED BY <1>2 DEF Exists

-----------------------------------------------------------------------------
(* A version that may be claimed is past every version there is.           *)
LEMMA ClaimIsLast ==
  ASSUME LogInv, NEW p \in Committers, Claimed(p)
  PROVE  /\ \A u \in DOMAIN log : u < ver[p]
         /\ ver[p] \in Versions
         /\ DOMAIN log' = DOMAIN log \cup {ver[p]}
         /\ log'[ver[p]] = job[p]
         /\ \A u \in DOMAIN log : log'[u] = log[u]
<1>1. ASSUME NEW u \in DOMAIN log PROVE u < ver[p]
  <2>1. u \in Int /\ ver[p] \in 0..MaxVersion /\ u \in 0..MaxVersion
    BY BoundsAssumption DEF LogInv, Versions, Claimed
  <2>2. ver[p] \notin 0..u
    BY DEF Claimed, LogInv, Contiguous
  <2> QED BY <2>1, <2>2, BoundsAssumption
<1> QED BY <1>1 DEF Claimed, Bind

(* ... and so what it removes is gone and what it adds is there.           *)
LEMMA LiveAfterClaim ==
  ASSUME LogInv, NEW p \in Committers, Claimed(p)
  PROVE  Live' = (Live \cup job[p].adds) \ job[p].removes
<1>1. /\ \A u \in DOMAIN log : u < ver[p] /\ log'[u] = log[u]
      /\ ver[p] \in Int /\ DOMAIN log \subseteq Int
      /\ DOMAIN log' = DOMAIN log \cup {ver[p]} /\ log'[ver[p]] = job[p]
  BY ClaimIsLast, BoundsAssumption DEF LogInv, Versions
<1>2. ASSUME NEW f PROVE f \in Live' <=> f \in (Live \cup job[p].adds) \ job[p].removes
  <2>1. f \in Live <=> \E v \in DOMAIN log :
           f \in log[v].adds /\ \A u \in DOMAIN log : u >= v => f \notin log[u].removes
    BY DEF Live, LiveIn
  <2>2. f \in Live' <=> \E v \in DOMAIN log' :
           f \in log'[v].adds /\ \A u \in DOMAIN log' : u >= v => f \notin log'[u].removes
    BY DEF Live, LiveIn
  <2>3. ASSUME f \in Live' PROVE f \in (Live \cup job[p].adds) \ job[p].removes
    <3>1. PICK v \in DOMAIN log' :
             f \in log'[v].adds /\ \A u \in DOMAIN log' : u >= v => f \notin log'[u].removes
      BY <2>2, <2>3
    <3>2. f \notin job[p].removes
      BY <1>1, <3>1
    <3>3. CASE v = ver[p]
      BY <1>1, <3>1, <3>2, <3>3
    <3>4. CASE v \in DOMAIN log
      BY <1>1, <2>1, <3>1, <3>2, <3>4
    <3> QED BY <1>1, <3>3, <3>4
  <2>4. ASSUME f \in Live, f \notin job[p].removes PROVE f \in Live'
    BY <1>1, <2>1, <2>2, <2>4
  <2>5. ASSUME f \in job[p].adds, f \notin job[p].removes PROVE f \in Live'
    BY <1>1, <2>2, <2>5
  <2> QED BY <2>3, <2>4, <2>5
<1> QED BY <1>2

(* The metadata a claim leaves is its own, if it carries any.              *)
LEMMA MetadataAfterClaim ==
  ASSUME LogInv, NEW p \in Committers, Claimed(p)
  PROVE  CurrentMetadata' = IF job[p].meta = {} THEN CurrentMetadata ELSE job[p].meta
<1>1. /\ \A u \in DOMAIN log : u < ver[p] /\ log'[u] = log[u]
      /\ ver[p] \in Int /\ DOMAIN log \subseteq Int /\ ver[p] \notin DOMAIN log
      /\ DOMAIN log' = DOMAIN log \cup {ver[p]} /\ log'[ver[p]] = job[p]
  BY ClaimIsLast, BoundsAssumption DEF LogInv, Versions, Claimed
<1>2. CASE job[p].meta = {}
  <2>1. Declaring' = Declaring /\ \A w \in Declaring : log'[w] = log[w]
    BY <1>1, <1>2 DEF Declaring
  <2> QED BY <1>2, <2>1 DEF CurrentMetadata
<1>3. CASE job[p].meta # {}
  <2>1. Declaring' = Declaring \cup {ver[p]}
    BY <1>1, <1>3 DEF Declaring
  <2>2. { w \in Declaring' : \A u \in Declaring' : u <= w } = {ver[p]}
    BY <1>1, <2>1 DEF Declaring
  <2>3. CurrentMetadata' = UNION { log'[v].meta : v \in {ver[p]} }
    BY <2>2 DEF CurrentMetadata
  <2> QED BY <1>1, <1>3, <2>3
<1> QED BY <1>2, <1>3

-----------------------------------------------------------------------------
(* Types.  A merge has inputs, or its output would have no partition; and  *)
(* no action, in the log or yet to be, names a file that was not written.  *)
Seated ==
  /\ pc \in [Committers -> States]
  /\ ver \in [Committers -> Nat]
  /\ tries \in [Committers -> Nat]
  /\ job \in [Committers -> Commit]
  /\ \A p \in Committers :
       /\ pc[p] = "planned" => job[p].removes # {}
       /\ job[p].adds \cup job[p].removes \subseteq DOMAIN content
       /\ pc[p] # "idle" /\ p \in Appenders \cup Recorders => << p, batch[p] >> \in Rows

Stored ==
  /\ IsFiniteSet(DOMAIN content)
  /\ DOMAIN content \subseteq Files
  /\ \A f \in DOMAIN content : content[f] \subseteq Rows
  /\ \A v \in DOMAIN log : log[v].adds \subseteq DOMAIN content

Typed == TypeOK /\ Seated /\ Stored

LEMMA EmptyIsCommit ==
  /\ Empty \in Commit
  /\ [Empty EXCEPT !.meta = {Declared}] \in Commit
  /\ \A fs \in SUBSET Files : /\ [Empty EXCEPT !.adds = fs] \in Commit
                              /\ [Empty EXCEPT !.removes = fs] \in Commit
BY DEF Empty, Commit, Declared, Metadata

LEMMA LiveIsFiles ==
  ASSUME Typed
  PROVE  /\ Live \subseteq DOMAIN content /\ Live \subseteq Files
         /\ CurrentMetadata \subseteq Metadata
<1>1. Live \subseteq DOMAIN content
  BY DEF Typed, Stored, Live, LiveIn
<1>2. CurrentMetadata \subseteq Metadata
  BY DEF Typed, TypeOK, CurrentMetadata, Declaring, Commit
<1> QED BY <1>1, <1>2 DEF Typed, Stored

LEMMA SequenceIsNat ==
  ASSUME Typed PROVE NextSequence \in Nat \ {0}
<1> DEFINE used == { f[3] : f \in { g \in Live : g[1] = "compacted" } }
<1>1. used \subseteq 1..MaxFiles
  BY LiveIsFiles DEF Files
<1>2. CASE used = {}
  BY <1>2 DEF NextSequence
<1>3. CASE used # {}
  <2> HIDE DEF used
  <2>1. \E n \in used : \A k \in used : k <= n
    <3>1. used \subseteq 0..MaxFiles /\ MaxFiles \in Nat
      BY <1>1, BoundsAssumption
    <3> QED BY <1>3, <3>1, GreatestMember
  <2>2. (CHOOSE n \in used : \A k \in used : k <= n) \in 1..MaxFiles
    BY <1>1, <2>1
  <2>3. NextSequence = 1 + CHOOSE n \in used : \A k \in used : k <= n
    BY <1>3 DEF NextSequence, used
  <2> QED BY <2>2, <2>3, BoundsAssumption
<1> QED BY <1>2, <1>3

LEMMA BeginTyped ==
  ASSUME Typed, NEW p \in Committers, NEW state \in States, NEW version \in Nat,
         NEW commit \in Commit, Begin(p, state, version, commit),
         state = "planned" => commit.removes # {},
         DOMAIN content \subseteq DOMAIN content',
         commit.adds \cup commit.removes \subseteq DOMAIN content',
         \A q \in Committers \ {p} : batch'[q] = batch[q],
         p \in Appenders \cup Recorders => << p, batch'[p] >> \in Rows
  PROVE  Seated'
<1> USE DEF Begin, Typed, Seated
<1>1. pc' \in [Committers -> States] /\ ver' \in [Committers -> Nat]
  OBVIOUS
<1>2. tries' \in [Committers -> Nat] /\ job' \in [Committers -> Commit]
  OBVIOUS
<1>3. ASSUME NEW q \in Committers
      PROVE  /\ pc'[q] = "planned" => job'[q].removes # {}
             /\ job'[q].adds \cup job'[q].removes \subseteq DOMAIN content'
             /\ pc'[q] # "idle" /\ q \in Appenders \cup Recorders => << q, batch'[q] >> \in Rows
  BY <1>3
<1> QED BY <1>1, <1>2, <1>3

LEMMA ReturnTyped ==
  ASSUME Typed, NEW p \in Committers, Return(p), UNCHANGED batch,
         DOMAIN content \subseteq DOMAIN content'
  PROVE  Seated'
<1> USE DEF Return, Typed, Seated
<1>1. pc' \in [Committers -> States] /\ ver' \in [Committers -> Nat]
  BY DEF States
<1>2. tries' \in [Committers -> Nat] /\ job' \in [Committers -> Commit]
  BY EmptyIsCommit
<1>3. ASSUME NEW q \in Committers
      PROVE  /\ pc'[q] = "planned" => job'[q].removes # {}
             /\ job'[q].adds \cup job'[q].removes \subseteq DOMAIN content'
             /\ pc'[q] # "idle" /\ q \in Appenders \cup Recorders => << q, batch'[q] >> \in Rows
  BY <1>3 DEF Empty
<1> QED BY <1>1, <1>2, <1>3

(* What no step but a claim changes.                                       *)
LEMMA StoredStays ==
  ASSUME Typed, UNCHANGED << log, content >> PROVE Stored'
BY DEF Typed, Stored

(* The file a publish writes.                                              *)
LEMMA WriteFileTyped ==
  ASSUME Typed, NEW p \in Appenders \cup Recorders, NEW n \in Nat \ {0},
         NEW state \in States \ {"planned"}, NEW version \in Nat,
         WriteFile(p, n, state, version)
  PROVE  Typed'
<1>1. PICK d \in Partitions :
        /\ content' = Bind(content, << "arrived", d, Token >>, { << p, n >> })
        /\ Begin(p, state, version, [Empty EXCEPT !.adds = {<< "arrived", d, Token >>}])
  BY DEF WriteFile
<1>2. IsFiniteSet({ f \in DOMAIN content : f[1] = "arrived" })
  BY FS_Subset DEF Typed, Stored
<1>3. Token \in 1..MaxFiles
  BY <1>2, FS_CardinalityType, BoundsAssumption DEF Token, WriteFile
<1>4. << "arrived", d, Token >> \in Files /\ << p, n >> \in Rows
  BY <1>3, BoundsAssumption DEF Files, Rows, WriteFile
<1>5. DOMAIN content' = DOMAIN content \cup {<< "arrived", d, Token >>}
  BY <1>1 DEF Bind
<1>6. DOMAIN content' \subseteq Files /\ \A f \in DOMAIN content' : content'[f] \subseteq Rows
  <2>1. DOMAIN content' \subseteq Files
    BY <1>4, <1>5 DEF Typed, Stored
  <2>2. ASSUME NEW f \in DOMAIN content' PROVE content'[f] \subseteq Rows
    <3>1. content'[f] \subseteq {<< p, n >>} \/ (f \in DOMAIN content /\ content'[f] = content[f])
      BY <1>1, <1>5, <2>2 DEF Bind
    <3> QED BY <1>4, <3>1 DEF Typed, Stored
  <2> QED BY <2>1, <2>2
<1>7. IsFiniteSet(DOMAIN content')
  <2>1. IsFiniteSet(DOMAIN content)
    BY DEF Typed, Stored
  <2> QED BY <1>5, <2>1, FS_AddElement
<1>8. [Empty EXCEPT !.adds = {<< "arrived", d, Token >>}] \in Commit
  BY <1>4, EmptyIsCommit
<1>9. Seated'
  <2>1. [Empty EXCEPT !.adds = {<< "arrived", d, Token >>}].removes = {}
    BY DEF Empty
  <2>2. [Empty EXCEPT !.adds = {<< "arrived", d, Token >>}].adds = {<< "arrived", d, Token >>}
    BY DEF Empty
  <2>3. \A q \in Committers \ {p} : batch'[q] = batch[q]
    BY DEF WriteFile, Typed, TypeOK
  <2>4. << p, batch'[p] >> \in Rows
    BY <1>4 DEF WriteFile, Typed, TypeOK, Committers
  <2> QED BY <1>1, <1>5, <1>8, <2>1, <2>2, <2>3, <2>4, BeginTyped DEF Committers
<1>10. batch' \in [Committers -> Nat] /\ UNCHANGED << log, logDir, history >>
  BY DEF WriteFile, Typed, TypeOK
<1>11. Stored'
  BY <1>5, <1>6, <1>7, <1>10 DEF Stored, Typed
<1> QED BY <1>9, <1>10, <1>11 DEF Typed, TypeOK, Seated, Stored, history

(* A step that writes no file and no commit.                               *)
LEMMA OnlySeatsMove ==
  ASSUME Typed, Seated', UNCHANGED << log, logDir, content, batch, history >>
  PROVE  Typed'
BY StoredStays DEF Typed, TypeOK, Seated, history

LEMMA StartTyped ==
  ASSUME Typed, LogInv, Start PROVE Typed'
<1> USE DEF Committers
<1>1. ASSUME NEW p \in Creators, StartCreate(p) PROVE Typed'
  <2>1. Begin(p, "ready", 0, [Empty EXCEPT !.meta = {Declared}])
    BY <1>1 DEF StartCreate
  <2>2. [Empty EXCEPT !.meta = {Declared}].adds \cup [Empty EXCEPT !.meta = {Declared}].removes = {}
    BY DEF Empty
  <2>3. Seated'
    BY <1>1, <2>1, <2>2, BeginTyped, EmptyIsCommit, RolesAssumption DEF StartCreate, States
  <2> QED BY <1>1, <2>3, StoredStays DEF StartCreate, Typed, TypeOK, Seated, history
<1>2. ASSUME NEW p \in Appenders, StartAppend(p) PROVE Typed'
  <2>1. PICK version \in Versions : WriteFile(p, batch[p] + 1, "ready", version)
    BY <1>2 DEF StartAppend
  <2>2. batch[p] + 1 \in Nat \ {0} /\ version \in Nat /\ "ready" \in States \ {"planned"}
    BY BoundsAssumption DEF Typed, TypeOK, Versions, States
  <2> QED BY <2>1, <2>2, WriteFileTyped
<1>3. ASSUME NEW p \in Recorders, StartRecord(p) PROVE Typed'
  <2>1. NextVersion \in Nat /\ "written" \in States \ {"planned"}
    BY NextVersionIsNext, BoundsAssumption DEF LogInv, States
  <2>2. PICK n \in Nat \ {0} : WriteFile(p, n, "written", NextVersion)
    BY <1>3, LiveIsFiles DEF StartRecord, Metadata
  <2> QED BY <2>1, <2>2, WriteFileTyped
<1>4. ASSUME NEW p \in Evolvers, StartEvolve(p) PROVE Typed'
  <2>1. NextVersion \in Nat
    BY NextVersionIsNext, BoundsAssumption DEF LogInv
  <2>2. Begin(p, "written", NextVersion, Empty) /\ UNCHANGED << log, logDir, content, batch, history >>
    BY <1>4 DEF StartEvolve
  <2>3. Seated'
    BY <2>1, <2>2, BeginTyped, EmptyIsCommit, RolesAssumption DEF States, Empty
  <2> QED BY <2>2, <2>3, OnlySeatsMove
<1>5. ASSUME NEW p \in Mergers, Plan(p) PROVE Typed'
  <2>1. PICK inputs \in SUBSET Live :
          /\ Cardinality(inputs) >= 2
          /\ Begin(p, "planned", 0, [Empty EXCEPT !.removes = inputs])
          /\ UNCHANGED << log, logDir, content, batch, history >>
    BY <1>5 DEF Plan
  <2>2. inputs # {} /\ inputs \in SUBSET Files /\ inputs \subseteq DOMAIN content
    BY <2>1, FS_EmptySet, LiveIsFiles
  <2>3. [Empty EXCEPT !.removes = inputs].removes = inputs /\ [Empty EXCEPT !.removes = inputs].adds = {}
    BY DEF Empty
  <2>4. Seated'
    BY <2>1, <2>2, <2>3, BeginTyped, EmptyIsCommit, RolesAssumption DEF States
  <2> QED BY <2>1, <2>4, OnlySeatsMove
<1>6. ASSUME NEW p \in Mergers, Execute(p) PROVE Typed'
  <2>1. CASE Return(p) /\ UNCHANGED content
    <3>1. Seated' /\ UNCHANGED << log, logDir, content, batch, history >>
      BY <1>6, <2>1, ReturnTyped DEF Execute
    <3> QED BY <3>1, OnlySeatsMove
  <2>2. CASE ~(Return(p) /\ UNCHANGED content)
    <3>1. /\ content' = Bind(content, OutputOf(p), RowsOf(job[p].removes))
          /\ job' = [job EXCEPT ![p].adds = {OutputOf(p)}]
          /\ pc' = [pc EXCEPT ![p] = "executed"] /\ pc[p] = "planned"
          /\ UNCHANGED << ver, tries, log, logDir, batch, acked, widened, expired >>
      BY <1>6, <2>2 DEF Execute, history
    <3>2. job[p].removes # {} /\ job[p].removes \subseteq Files /\ job[p].removes \subseteq DOMAIN content
      BY <3>1 DEF Typed, Seated, Commit
    <3>3. OutputOf(p) \in Files
      BY <1>6, <3>2, SequenceIsNat, BoundsAssumption DEF Execute, OutputOf, Files
    <3>4. RowsOf(job[p].removes) \subseteq Rows
      BY <3>2 DEF RowsOf, Typed, Stored
    <3>5. DOMAIN content' = DOMAIN content \cup {OutputOf(p)}
      BY <3>1 DEF Bind
    <3>6. Stored'
      <4>1. IsFiniteSet(DOMAIN content')
        BY <3>5, FS_AddElement DEF Typed, Stored
      <4>2. ASSUME NEW f \in DOMAIN content' PROVE content'[f] \subseteq Rows /\ f \in Files
        BY <3>1, <3>3, <3>4, <3>5 DEF Bind, Typed, Stored
      <4> QED BY <3>1, <3>5, <4>1, <4>2 DEF Typed, Stored
    <3>7. Seated'
      <4>1. job' \in [Committers -> Commit]
        BY <3>1, <3>3 DEF Typed, Seated, Commit
      <4>2. pc' \in [Committers -> States] /\ ver' \in [Committers -> Nat] /\ tries' \in [Committers -> Nat]
        BY <3>1 DEF Typed, Seated, States
      <4>3. ASSUME NEW q \in Committers
            PROVE  /\ pc'[q] = "planned" => job'[q].removes # {}
                   /\ job'[q].adds \cup job'[q].removes \subseteq DOMAIN content'
                   /\ pc'[q] # "idle" /\ q \in Appenders \cup Recorders => << q, batch'[q] >> \in Rows
        BY <3>1, <3>2, <3>5 DEF Typed, Seated
      <4> QED BY <4>1, <4>2, <4>3 DEF Seated
    <3> QED BY <3>1, <3>6, <3>7 DEF Typed, TypeOK, Seated, Stored
  <2> QED BY <2>1, <2>2
<1>7. ASSUME NEW p \in Mergers, ReadVersion(p) PROVE Typed'
  <2>1. NextVersion \in Nat
    BY NextVersionIsNext, BoundsAssumption DEF LogInv
  <2>2. Seated'
    BY <1>7, <2>1 DEF ReadVersion, Typed, Seated, States
  <2> QED BY <1>7, <2>2, OnlySeatsMove DEF ReadVersion
<1>8. ASSUME NEW p \in Expirers, StartExpiry(p) PROVE Typed'
  <2>1. PICK aged \in SUBSET Live :
          /\ Begin(p, "ready", NextVersion, [Empty EXCEPT !.removes = aged])
          /\ UNCHANGED << log, logDir, content, batch, history >>
    BY <1>8 DEF StartExpiry
  <2>2. NextVersion \in Nat /\ aged \in SUBSET Files /\ aged \subseteq DOMAIN content
    BY NextVersionIsNext, BoundsAssumption, LiveIsFiles DEF LogInv
  <2>3. [Empty EXCEPT !.removes = aged].removes = aged /\ [Empty EXCEPT !.removes = aged].adds = {}
    BY DEF Empty
  <2>4. Seated'
    BY <2>1, <2>2, <2>3, BeginTyped, EmptyIsCommit, RolesAssumption DEF States
  <2> QED BY <2>1, <2>4, OnlySeatsMove
<1> QED BY <1>1, <1>2, <1>3, <1>4, <1>5, <1>6, <1>7, <1>8 DEF Start

(* What a claim leaves.                                                    *)
LEMMA ClaimTyped ==
  ASSUME Typed, LogInv, NEW p \in Committers, Claim(p) PROVE Typed'
<1>1. CASE log' = log /\ UNCHANGED history
  <2>1. UNCHANGED << log, logDir, content, batch, history >>
    BY <1>1 DEF Claim
  <2>2. CASE Return(p)
    BY <2>1, <2>2, ReturnTyped, OnlySeatsMove
  <2>3. CASE ~Return(p)
    <3>1. Seated'
      BY <2>3, <2>1 DEF Claim, Typed, Seated, States
    <3> QED BY <2>1, <3>1, OnlySeatsMove
  <2> QED BY <2>2, <2>3
<1>2. CASE ~(log' = log /\ UNCHANGED history)
  <2>1. /\ Claimed(p) /\ Return(p) /\ UNCHANGED << logDir, content, batch >>
        /\ expired' = expired \cup (IF p \in Expirers THEN RowsOf(job[p].removes) ELSE {})
        /\ Acknowledge(p) \/ UNCHANGED << acked, widened >>
    BY <1>2 DEF Claim, Claimed, Exists
  <2>2. Seated'
    BY <2>1, ReturnTyped
  <2>3. \A v \in DOMAIN log' : log'[v] \in Commit /\ log'[v].adds \subseteq DOMAIN content
    <3>1. job[p] \in Commit /\ job[p].adds \subseteq DOMAIN content
      BY DEF Typed, Seated
    <3>2. /\ DOMAIN log' = DOMAIN log \cup {ver[p]} /\ log'[ver[p]] = job[p]
          /\ \A u \in DOMAIN log : log'[u] = log[u]
      BY <2>1, ClaimIsLast
    <3> QED BY <3>1, <3>2 DEF Typed, TypeOK, Stored
  <2>4. DOMAIN log' \subseteq Versions
    BY <2>1, ClaimIsLast DEF Typed, TypeOK
  <2>5. expired' \subseteq Rows
    <3>1. RowsOf(job[p].removes) \subseteq Rows
      BY DEF RowsOf, Typed, Seated, Stored
    <3> QED BY <2>1, <3>1 DEF Typed, TypeOK
  <2>6. acked' \subseteq Rows /\ widened' \in Nat
    <3>1. CASE UNCHANGED << acked, widened >>
      BY <3>1 DEF Typed, TypeOK
    <3>2. CASE Acknowledge(p)
      BY <2>1, <3>2 DEF Acknowledge, Typed, TypeOK, Seated, Claimed
    <3> QED BY <2>1, <3>1, <3>2
  <2> QED BY <2>1, <2>2, <2>3, <2>4, <2>5, <2>6 DEF Typed, TypeOK, Seated, Stored
<1> QED BY <1>1, <1>2

LEMMA ReadMetadataTyped ==
  ASSUME Typed, NEW p \in Recorders \cup Evolvers, ReadMetadata(p) PROVE Typed'
<1> USE DEF Committers
<1>1. CASE Return(p)
  BY <1>1, ReturnTyped, OnlySeatsMove DEF ReadMetadata
<1>2. CASE ~Return(p)
  <2>1. PICK now \in CurrentMetadata :
          /\ pc' = [pc EXCEPT ![p] = "ready"]
          /\ job' = [job EXCEPT ![p].meta =
                      { IF p \in Recorders THEN [now EXCEPT !.position[p] = batch[p]]
                                           ELSE [now EXCEPT !.schema = @ + 1] }]
          /\ UNCHANGED << ver, tries >>
          /\ pc[p] = "written"
    BY <1>2 DEF ReadMetadata
  <2>2. now \in Metadata
    BY LiveIsFiles
  <2>3. batch[p] \in Nat
    BY DEF Typed, TypeOK
  <2>4. { IF p \in Recorders THEN [now EXCEPT !.position[p] = batch[p]]
                             ELSE [now EXCEPT !.schema = @ + 1] } \subseteq Metadata
    BY <2>2, <2>3 DEF Metadata
  <2>5. job' \in [Committers -> Commit]
    BY <2>1, <2>4 DEF Typed, Seated, Commit
  <2>6. UNCHANGED << log, logDir, content, batch, history >>
    BY DEF ReadMetadata
  <2>7. pc' \in [Committers -> States] /\ ver' \in [Committers -> Nat] /\ tries' \in [Committers -> Nat]
    BY <2>1 DEF Typed, Seated, States
  <2>8. ASSUME NEW q \in Committers
        PROVE  /\ pc'[q] = "planned" => job'[q].removes # {}
               /\ job'[q].adds \cup job'[q].removes \subseteq DOMAIN content'
               /\ pc'[q] # "idle" /\ q \in Appenders \cup Recorders => << q, batch'[q] >> \in Rows
    BY <2>1, <2>6 DEF Typed, Seated
  <2>9. Seated'
    BY <2>5, <2>7, <2>8 DEF Seated
  <2> QED BY <2>6, <2>9, OnlySeatsMove
<1> QED BY <1>1, <1>2

LEMMA TypedNext ==
  ASSUME Typed, LogInv, [Next]_vars PROVE Typed'
<1>1. ASSUME NEW p \in Committers, Probe(p) PROVE Typed'
  <2>1. UNCHANGED << log, logDir, content, batch, history >>
    BY <1>1 DEF Probe
  <2>2. CASE Return(p)
    BY <2>1, <2>2, ReturnTyped, OnlySeatsMove
  <2>3. CASE ~Return(p)
    <3>1. Seated'
      BY <1>1, <2>1, <2>3 DEF Probe, Typed, Seated, States
    <3> QED BY <2>1, <3>1, OnlySeatsMove
  <2> QED BY <2>2, <2>3
<1>2. ASSUME NEW p \in Committers, Rebase(p) PROVE Typed'
  <2>1. NextVersion \in Nat
    BY NextVersionIsNext, BoundsAssumption DEF LogInv
  <2>2. Seated'
    BY <1>2, <2>1 DEF Rebase, Typed, Seated, States
  <2> QED BY <1>2, <2>2, OnlySeatsMove DEF Rebase
<1>3. ASSUME NEW p \in Committers, GiveUp(p) \/ Fail(p) PROVE Typed'
  <2>1. Return(p) /\ UNCHANGED << log, logDir, content, batch, history >>
    BY <1>3 DEF GiveUp, Fail
  <2> QED BY <2>1, ReturnTyped, OnlySeatsMove
<1>4. CASE UNCHANGED vars
  BY <1>4 DEF vars, committer, history, Typed, TypeOK, Seated, Stored
<1> QED
  BY <1>1, <1>2, <1>3, <1>4, StartTyped, ReadMetadataTyped, ClaimTyped DEF Next

LEMMA TypedInit == Init => Typed
<1> SUFFICES ASSUME Init PROVE Typed
  OBVIOUS
<1> USE DEF Init
<1>1. \A v \in DOMAIN log : log[v] \in Commit /\ log[v].adds = {} /\ v = 0
  BY EmptyIsCommit DEF Empty
<1>2. DOMAIN log \subseteq Versions
  BY <1>1, BoundsAssumption DEF Versions
<1>3. Seated
  BY EmptyIsCommit DEF Seated, States, Empty
<1>4. Stored
  BY <1>1, FS_EmptySet DEF Stored
<1> QED BY <1>1, <1>2, <1>3, <1>4 DEF Typed, TypeOK, Seated, Stored

(* Every variable keeps its type, and no action names a file that was not  *)
(* written.  log.rs, publish.rs and service.rs.                            *)
THEOREM TypesHold == Spec => []TypeOK
<1>1. Typed => TypeOK
  BY DEF Typed
<1> QED BY <1>1, TypedInit, TypedNext, LogInvInit, LogInvNext, PTL DEF Spec

-----------------------------------------------------------------------------
(* The invariant.  The files the log ever added, and the rows it took in.  *)
EverLive == UNION { log[v].adds : v \in DOMAIN log }
Kept == RowsOf(Live) \cup expired

(* A committer whose version is free: what it read of the log is still so. *)
Free(p) == pc[p] \in { "ready", "probed" } /\ ver[p] \notin DOMAIN log

(* The version before its own exists, whatever it is about to do with it.  *)
Behind(p) ==
  pc[p] \in { "written", "ready", "probed" } => (ver[p] > 0 => ver[p] - 1 \in DOMAIN log)

(* What ReadMetadata makes of the metadata it finds.                       *)
Changed(p, now) ==
  IF p \in Recorders THEN [now EXCEPT !.position[p] = batch[p]]
                     ELSE [now EXCEPT !.schema = @ + 1]

CarriesMetadata(p) ==
  /\ Behind(p)
  /\ Free(p) => \E now \in CurrentMetadata : job[p].meta = {Changed(p, now)}

CarriesFile(p) ==
  \E f \in DOMAIN content :
    job[p].adds = {f} /\ job[p].removes = {} /\ content[f] = {<< p, batch[p] >>}

(* A feed's batch is the one after its position.                           *)
NextInLine(p) ==
  /\ CurrentMetadata = {} => batch[p] = 1
  /\ \A now \in CurrentMetadata : batch[p] = now.position[p] + 1

Creating(p)  == job[p] = [Empty EXCEPT !.meta = {Declared}] /\ ver[p] = 0
Appending(p) == CarriesFile(p) /\ job[p].meta = {} /\ << p, batch[p] >> \notin Kept
Recording(p) == CarriesFile(p) /\ NextInLine(p) /\ CarriesMetadata(p)
Evolving(p)  == job[p].adds = {} /\ job[p].removes = {} /\ CarriesMetadata(p)

(* A merge holds the rows of its inputs, and no other live file does.      *)
Merging(p) ==
  /\ job[p].meta = {}
  /\ job[p].removes # {} /\ job[p].removes \subseteq EverLive
  /\ \A g \in Live \ job[p].removes : content[g] \cap RowsOf(job[p].removes) = {}
  /\ pc[p] = "planned" => job[p].adds = {}
  /\ pc[p] # "planned" =>
       \E out \in DOMAIN content \ job[p].removes :
         job[p].adds = {out} /\ content[out] = RowsOf(job[p].removes)

(* An expiry holds a whole partition, as long as its version is free.      *)
Expiring(p) ==
  /\ Behind(p)
  /\ job[p].meta = {} /\ job[p].adds = {}
  /\ job[p].removes # {} /\ job[p].removes \subseteq EverLive
  /\ Free(p) => \E d \in Partitions : job[p].removes = { f \in Live : f[2] = d }

Engaged(p) ==
  pc[p] # "idle" =>
    /\ p \in Creators  => Creating(p)
    /\ p \in Appenders => Appending(p)
    /\ p \in Recorders => Recording(p)
    /\ p \in Evolvers  => Evolving(p)
    /\ p \in Mergers   => Merging(p)
    /\ p \in Expirers  => Expiring(p)

(* A file name is new: a publish counts its token, a merge looks.          *)
TokensTaken == \A f \in DOMAIN content : f[1] = "arrived" => f[3] < Token

(* An appender counts its batches and never goes back.                     *)
BatchesCounted ==
  \A p \in Appenders : \A row \in Kept : row[1] = p => row[2] <= batch[p]

Apart == \A f, g \in Live : f # g => content[f] \cap content[g] = {}

Whole ==
  /\ TokensTaken
  /\ \A f \in EverLive : content[f] \subseteq Kept
  /\ acked \subseteq Kept
  /\ DOMAIN log = {} => expired = {} /\ widened = 0
  /\ BatchesCounted
  /\ Apart
  /\ PositionMatchesRows

RowsInv == Whole /\ \A p \in Committers : Engaged(p)

-----------------------------------------------------------------------------
(* A step of one committer that commits nothing: what is on disk stays,    *)
(* and so do the log, its history and everybody else.                      *)
Quiet(p) ==
  /\ log' = log /\ UNCHANGED history
  /\ DOMAIN content \subseteq DOMAIN content'
  /\ \A f \in DOMAIN content : content'[f] = content[f]
  /\ \A q \in Committers \ {p} :
       pc'[q] = pc[q] /\ ver'[q] = ver[q] /\ job'[q] = job[q] /\ batch'[q] = batch[q]

LEMMA QuietReads ==
  ASSUME Typed, NEW p \in Committers, Quiet(p)
  PROVE  /\ Live' = Live /\ EverLive' = EverLive /\ CurrentMetadata' = CurrentMetadata
         /\ Kept' = Kept
         /\ \A fs \in SUBSET DOMAIN content : RowsOf(fs)' = RowsOf(fs)
<1>1. Live' = Live /\ EverLive' = EverLive /\ CurrentMetadata' = CurrentMetadata
  BY DEF Quiet, Live, EverLive, CurrentMetadata, Declaring
<1>2. ASSUME NEW fs \in SUBSET DOMAIN content PROVE RowsOf(fs)' = RowsOf(fs)
  BY DEF Quiet, RowsOf
<1>3. RowsOf(Live)' = RowsOf(Live)
  <2>1. RowsOf(Live)' = UNION { content'[f] : f \in Live }
    BY <1>1 DEF RowsOf
  <2> QED BY <2>1, LiveIsFiles DEF RowsOf, Quiet
<1> QED BY <1>1, <1>2, <1>3 DEF Kept, Quiet, history

LEMMA QuietWhole ==
  ASSUME Typed, Whole, NEW p \in Committers, Quiet(p), TokensTaken',
         p \in Appenders => batch'[p] >= batch[p], batch' \in [Committers -> Nat]
  PROVE  Whole'
<1>1. /\ Live' = Live /\ EverLive' = EverLive /\ CurrentMetadata' = CurrentMetadata
      /\ Kept' = Kept
  BY QuietReads
<1>2. /\ log' = log /\ acked' = acked /\ expired' = expired /\ widened' = widened
      /\ \A f \in DOMAIN content : content'[f] = content[f]
  BY DEF Quiet, history
<1>3. (\A f \in EverLive : content[f] \subseteq Kept)'
  BY <1>1, <1>2 DEF Whole, EverLive, Typed, Stored
<1>4. Apart'
  BY <1>1, <1>2, LiveIsFiles DEF Whole, Apart
<1>5. BatchesCounted'
  <2>1. ASSUME NEW a \in Appenders, NEW row \in Kept, row[1] = a PROVE row[2] <= batch'[a]
    <3>1. row[2] <= batch[a] /\ row \in Rows
      BY <2>1 DEF Whole, BatchesCounted, Kept, RowsOf, Typed, TypeOK, Stored, Live, LiveIn
    <3>2. batch'[a] >= batch[a]
      BY DEF Quiet, Typed, TypeOK, Committers
    <3>3. row[2] \in Nat /\ batch[a] \in Nat /\ batch'[a] \in Nat
      BY <3>1, BoundsAssumption DEF Rows, Typed, TypeOK, Committers
    <3> QED BY <3>1, <3>2, <3>3
  <2> QED BY <1>1, <2>1 DEF BatchesCounted
<1>6. PositionMatchesRows'
  BY <1>1, <1>2 DEF Whole, PositionMatchesRows, Kept
<1> QED BY <1>1, <1>2, <1>3, <1>4, <1>5, <1>6 DEF Whole

LEMMA QuietOthers ==
  ASSUME Typed, NEW p \in Committers, Quiet(p), NEW q \in Committers \ {p}, Engaged(q)
  PROVE  Engaged(q)'
<1>1. /\ Live' = Live /\ EverLive' = EverLive /\ CurrentMetadata' = CurrentMetadata
      /\ Kept' = Kept
  BY QuietReads
<1>2. /\ log' = log /\ pc'[q] = pc[q] /\ ver'[q] = ver[q] /\ job'[q] = job[q] /\ batch'[q] = batch[q]
      /\ DOMAIN content \subseteq DOMAIN content'
      /\ \A f \in DOMAIN content : content'[f] = content[f]
  BY DEF Quiet
<1>3. RowsOf(job[q].removes)' = RowsOf(job[q].removes)
  BY <1>2 DEF RowsOf, Typed, Seated
<1>4. /\ Free(q)' = Free(q) /\ Behind(q)' = Behind(q)
      /\ \A now : Changed(q, now)' = Changed(q, now)
  BY <1>2 DEF Free, Behind, Changed
<1>5. CASE pc[q] = "idle"
  BY <1>2, <1>5 DEF Engaged
<1>6. CASE pc[q] # "idle"
  <2>1. CarriesFile(q) => CarriesFile(q)'
    BY <1>2 DEF CarriesFile
  <2>2. CarriesMetadata(q) => CarriesMetadata(q)'
    BY <1>1, <1>2, <1>4 DEF CarriesMetadata, Changed
  <2>3. Creating(q) => Creating(q)'
    BY <1>2 DEF Creating
  <2>4. Appending(q) => Appending(q)'
    BY <1>1, <1>2, <2>1 DEF Appending
  <2>5. Recording(q) => Recording(q)'
    BY <1>1, <1>2, <2>1, <2>2 DEF Recording, NextInLine
  <2>6. Evolving(q) => Evolving(q)'
    BY <1>2, <2>2 DEF Evolving
  <2>7. Merging(q) => Merging(q)'
    BY <1>1, <1>2, <1>3, LiveIsFiles DEF Merging
  <2>8. Expiring(q) => Expiring(q)'
    BY <1>1, <1>2, <1>4 DEF Expiring
  <2> QED BY <1>6, <1>2, <2>3, <2>4, <2>5, <2>6, <2>7, <2>8 DEF Engaged
<1> QED BY <1>5, <1>6

-----------------------------------------------------------------------------
(* A claim.                                                                *)
Commits(p) ==
  /\ Claimed(p) /\ UNCHANGED << content, batch >>
  /\ expired' = expired \cup (IF p \in Expirers THEN RowsOf(job[p].removes) ELSE {})
  /\ pc' = [pc EXCEPT ![p] = "idle"]
  /\ \A q \in Committers \ {p} : ver'[q] = ver[q] /\ job'[q] = job[q]

Publishes(p) == p \in Appenders \cup Recorders

(* What a feed commits is the next batch after the position it commits.    *)
LEMMA RecordsNext ==
  ASSUME Typed, RowsInv, NEW p \in Recorders, Claimed(p)
  PROVE  \E now \in CurrentMetadata :
           /\ job[p].meta = {[now EXCEPT !.position[p] = batch[p]]}
           /\ batch[p] = now.position[p] + 1
<1>1. pc[p] = "probed" /\ Free(p) /\ p \in Committers
  BY DEF Claimed, Free, Committers
<1>2. Recording(p)
  BY <1>1 DEF RowsInv, Engaged
<1> QED BY <1>1, <1>2 DEF Recording, NextInLine, CarriesMetadata, Changed

(* The row a publish brings is not in the table yet.                       *)
LEMMA RowIsNew ==
  ASSUME Typed, RowsInv, NEW p \in Committers, Claimed(p), Publishes(p)
  PROVE  << p, batch[p] >> \notin Kept
<1>1. CASE p \in Appenders
  BY <1>1 DEF RowsInv, Engaged, Claimed, Appending
<1>2. CASE p \in Recorders
  <2>1. PICK now \in CurrentMetadata : batch[p] = now.position[p] + 1
    BY <1>2, RecordsNext
  <2>2. now.position[p] \in Nat
    BY <1>2, LiveIsFiles DEF Metadata
  <2>3. { row \in Kept : row[1] = p } = { << p, n >> : n \in 1..now.position[p] }
    BY <1>2 DEF RowsInv, Whole, PositionMatchesRows, Kept
  <2>4. ASSUME << p, batch[p] >> \in Kept PROVE FALSE
    <3>1. << p, batch[p] >> \in { << p, n >> : n \in 1..now.position[p] }
      BY <2>3, <2>4
    <3>2. PICK n \in 1..now.position[p] : << p, batch[p] >> = << p, n >>
      BY <3>1
    <3> QED BY <2>1, <2>2, <3>2
  <2> QED BY <2>4
<1> QED BY <1>1, <1>2 DEF Publishes

LEMMA KeptAfterClaim ==
  ASSUME Typed, LogInv, RowsInv, NEW p \in Committers, Commits(p)
  PROVE  Kept' = Kept \cup (IF Publishes(p) THEN {<< p, batch[p] >>} ELSE {})
<1>1. /\ Live' = (Live \cup job[p].adds) \ job[p].removes
      /\ content' = content /\ pc[p] = "probed"
  BY LiveAfterClaim DEF Commits, Claimed
<1>2. Kept' = (UNION { content[f] : f \in (Live \cup job[p].adds) \ job[p].removes }) \cup expired'
  BY <1>1 DEF Kept, RowsOf
<1>3. Kept = (UNION { content[f] : f \in Live }) \cup expired
  BY DEF Kept, RowsOf
<1>4. \A f \in EverLive : content[f] \subseteq Kept
  BY DEF RowsInv, Whole
<1>5. Engaged(p)
  BY DEF RowsInv
<1>6. CASE Publishes(p)
  <2>1. CarriesFile(p)
    BY <1>1, <1>5, <1>6 DEF Engaged, Publishes, Appending, Recording
  <2>2. expired' = expired
    BY <1>6, RolesAssumption DEF Commits, Publishes
  <2> QED BY <1>2, <1>3, <1>6, <2>1, <2>2 DEF CarriesFile
<1>7. CASE p \in Creators \cup Evolvers
  <2>1. job[p].adds = {} /\ job[p].removes = {}
    BY <1>1, <1>5, <1>7 DEF Engaged, Creating, Evolving, Empty
  <2>2. expired' = expired /\ ~Publishes(p)
    BY <1>7, RolesAssumption DEF Commits, Publishes
  <2> QED BY <1>2, <1>3, <2>1, <2>2
<1>8. CASE p \in Mergers
  <2>1. Merging(p)
    BY <1>1, <1>5, <1>8 DEF Engaged
  <2>2. PICK out \in DOMAIN content \ job[p].removes :
          job[p].adds = {out} /\ content[out] = UNION { content[f] : f \in job[p].removes }
    BY <1>1, <2>1 DEF Merging, RowsOf
  <2>3. expired' = expired /\ ~Publishes(p)
    BY <1>8, RolesAssumption DEF Commits, Publishes
  <2>4. \A f \in job[p].removes : content[f] \subseteq Kept
    BY <1>4, <2>1 DEF Merging
  <2>5. Kept' \subseteq Kept
    BY <1>2, <1>3, <2>2, <2>3, <2>4
  <2>6. Kept \subseteq Kept'
    BY <1>2, <1>3, <2>2, <2>3
  <2> QED BY <2>3, <2>5, <2>6
<1>9. CASE p \in Expirers
  <2>1. Expiring(p)
    BY <1>1, <1>5, <1>9 DEF Engaged
  <2>2. expired' = expired \cup UNION { content[f] : f \in job[p].removes } /\ ~Publishes(p)
    BY <1>9, RolesAssumption DEF Commits, Publishes, RowsOf
  <2>3. \A f \in job[p].removes : content[f] \subseteq Kept
    BY <1>4, <2>1 DEF Expiring
  <2>4. job[p].adds = {}
    BY <2>1 DEF Expiring
  <2>5. Kept' \subseteq Kept
    BY <1>2, <1>3, <2>2, <2>3, <2>4
  <2>6. Kept \subseteq Kept'
    BY <1>2, <1>3, <2>2, <2>4
  <2> QED BY <2>2, <2>5, <2>6
<1> QED BY <1>6, <1>7, <1>8, <1>9 DEF Committers, Publishes

LEMMA EverLiveAfterClaim ==
  ASSUME LogInv, NEW p \in Committers, Claimed(p)
  PROVE  EverLive' = EverLive \cup job[p].adds
<1>1. /\ DOMAIN log' = DOMAIN log \cup {ver[p]} /\ log'[ver[p]] = job[p]
      /\ \A u \in DOMAIN log : log'[u] = log[u]
  BY ClaimIsLast
<1>2. ASSUME NEW f PROVE f \in EverLive' <=> f \in EverLive \cup job[p].adds
  <2>1. f \in EverLive <=> \E v \in DOMAIN log : f \in log[v].adds
    BY DEF EverLive
  <2>2. f \in EverLive' <=> \E v \in DOMAIN log' : f \in log'[v].adds
    BY DEF EverLive
  <2> QED BY <1>1, <2>1, <2>2
<1> QED BY <1>2

(* What a claim adds holds rows that are kept and that no file it leaves   *)
(* holds too.                                                              *)
LEMMA ClaimAdds ==
  ASSUME Typed, LogInv, RowsInv, NEW p \in Committers, Commits(p)
  PROVE  /\ \A f, g \in job[p].adds : f = g
         /\ \A f \in job[p].adds :
              /\ f \in DOMAIN content /\ content[f] \subseteq Kept'
              /\ \A g \in Live \ job[p].removes : content[g] \cap content[f] = {}
         /\ job[p].adds # {} => p \in Appenders \cup Recorders \cup Mergers
         /\ Publishes(p) => \A f \in job[p].adds : content[f] = {<< p, batch[p] >>}
<1>1. pc[p] = "probed" /\ Engaged(p)
  BY DEF Commits, Claimed, RowsInv
<1>2. Kept' = Kept \cup (IF Publishes(p) THEN {<< p, batch[p] >>} ELSE {})
  BY KeptAfterClaim
<1>3. \A g \in Live : content[g] \subseteq Kept
  BY DEF Kept, RowsOf
<1>4. CASE Publishes(p)
  <2>1. PICK f \in DOMAIN content : job[p].adds = {f} /\ content[f] = {<< p, batch[p] >>}
    BY <1>1, <1>4 DEF Engaged, Publishes, Appending, Recording, CarriesFile
  <2>2. << p, batch[p] >> \notin Kept
    BY <1>4, RowIsNew DEF Commits
  <2> QED BY <1>2, <1>3, <1>4, <2>1, <2>2 DEF Publishes
<1>5. CASE p \in Mergers
  <2>1. Merging(p)
    BY <1>1, <1>5 DEF Engaged
  <2>2. PICK out \in DOMAIN content :
          job[p].adds = {out} /\ content[out] = RowsOf(job[p].removes)
    BY <1>1, <2>1 DEF Merging
  <2>3. RowsOf(job[p].removes) \subseteq Kept
    BY <2>1 DEF Merging, RowsInv, Whole, RowsOf
  <2>4. ~Publishes(p)
    BY <1>5, RolesAssumption DEF Publishes
  <2> QED BY <1>2, <1>5, <2>1, <2>2, <2>3, <2>4 DEF Merging
<1>6. CASE p \in Creators \cup Evolvers \cup Expirers
  BY <1>1, <1>6, RolesAssumption DEF Engaged, Creating, Evolving, Expiring, Empty, Publishes
<1> QED BY <1>4, <1>5, <1>6 DEF Committers, Publishes

LEMMA ClaimApart ==
  ASSUME Typed, LogInv, RowsInv, NEW p \in Committers, Commits(p)
  PROVE  Apart'
<1>1. Live' = (Live \cup job[p].adds) \ job[p].removes /\ content' = content
  BY LiveAfterClaim DEF Commits
<1>2. ASSUME NEW f \in Live', NEW g \in Live', f # g PROVE content[f] \cap content[g] = {}
  <2>1. CASE f \in job[p].adds /\ g \in job[p].adds
    BY <1>2, <2>1, ClaimAdds
  <2>2. CASE f \in job[p].adds /\ g \notin job[p].adds
    <3>1. g \in Live \ job[p].removes
      BY <1>1, <1>2, <2>2
    <3> QED BY <2>2, <3>1, ClaimAdds
  <2>3. CASE f \notin job[p].adds /\ g \in job[p].adds
    <3>1. f \in Live \ job[p].removes
      BY <1>1, <1>2, <2>3
    <3> QED BY <2>3, <3>1, ClaimAdds
  <2>4. CASE f \notin job[p].adds /\ g \notin job[p].adds
    BY <1>1, <1>2, <2>4 DEF RowsInv, Whole, Apart
  <2> QED BY <2>1, <2>2, <2>3, <2>4
<1> QED BY <1>1, <1>2 DEF Apart

(* Only the first commit of a log can be a creator's.                      *)
LEMMA CreatesFirst ==
  ASSUME Typed, LogInv, RowsInv, NEW p \in Creators, Claimed(p)
  PROVE  DOMAIN log = {} /\ job[p].meta = {Declared} /\ CurrentMetadata = {} /\ Live = {}
<1>1. p \in Committers /\ pc[p] = "probed"
  BY DEF Claimed, Committers
<1>2. job[p] = [Empty EXCEPT !.meta = {Declared}] /\ ver[p] = 0
  BY <1>1 DEF RowsInv, Engaged, Creating
<1>3. DOMAIN log = {}
  <2> SUFFICES ASSUME NEW u \in DOMAIN log PROVE FALSE
    OBVIOUS
  <2>1. u < 0 /\ u \in 0..MaxVersion
    BY <1>1, <1>2, ClaimIsLast DEF LogInv, Versions
  <2> QED BY <2>1, BoundsAssumption
<1> QED BY <1>2, <1>3 DEF Empty, CurrentMetadata, Declaring, Live, LiveIn

Told(p) == Acknowledge(p) \/ UNCHANGED << acked, widened >>

LEMMA ClaimPosition ==
  ASSUME Typed, LogInv, RowsInv, NEW p \in Committers, Commits(p), Told(p)
  PROVE  PositionMatchesRows'
<1>1. /\ CurrentMetadata' = IF job[p].meta = {} THEN CurrentMetadata ELSE job[p].meta
      /\ Kept' = Kept \cup (IF Publishes(p) THEN {<< p, batch[p] >>} ELSE {})
      /\ pc[p] = "probed" /\ Engaged(p) /\ Free(p) /\ Claimed(p)
  BY MetadataAfterClaim, KeptAfterClaim DEF Commits, Claimed, RowsInv, Free
<1>2. \A now \in CurrentMetadata :
        /\ now \in Metadata
        /\ \A r \in Recorders :
             { row \in Kept : row[1] = r } = { << r, n >> : n \in 1..now.position[r] }
        /\ now.schema >= widened
  BY LiveIsFiles DEF RowsInv, Whole, PositionMatchesRows, Kept
<1>3. widened' = widened \/ (p \in Evolvers /\ widened' = widened + 1)
  <2>1. CASE Acknowledge(p)
    BY <2>1 DEF Acknowledge, Typed, TypeOK
  <2> QED BY <2>1 DEF Told
<1>4. SUFFICES ASSUME NEW now \in CurrentMetadata'
               PROVE  /\ \A r \in Recorders :
                           { row \in Kept' : row[1] = r } = { << r, n >> : n \in 1..now.position[r] }
                      /\ now.schema >= widened'
  BY DEF PositionMatchesRows, Kept
<1>5. CASE p \in Creators
  <2>1. Kept' = {} /\ now = Declared /\ widened' = 0
    <3>1. ~Publishes(p) /\ p \notin Evolvers
      BY <1>5, RolesAssumption DEF Publishes
    <3>2. Kept = {} /\ widened = 0
      BY <1>1, <1>5, CreatesFirst DEF RowsInv, Whole, Kept, RowsOf
    <3> QED BY <1>1, <1>3, <1>5, <3>1, <3>2, CreatesFirst
  <2> QED BY <2>1 DEF Declared
<1>6. CASE p \in Appenders
  <2>1. now \in CurrentMetadata /\ p \notin Recorders /\ widened' = widened
    BY <1>1, <1>3, <1>6, RolesAssumption DEF Engaged, Appending
  <2>2. \A r \in Recorders : { row \in Kept' : row[1] = r } = { row \in Kept : row[1] = r }
    BY <1>1, <2>1
  <2> QED BY <1>2, <2>1, <2>2
<1>7. CASE p \in Recorders
  <2>1. PICK old \in CurrentMetadata :
          /\ job[p].meta = {[old EXCEPT !.position[p] = batch[p]]}
          /\ batch[p] = old.position[p] + 1
    BY <1>1, <1>7, RecordsNext
  <2>2. /\ now = [old EXCEPT !.position[p] = batch[p]] /\ old \in Metadata
        /\ widened' = widened /\ Publishes(p)
    BY <1>1, <1>2, <1>3, <1>7, <2>1, RolesAssumption DEF Publishes
  <2>3. now.schema = old.schema
    BY <2>2 DEF Metadata
  <2>4. ASSUME NEW r \in Recorders \ {p}
        PROVE  { row \in Kept' : row[1] = r } = { << r, n >> : n \in 1..now.position[r] }
    <3>1. now.position[r] = old.position[r]
      BY <2>2, <2>4 DEF Metadata
    <3>2. { row \in Kept' : row[1] = r } = { row \in Kept : row[1] = r }
      BY <1>1, <2>4
    <3> QED BY <1>2, <3>1, <3>2
  <2>5. { row \in Kept' : row[1] = p } = { << p, n >> : n \in 1..now.position[p] }
    <3>1. now.position[p] = old.position[p] + 1 /\ old.position[p] \in Nat
      BY <1>7, <2>1, <2>2 DEF Metadata
    <3>2. { row \in Kept' : row[1] = p } = { row \in Kept : row[1] = p } \cup {<< p, batch[p] >>}
      BY <1>1, <2>2
    <3>3. 1..now.position[p] = (1..old.position[p]) \cup {batch[p]}
      BY <2>1, <3>1
    <3>4. { row \in Kept : row[1] = p } = { << p, n >> : n \in 1..old.position[p] }
      BY <1>2, <1>7
    <3> QED BY <3>2, <3>3, <3>4
  <2> QED BY <1>2, <2>2, <2>3, <2>4, <2>5
<1>8. CASE p \in Evolvers
  <2>1. ~Publishes(p) /\ p \notin Recorders
    BY <1>8, RolesAssumption DEF Publishes
  <2>2. PICK old \in CurrentMetadata : job[p].meta = {[old EXCEPT !.schema = @ + 1]}
    BY <1>1, <1>8, <2>1 DEF Engaged, Evolving, CarriesMetadata, Changed
  <2>3. now = [old EXCEPT !.schema = @ + 1] /\ old \in Metadata
    BY <1>1, <1>2, <2>2
  <2>4. now.schema = old.schema + 1 /\ now.position = old.position /\ old.schema \in Nat
    BY <2>3 DEF Metadata
  <2>5. widened \in Nat /\ old.schema >= widened
    BY <1>2 DEF Typed, TypeOK
  <2>6. now.schema >= widened'
    BY <1>3, <2>4, <2>5
  <2> QED BY <1>1, <1>2, <2>1, <2>4, <2>6
<1>9. CASE p \in Mergers \cup Expirers
  <2>1. now \in CurrentMetadata /\ ~Publishes(p) /\ widened' = widened
    BY <1>1, <1>3, <1>9, RolesAssumption DEF Engaged, Merging, Expiring, Publishes
  <2> QED BY <1>1, <1>2, <2>1
<1> QED BY <1>5, <1>6, <1>7, <1>8, <1>9 DEF Committers

LEMMA ClaimWhole ==
  ASSUME Typed, LogInv, RowsInv, NEW p \in Committers, Commits(p), Told(p)
  PROVE  Whole'
<1>1. /\ Kept' = Kept \cup (IF Publishes(p) THEN {<< p, batch[p] >>} ELSE {})
      /\ EverLive' = EverLive \cup job[p].adds
      /\ content' = content /\ batch' = batch
  BY KeptAfterClaim, EverLiveAfterClaim DEF Commits
<1>2. TokensTaken'
  BY <1>1 DEF RowsInv, Whole, TokensTaken, Token
<1>3. \A f \in EverLive' : content'[f] \subseteq Kept'
  BY <1>1, ClaimAdds DEF RowsInv, Whole
<1>4. acked' \subseteq Kept'
  BY <1>1 DEF Told, Acknowledge, Publishes, RowsInv, Whole
<1>5. DOMAIN log' # {}
  BY ClaimIsLast DEF Commits
<1>6. BatchesCounted'
  <2>1. ASSUME NEW a \in Appenders, NEW row \in Kept', row[1] = a PROVE row[2] <= batch[a]
    <3>1. CASE row \in Kept
      BY <2>1, <3>1 DEF RowsInv, Whole, BatchesCounted
    <3>2. CASE row = << p, batch[p] >>
      BY <2>1, <3>2 DEF Typed, TypeOK
    <3> QED BY <1>1, <2>1, <3>1, <3>2
  <2> QED BY <1>1, <2>1 DEF BatchesCounted
<1> QED
  BY <1>2, <1>3, <1>4, <1>5, <1>6, ClaimApart, ClaimPosition DEF Whole

(* Whoever chose the version that another takes finds it taken.            *)
LEMMA LosersAreNotFree ==
  ASSUME Typed, LogInv, NEW p \in Committers, Claimed(p), NEW q \in Committers \ {p},
         pc'[q] = pc[q], ver'[q] = ver[q], Behind(q)
  PROVE  Behind(q)' /\ ~Free(q)'
<1>1. /\ DOMAIN log' = DOMAIN log \cup {ver[p]} /\ ver[p] \notin DOMAIN log
      /\ \A u \in DOMAIN log : u < ver[p]
      /\ ver[p] \in Nat /\ ver[q] \in Nat
      /\ ver[p] > 0 => ver[p] - 1 \in DOMAIN log
  BY ClaimIsLast DEF Claimed, LogInv, ProbedHasPredecessor, Typed, TypeOK
<1>2. Behind(q)'
  BY <1>1 DEF Behind
<1>3. ASSUME Free(q)' PROVE FALSE
  <2>1. ver[q] \notin DOMAIN log /\ ver[q] # ver[p] /\ (ver[q] > 0 => ver[q] - 1 \in DOMAIN log)
    BY <1>1, <1>3 DEF Free, Behind
  <2>2. ver[q] < ver[p]
    BY <1>1, <2>1
  <2>3. ver[p] - 1 \in DOMAIN log /\ ver[q] \in 0..(ver[p] - 1)
    BY <1>1, <2>2
  <2> QED BY <2>1, <2>3 DEF LogInv, Contiguous
<1> QED BY <1>2, <1>3

(* A claim moves nobody's position but its own.                            *)
LEMMA ClaimKeepsNext ==
  ASSUME Typed, LogInv, RowsInv, NEW p \in Committers, Commits(p),
         NEW q \in Recorders \ {p}, NextInLine(q)
  PROVE  NextInLine(q)'
<1>1. /\ CurrentMetadata' = IF job[p].meta = {} THEN CurrentMetadata ELSE job[p].meta
      /\ pc[p] = "probed" /\ Engaged(p) /\ Free(p) /\ Claimed(p) /\ batch' = batch
  BY MetadataAfterClaim DEF Commits, Claimed, RowsInv, Free
<1>2. \A now \in CurrentMetadata : now \in Metadata /\ batch[q] = now.position[q] + 1
  BY LiveIsFiles DEF NextInLine
<1>3. CASE job[p].meta = {}
  BY <1>1, <1>3 DEF NextInLine
<1>4. CASE job[p].meta # {}
  <2>1. p \in Creators \cup Recorders \cup Evolvers
    BY <1>1, <1>4 DEF Engaged, Appending, Merging, Expiring, Committers
  <2>2. SUFFICES ASSUME NEW now \in job[p].meta PROVE batch[q] = now.position[q] + 1
    BY <1>1, <1>4 DEF NextInLine
  <2>3. CASE p \in Creators
    <3>1. now = Declared /\ batch[q] = 1
      BY <1>1, <2>3, CreatesFirst DEF NextInLine
    <3> QED BY <3>1 DEF Declared
  <2>4. CASE p \in Recorders
    <3>1. PICK old \in CurrentMetadata : now = [old EXCEPT !.position[p] = batch[p]]
      BY <1>1, <2>4, RecordsNext
    <3> QED BY <1>2, <3>1 DEF Metadata
  <2>5. CASE p \in Evolvers
    <3>1. p \notin Recorders
      BY <2>5, RolesAssumption
    <3>2. PICK old \in CurrentMetadata : now = [old EXCEPT !.schema = @ + 1]
      BY <1>1, <2>5, <3>1 DEF Engaged, Evolving, CarriesMetadata, Changed
    <3> QED BY <1>2, <3>2 DEF Metadata
  <2> QED BY <2>1, <2>3, <2>4, <2>5
<1> QED BY <1>3, <1>4

(* Everybody else goes on carrying what they carry.                        *)
LEMMA ClaimOthers ==
  ASSUME Typed, LogInv, RowsInv, NEW p \in Committers, Commits(p), NEW q \in Committers \ {p}
  PROVE  Engaged(q)'
<1>1. /\ pc'[q] = pc[q] /\ ver'[q] = ver[q] /\ job'[q] = job[q]
      /\ batch' = batch /\ content' = content /\ Claimed(p)
  BY DEF Commits, Typed, TypeOK
<1>2. /\ Kept' = Kept \cup (IF Publishes(p) THEN {<< p, batch[p] >>} ELSE {})
      /\ EverLive' = EverLive \cup job[p].adds
      /\ Live' = (Live \cup job[p].adds) \ job[p].removes
  BY <1>1, KeptAfterClaim, EverLiveAfterClaim, LiveAfterClaim
<1>3. RowsOf(job[q].removes)' = RowsOf(job[q].removes)
  BY <1>1 DEF RowsOf
<1>4. Behind(q) => Behind(q)' /\ ~Free(q)'
  BY <1>1, LosersAreNotFree
<1>5. CASE pc[q] = "idle"
  BY <1>1, <1>5 DEF Engaged
<1>6. CASE pc[q] # "idle"
  <2>1. Engaged(q)
    BY DEF RowsInv
  <2>2. CarriesFile(q) => CarriesFile(q)'
    BY <1>1 DEF CarriesFile
  <2>3. CarriesMetadata(q) => CarriesMetadata(q)'
    BY <1>4 DEF CarriesMetadata
  <2>4. Creating(q) => Creating(q)'
    BY <1>1 DEF Creating
  <2>5. Appending(q) => Appending(q)'
    BY <1>1, <1>2, <2>2 DEF Appending
  <2>6. q \in Recorders /\ Recording(q) => Recording(q)'
    BY <2>2, <2>3, ClaimKeepsNext DEF Recording
  <2>7. Evolving(q) => Evolving(q)'
    BY <1>1, <2>3 DEF Evolving
  <2>8. ASSUME q \in Mergers, Merging(q) PROVE Merging(q)'
    <3>1. RowsOf(job[q].removes) \subseteq Kept
      BY <2>8 DEF Merging, RowsInv, Whole, RowsOf
    <3>2. p \notin Mergers
      BY <2>8, RolesAssumption
    <3>3. ASSUME NEW g \in Live' \ job[q].removes
          PROVE  content[g] \cap RowsOf(job[q].removes) = {}
      <4>1. CASE g \in Live
        BY <2>8, <3>3, <4>1 DEF Merging
      <4>2. CASE g \in job[p].adds
        <5>1. Publishes(p)
          BY <3>2, <4>2, ClaimAdds DEF Publishes
        <5>2. content[g] = {<< p, batch[p] >>} /\ << p, batch[p] >> \notin Kept
          BY <1>1, <4>2, <5>1, ClaimAdds, RowIsNew
        <5> QED BY <3>1, <5>2
      <4> QED BY <1>2, <3>3, <4>1, <4>2
    <3>4. job[q].removes \subseteq EverLive'
      BY <1>2, <2>8 DEF Merging
    <3> QED BY <1>1, <1>3, <2>8, <3>3, <3>4 DEF Merging
  <2>9. Expiring(q) => Expiring(q)'
    BY <1>1, <1>2, <1>4 DEF Expiring
  <2> QED
    BY <1>1, <1>6, <2>1, <2>3, <2>4, <2>5, <2>6, <2>7, <2>8, <2>9 DEF Engaged
<1> QED BY <1>5, <1>6

LEMMA CommitKeeps ==
  ASSUME Typed, LogInv, RowsInv, NEW p \in Committers, Commits(p), Told(p)
  PROVE  RowsInv'
<1>1. Engaged(p)'
  BY DEF Commits, Engaged, Typed, TypeOK
<1> QED BY <1>1, ClaimWhole, ClaimOthers DEF RowsInv

-----------------------------------------------------------------------------
(* A step that commits nothing.                                            *)
LEMMA QuietStep ==
  ASSUME Typed, Typed', RowsInv, NEW p \in Committers, Quiet(p), TokensTaken',
         p \in Appenders => batch'[p] >= batch[p], Engaged(p)'
  PROVE  RowsInv'
<1>1. Whole'
  BY QuietWhole DEF RowsInv, Typed, TypeOK
<1>2. \A q \in Committers \ {p} : Engaged(q)'
  BY QuietOthers DEF RowsInv
<1> QED BY <1>1, <1>2 DEF RowsInv

(* ... and writes nothing either.                                          *)
LEMMA MemoryStep ==
  ASSUME Typed, Typed', RowsInv, NEW p \in Committers,
         UNCHANGED << log, content, batch, history >>,
         \A q \in Committers \ {p} : pc'[q] = pc[q] /\ ver'[q] = ver[q] /\ job'[q] = job[q],
         Engaged(p)'
  PROVE  RowsInv'
<1>1. Quiet(p)
  BY DEF Quiet
<1>2. TokensTaken'
  BY DEF RowsInv, Whole, TokensTaken, Token
<1>3. batch'[p] >= batch[p]
  BY DEF Typed, TypeOK
<1> QED BY <1>1, <1>2, <1>3, QuietStep

LEMMA ReturnKeeps ==
  ASSUME Typed, Typed', RowsInv, NEW p \in Committers, Return(p),
         UNCHANGED << log, content, batch, history >>
  PROVE  RowsInv'
<1>1. Engaged(p)'
  BY DEF Return, Engaged, Typed, TypeOK
<1>2. \A q \in Committers \ {p} : pc'[q] = pc[q] /\ ver'[q] = ver[q] /\ job'[q] = job[q]
  BY DEF Return, Typed, TypeOK
<1> QED BY <1>1, <1>2, MemoryStep

(* Past the file and the metadata a committer only learns whether its      *)
(* version is free.                                                        *)
LEMMA OutcomeKeeps ==
  ASSUME Typed, Typed', RowsInv, NEW p \in Committers,
         pc[p] \in { "ready", "probed" },
         NEW outcome \in { "probed", "lost" }, pc' = [pc EXCEPT ![p] = outcome],
         UNCHANGED << log, content, ver, job, batch, history >>
  PROVE  RowsInv'
<1>1. /\ Live' = Live /\ EverLive' = EverLive /\ CurrentMetadata' = CurrentMetadata
      /\ Kept' = Kept /\ RowsOf(job[p].removes)' = RowsOf(job[p].removes)
  BY DEF Live, EverLive, CurrentMetadata, Declaring, Kept, RowsOf, history
<1>2. pc'[p] = outcome /\ \A q \in Committers \ {p} : pc'[q] = pc[q]
  BY DEF Typed, TypeOK
<1>4. (Behind(p) => Behind(p)') /\ (Free(p)' => Free(p))
  BY <1>2 DEF Behind, Free
<1>5. Engaged(p)
  BY DEF RowsInv
<1>6. CarriesFile(p) => CarriesFile(p)'
  BY DEF CarriesFile
<1>7. CarriesMetadata(p) => CarriesMetadata(p)'
  BY <1>1, <1>4 DEF CarriesMetadata, Changed
<1>8. Merging(p) => Merging(p)'
  BY <1>1, <1>2 DEF Merging
<1>9. Expiring(p) => Expiring(p)'
  BY <1>1, <1>4 DEF Expiring
<1>10. NextInLine(p) => NextInLine(p)'
  BY <1>1 DEF NextInLine
<1>11. Engaged(p)'
  BY <1>1, <1>5, <1>6, <1>7, <1>8, <1>9, <1>10
     DEF Engaged, Creating, Appending, Recording, Evolving
<1> QED BY <1>2, <1>11, MemoryStep

(* The metadata in force is one, as far as positions go.                   *)
LEMMA PositionsAgree ==
  ASSUME Typed, RowsInv, NEW r \in Recorders,
         NEW now \in CurrentMetadata, NEW other \in CurrentMetadata
  PROVE  now.position[r] = other.position[r]
<1> DEFINE a == now.position[r]
           b == other.position[r]
<1>1. a \in Nat /\ b \in Nat
  BY LiveIsFiles DEF Metadata
<1>2. { << r, n >> : n \in 1..a } = { << r, n >> : n \in 1..b }
  BY DEF RowsInv, Whole, PositionMatchesRows
<1> HIDE DEF a, b
<1>3. ASSUME NEW x \in Nat, NEW y \in Nat, x < y,
             { << r, n >> : n \in 1..x } = { << r, n >> : n \in 1..y }
      PROVE  FALSE
  <2>1. << r, y >> \in { << r, n >> : n \in 1..y }
    BY <1>3
  <2>2. PICK n \in 1..x : << r, y >> = << r, n >>
    BY <1>3, <2>1
  <2> QED BY <1>3, <2>2
<1>4. ~(a < b)
  BY <1>1, <1>2, <1>3
<1>5. ~(b < a)
  <2>1. { << r, n >> : n \in 1..b } = { << r, n >> : n \in 1..a }
    BY <1>2
  <2> QED BY <1>1, <1>3, <2>1
<1>6. a = b
  BY <1>1, <1>4, <1>5
<1> QED BY <1>6 DEF a, b

(* The file a publish writes is new, and is what it carries.               *)
LEMMA FileIsWritten ==
  ASSUME Typed, Typed', RowsInv, NEW p \in Appenders \cup Recorders, NEW n \in Nat,
         NEW state, NEW version, WriteFile(p, n, state, version)
  PROVE  /\ Quiet(p) /\ TokensTaken' /\ CarriesFile(p)'
         /\ job'[p].meta = {} /\ batch'[p] = n
         /\ pc'[p] = state /\ ver'[p] = version
<1> DEFINE file(d) == << "arrived", d, Token >>
<1>1. PICK d \in Partitions :
        /\ content' = Bind(content, file(d), { << p, n >> })
        /\ Begin(p, state, version, [Empty EXCEPT !.adds = {file(d)}])
  BY DEF WriteFile
<1>2. batch' = [batch EXCEPT ![p] = n] /\ UNCHANGED << log, logDir, history >> /\ p \in Committers
  BY DEF WriteFile, Committers
<1>3. file(d) \notin DOMAIN content
  <2>1. Token \in Nat
    <3>1. IsFiniteSet({ f \in DOMAIN content : f[1] = "arrived" })
      BY FS_Subset DEF Typed, Stored
    <3> QED BY <3>1, FS_CardinalityType DEF Token
  <2>2. ~(file(d)[3] < Token) /\ file(d)[1] = "arrived"
    BY <2>1
  <2> QED BY <2>2 DEF RowsInv, Whole, TokensTaken
<1>4. /\ DOMAIN content' = DOMAIN content \cup {file(d)} /\ content'[file(d)] = { << p, n >> }
      /\ \A f \in DOMAIN content : content'[f] = content[f]
  BY <1>1, <1>3 DEF Bind
<1>5. Quiet(p)
  BY <1>1, <1>2, <1>4 DEF Quiet, Begin, Typed, TypeOK
<1>6. pc'[p] = state /\ ver'[p] = version /\ job'[p] = [Empty EXCEPT !.adds = {file(d)}] /\ batch'[p] = n
  BY <1>1, <1>2 DEF Begin, Typed, TypeOK
<1>7. CarriesFile(p)' /\ job'[p].meta = {}
  BY <1>4, <1>6 DEF CarriesFile, Empty
<1>8. TokensTaken'
  <2> DEFINE arrived == { f \in DOMAIN content : f[1] = "arrived" }
  <2>1. IsFiniteSet(arrived) /\ file(d) \notin arrived
    BY <1>3, FS_Subset DEF Typed, Stored
  <2>2. { f \in DOMAIN content' : f[1] = "arrived" } = arrived \cup {file(d)}
    BY <1>4
  <2>3. Token = 1 + Cardinality(arrived) /\ Token' = 1 + Cardinality(arrived \cup {file(d)})
    BY <2>2 DEF Token
  <2>4. Cardinality(arrived) \in Nat /\ Cardinality(arrived \cup {file(d)}) = Cardinality(arrived) + 1
    BY <2>1, FS_CardinalityType, FS_AddElement
  <2>5. Token' = Token + 1 /\ Token \in Nat
    BY <2>3, <2>4
  <2>6. ASSUME NEW f \in DOMAIN content', f[1] = "arrived" PROVE f[3] < Token'
    <3>1. CASE f \in DOMAIN content
      <4>1. f[3] < Token /\ f \in Files
        BY <2>6, <3>1 DEF RowsInv, Whole, TokensTaken, Typed, Stored
      <4>2. f[3] \in Nat
        BY <4>1, BoundsAssumption DEF Files
      <4> QED BY <2>5, <4>1, <4>2
    <3>2. CASE f = file(d)
      BY <2>5, <3>2
    <3> QED BY <1>4, <2>6, <3>1, <3>2
  <2> QED BY <2>6 DEF TokensTaken
<1> QED BY <1>5, <1>6, <1>7, <1>8

LEMMA StartPublishKeeps ==
  ASSUME Typed, Typed', LogInv, RowsInv, NEW p \in Appenders \cup Recorders,
         (p \in Appenders /\ StartAppend(p)) \/ (p \in Recorders /\ StartRecord(p))
  PROVE  RowsInv'
<1>1. p \in Committers
  BY DEF Committers
<1>2. CASE p \in Appenders /\ StartAppend(p)
  <2>1. PICK version \in Versions : WriteFile(p, batch[p] + 1, "ready", version)
    BY <1>2 DEF StartAppend
  <2>2. batch[p] \in Nat
    BY <1>1 DEF Typed, TypeOK
  <2>3. /\ Quiet(p) /\ TokensTaken' /\ CarriesFile(p)'
        /\ job'[p].meta = {} /\ batch'[p] = batch[p] + 1
    BY <2>1, <2>2, FileIsWritten
  <2>4. << p, batch'[p] >> \notin Kept
    <3>1. ASSUME << p, batch[p] + 1 >> \in Kept PROVE FALSE
      <4>1. << p, batch[p] + 1 >>[2] <= batch[p]
        BY <1>2, <3>1 DEF RowsInv, Whole, BatchesCounted
      <4> QED BY <2>2, <4>1
    <3> QED BY <2>3, <3>1
  <2>5. Appending(p)'
    BY <1>1, <2>3, <2>4, QuietReads DEF Appending
  <2>6. Engaged(p)'
    BY <1>2, <2>5, RolesAssumption DEF Engaged
  <2> QED BY <1>1, <2>2, <2>3, <2>6, QuietStep
<1>3. CASE p \in Recorders /\ StartRecord(p)
  <2>1. CurrentMetadata \subseteq Metadata
    BY LiveIsFiles
  <2>2. PICK n \in Nat :
          /\ WriteFile(p, n, "written", NextVersion)
          /\ CurrentMetadata = {} => n = 1
          /\ CurrentMetadata # {} => \E now \in CurrentMetadata : n = now.position[p] + 1
    BY <1>3, <2>1 DEF StartRecord, Metadata
  <2>3. \A now \in CurrentMetadata : n = now.position[p] + 1
    BY <1>3, <2>2, PositionsAgree
  <2>4. /\ Quiet(p) /\ TokensTaken' /\ CarriesFile(p)'
        /\ batch'[p] = n /\ pc'[p] = "written" /\ ver'[p] = NextVersion
    BY <2>2, FileIsWritten
  <2>5. CurrentMetadata' = CurrentMetadata /\ log' = log
    BY <1>1, <2>4, QuietReads DEF Quiet
  <2>6. NextInLine(p)'
    BY <2>2, <2>3, <2>4, <2>5 DEF NextInLine
  <2>7. CarriesMetadata(p)'
    BY <2>4, <2>5, NextVersionIsNext DEF CarriesMetadata, Behind, Free, LogInv
  <2>8. Engaged(p)' /\ p \notin Appenders
    BY <1>3, <2>4, <2>6, <2>7, RolesAssumption DEF Engaged, Recording
  <2> QED BY <1>1, <2>4, <2>8, QuietStep
<1> QED BY <1>2, <1>3

LEMMA StartOtherKeeps ==
  ASSUME Typed, Typed', LogInv, RowsInv, NEW p \in Committers,
         \/ p \in Creators /\ StartCreate(p)
         \/ p \in Evolvers /\ StartEvolve(p)
         \/ p \in Expirers /\ StartExpiry(p)
  PROVE  RowsInv'
<1>1. CASE p \in Creators /\ StartCreate(p)
  <2>1. job'[p] = [Empty EXCEPT !.meta = {Declared}] /\ ver'[p] = 0
    BY <1>1 DEF StartCreate, Begin, Typed, TypeOK
  <2>2. Engaged(p)'
    BY <1>1, <2>1, RolesAssumption DEF Engaged, Creating
  <2> QED BY <1>1, <2>2, MemoryStep DEF StartCreate, Begin, Typed, TypeOK
<1>2. CASE p \in Evolvers /\ StartEvolve(p)
  <2>1. /\ job'[p] = Empty /\ ver'[p] = NextVersion /\ pc'[p] = "written" /\ log' = log
    BY <1>2 DEF StartEvolve, Begin, Typed, TypeOK
  <2>2. CarriesMetadata(p)'
    BY <2>1, NextVersionIsNext DEF CarriesMetadata, Behind, Free, LogInv
  <2>3. Engaged(p)'
    BY <1>2, <2>1, <2>2, RolesAssumption DEF Engaged, Evolving, Empty
  <2> QED BY <1>2, <2>3, MemoryStep DEF StartEvolve, Begin, Typed, TypeOK
<1>3. CASE p \in Expirers /\ StartExpiry(p)
  <2>1. PICK d \in Partitions :
          /\ { f \in Live : f[2] = d } # {}
          /\ Begin(p, "ready", NextVersion, [Empty EXCEPT !.removes = { f \in Live : f[2] = d }])
          /\ UNCHANGED << log, logDir, content, batch, history >>
    BY <1>3 DEF StartExpiry
  <2>2. /\ job'[p] = [Empty EXCEPT !.removes = { f \in Live : f[2] = d }]
        /\ ver'[p] = NextVersion /\ pc'[p] = "ready" /\ log' = log
    BY <2>1 DEF Begin, Typed, TypeOK
  <2>3. Behind(p)'
    BY <2>2, NextVersionIsNext DEF Behind, LogInv
  <2>4. Live' = Live /\ EverLive' = EverLive /\ Live \subseteq EverLive
    BY <2>2 DEF Live, LiveIn, EverLive
  <2>5. Expiring(p)'
    BY <2>1, <2>2, <2>3, <2>4 DEF Expiring, Empty
  <2>6. Engaged(p)'
    BY <1>3, <2>5, RolesAssumption DEF Engaged
  <2> QED BY <2>1, <2>6, MemoryStep DEF Begin, Typed, TypeOK
<1> QED BY <1>1, <1>2, <1>3

LEMMA MergeKeeps ==
  ASSUME Typed, Typed', LogInv, RowsInv, NEW p \in Mergers,
         Plan(p) \/ Execute(p) \/ ReadVersion(p)
  PROVE  RowsInv'
<1>1. p \in Committers /\ (Merging(p)' => Engaged(p)')
  BY RolesAssumption DEF Committers, Engaged
<1>2. CASE Plan(p)
  <2>1. PICK inputs \in SUBSET Live :
          /\ Cardinality(inputs) >= 2
          /\ Begin(p, "planned", 0, [Empty EXCEPT !.removes = inputs])
          /\ UNCHANGED << log, logDir, content, batch, history >>
    BY <1>2 DEF Plan
  <2>2. inputs # {}
    BY <2>1, FS_EmptySet
  <2>3. job'[p] = [Empty EXCEPT !.removes = inputs] /\ pc'[p] = "planned"
    BY <1>1, <2>1 DEF Begin, Typed, TypeOK
  <2>4. Live' = Live /\ EverLive' = EverLive /\ Live \subseteq EverLive /\ content' = content
    BY <2>1 DEF Live, LiveIn, EverLive
  <2>5. \A g \in Live \ inputs : content[g] \cap RowsOf(inputs) = {}
    BY DEF RowsInv, Whole, Apart, RowsOf
  <2>6. RowsOf(job[p].removes)' = RowsOf(inputs)
    BY <2>3, <2>4 DEF RowsOf, Empty
  <2>7. Merging(p)'
    BY <2>2, <2>3, <2>4, <2>5, <2>6 DEF Merging, Empty
  <2> QED BY <1>1, <2>1, <2>7, MemoryStep DEF Begin, Typed, TypeOK
<1>3. CASE Execute(p)
  <2>1. CASE Return(p) /\ UNCHANGED content
    BY <1>1, <1>3, <2>1, ReturnKeeps DEF Execute
  <2>2. CASE ~(Return(p) /\ UNCHANGED content)
    <3> DEFINE out == OutputOf(p)
    <3>1. /\ pc[p] = "planned" /\ out \notin DOMAIN content
          /\ content' = Bind(content, out, RowsOf(job[p].removes))
          /\ job' = [job EXCEPT ![p].adds = {out}]
          /\ pc' = [pc EXCEPT ![p] = "executed"]
          /\ UNCHANGED << ver, log, batch, history >>
      BY <1>3, <2>2 DEF Execute
    <3>2. /\ Merging(p) /\ job[p].removes \subseteq DOMAIN content
          /\ job[p] \in Commit
      BY <1>1, <3>1 DEF RowsInv, Engaged, Typed, Seated
    <3>3. out[1] = "compacted"
      BY DEF OutputOf
    <3> HIDE DEF out
    <3>4. /\ DOMAIN content' = DOMAIN content \cup {out}
          /\ content'[out] = RowsOf(job[p].removes)
          /\ \A f \in DOMAIN content : content'[f] = content[f]
      BY <3>1 DEF Bind
    <3>5. Quiet(p)
      BY <1>1, <3>1, <3>4 DEF Quiet, Typed, TypeOK
    <3>6. /\ pc'[p] = "executed" /\ job'[p].adds = {out}
          /\ job'[p].removes = job[p].removes /\ job'[p].meta = job[p].meta
      BY <1>1, <3>1, <3>2 DEF Typed, TypeOK, Commit
    <3>7. /\ Live' = Live /\ EverLive' = EverLive
          /\ RowsOf(job[p].removes)' = RowsOf(job[p].removes)
      <4>1. RowsOf(job[p].removes)' = UNION { content'[f] : f \in job[p].removes }
        BY <3>6 DEF RowsOf
      <4>2. RowsOf(job[p].removes) = UNION { content[f] : f \in job[p].removes }
        BY DEF RowsOf
      <4>3. \A f \in job[p].removes : content'[f] = content[f]
        BY <3>2, <3>4
      <4> QED BY <1>1, <3>5, <4>1, <4>2, <4>3, QuietReads
    <3>8. \A g \in Live : content'[g] = content[g]
      BY <3>4, LiveIsFiles
    <3>9. Merging(p)'
      BY <3>1, <3>2, <3>4, <3>6, <3>7, <3>8 DEF Merging
    <3>10. TokensTaken'
      <4>1. { f \in DOMAIN content' : f[1] = "arrived" } = { f \in DOMAIN content : f[1] = "arrived" }
        BY <3>3, <3>4
      <4>2. Token' = Token
        BY <4>1 DEF Token
      <4> QED BY <3>3, <3>4, <4>2 DEF RowsInv, Whole, TokensTaken
    <3>11. batch'[p] >= batch[p]
      BY <1>1, <3>1 DEF Typed, TypeOK
    <3> QED BY <1>1, <3>5, <3>9, <3>10, <3>11, QuietStep
  <2> QED BY <2>1, <2>2
<1>4. CASE ReadVersion(p)
  <2>1. /\ pc[p] = "executed" /\ pc'[p] = "ready" /\ job' = job
        /\ UNCHANGED << log, content, batch, history >>
        /\ \A q \in Committers \ {p} : pc'[q] = pc[q] /\ ver'[q] = ver[q]
    BY <1>1, <1>4 DEF ReadVersion, Typed, TypeOK
  <2>2. Merging(p)
    BY <1>1, <2>1 DEF RowsInv, Engaged
  <2>3. Live' = Live /\ EverLive' = EverLive /\ RowsOf(job[p].removes)' = RowsOf(job[p].removes)
    BY <2>1 DEF Live, EverLive, RowsOf
  <2>4. Merging(p)'
    BY <2>1, <2>2, <2>3 DEF Merging
  <2> QED BY <1>1, <2>1, <2>4, MemoryStep
<1> QED BY <1>2, <1>3, <1>4

LEMMA ReadMetadataKeeps ==
  ASSUME Typed, Typed', LogInv, RowsInv, NEW p \in Recorders \cup Evolvers, ReadMetadata(p)
  PROVE  RowsInv'
<1>1. p \in Committers
  BY DEF Committers
<1>2. CASE Return(p)
  BY <1>1, <1>2, ReturnKeeps DEF ReadMetadata
<1>3. CASE ~Return(p)
  <2>1. PICK now \in CurrentMetadata :
          /\ pc' = [pc EXCEPT ![p] = "ready"] /\ pc[p] = "written"
          /\ job' = [job EXCEPT ![p].meta = {Changed(p, now)}]
          /\ UNCHANGED << ver, log, content, batch, history >>
    BY <1>3 DEF ReadMetadata, Changed
  <2>2. job[p] \in Commit
    BY <1>1 DEF Typed, TypeOK
  <2>3. /\ pc'[p] = "ready" /\ job'[p].meta = {Changed(p, now)}
        /\ job'[p].adds = job[p].adds /\ job'[p].removes = job[p].removes
    BY <1>1, <2>1, <2>2 DEF Typed, TypeOK, Commit
  <2>4. CurrentMetadata' = CurrentMetadata /\ Changed(p, now)' = Changed(p, now)
    BY <2>1 DEF CurrentMetadata, Declaring, Changed
  <2>5. Engaged(p) /\ pc[p] # "idle"
    BY <1>1, <2>1 DEF RowsInv
  <2>6. CarriesMetadata(p)'
    <3>1. Behind(p)
      BY <2>5, RolesAssumption DEF Engaged, Recording, Evolving, CarriesMetadata
    <3>2. Behind(p)'
      BY <2>1, <3>1 DEF Behind
    <3>3. \E x \in CurrentMetadata' : job'[p].meta = {Changed(p, x)'}
      BY <2>1, <2>3, <2>4 DEF Changed
    <3> QED BY <3>2, <3>3 DEF CarriesMetadata
  <2>7. CASE p \in Recorders
    <3>1. Recording(p)
      BY <2>5, <2>7 DEF Engaged
    <3>2. Recording(p)'
      BY <2>1, <2>3, <2>4, <2>6, <3>1 DEF Recording, CarriesFile, NextInLine
    <3>3. Engaged(p)'
      BY <2>7, <3>2, RolesAssumption DEF Engaged
    <3> QED BY <1>1, <2>1, <3>3, MemoryStep DEF Typed, TypeOK
  <2>8. CASE p \in Evolvers
    <3>1. Evolving(p)'
      BY <2>3, <2>5, <2>6, <2>8 DEF Engaged, Evolving
    <3>2. Engaged(p)'
      BY <2>8, <3>1, RolesAssumption DEF Engaged
    <3> QED BY <1>1, <2>1, <3>2, MemoryStep DEF Typed, TypeOK
  <2> QED BY <2>7, <2>8
<1> QED BY <1>2, <1>3

LEMMA ClaimKeeps ==
  ASSUME Typed, Typed', LogInv, RowsInv, NEW p \in Committers, Claim(p)
  PROVE  RowsInv'
<1>1. CASE log' = log /\ UNCHANGED history
  <2>1. pc[p] = "probed" /\ UNCHANGED << content, batch >>
    BY DEF Claim
  <2>2. CASE Return(p)
    BY <1>1, <2>1, <2>2, ReturnKeeps
  <2>3. CASE ~Return(p)
    <3>1. pc' = [pc EXCEPT ![p] = "lost"] /\ UNCHANGED << ver, job >>
      BY <2>3 DEF Claim
    <3> QED BY <1>1, <2>1, <3>1, OutcomeKeeps
  <2> QED BY <2>2, <2>3
<1>2. CASE ~(log' = log /\ UNCHANGED history)
  <2>1. /\ Claimed(p) /\ Return(p) /\ UNCHANGED << content, batch >> /\ Told(p)
        /\ expired' = expired \cup (IF p \in Expirers THEN RowsOf(job[p].removes) ELSE {})
    BY <1>2 DEF Claim, Claimed, Exists, Told
  <2>2. Commits(p)
    BY <2>1 DEF Commits, Return, Typed, TypeOK
  <2> QED BY <2>1, <2>2, CommitKeeps
<1> QED BY <1>1, <1>2

LEMMA RebaseKeeps ==
  ASSUME Typed, Typed', LogInv, RowsInv, NEW p \in Committers, Rebase(p)
  PROVE  RowsInv'
<1>1. /\ pc[p] = "lost" /\ ver'[p] = NextVersion /\ job' = job
      /\ pc'[p] = IF p \in Recorders THEN "written" ELSE "ready"
      /\ p \in Appenders \cup Recorders
      /\ UNCHANGED << log, content, batch, history >>
      /\ \A q \in Committers \ {p} : pc'[q] = pc[q] /\ ver'[q] = ver[q]
  BY DEF Rebase, Typed, TypeOK
<1>2. CurrentMetadata' = CurrentMetadata /\ Kept' = Kept
  BY <1>1 DEF CurrentMetadata, Declaring, Kept, Live, RowsOf, history
<1>3. Engaged(p)
  BY DEF RowsInv
<1>4. CarriesFile(p)' = CarriesFile(p)
  BY <1>1 DEF CarriesFile
<1>5. CASE p \in Appenders
  <2>1. Appending(p)'
    BY <1>1, <1>2, <1>3, <1>4, <1>5 DEF Engaged, Appending
  <2>2. Engaged(p)'
    BY <1>5, <2>1, RolesAssumption DEF Engaged
  <2> QED BY <1>1, <2>2, MemoryStep
<1>6. CASE p \in Recorders
  <2>1. CarriesMetadata(p)'
    BY <1>1, <1>6, NextVersionIsNext DEF CarriesMetadata, Behind, Free, LogInv
  <2>2. Recording(p)'
    BY <1>1, <1>2, <1>3, <1>4, <1>6, <2>1 DEF Engaged, Recording, NextInLine
  <2>3. Engaged(p)'
    BY <1>6, <2>2, RolesAssumption DEF Engaged
  <2> QED BY <1>1, <2>3, MemoryStep
<1> QED BY <1>1, <1>5, <1>6

LEMMA ProbeKeeps ==
  ASSUME Typed, Typed', RowsInv, NEW p \in Committers, Probe(p)
  PROVE  RowsInv'
<1>1. pc[p] = "ready" /\ UNCHANGED << log, content, batch, history >>
  BY DEF Probe
<1>2. CASE Return(p)
  BY <1>1, <1>2, ReturnKeeps
<1>3. CASE ~Return(p)
  <2>1. PICK outcome \in { "probed", "lost" } :
          pc' = [pc EXCEPT ![p] = outcome] /\ UNCHANGED << ver, job >>
    BY <1>3 DEF Probe
  <2> QED BY <1>1, <2>1, OutcomeKeeps
<1> QED BY <1>2, <1>3

-----------------------------------------------------------------------------
IInv == Typed /\ LogInv /\ RowsInv

LEMMA IInvInit == Init => IInv
<1> SUFFICES ASSUME Init PROVE RowsInv
  BY TypedInit, LogInvInit DEF IInv
<1>1. EverLive = {} /\ Live = {} /\ Kept = {}
  BY DEF Init, EverLive, Live, LiveIn, Kept, RowsOf, Empty
<1>2. \A now \in CurrentMetadata : now = Declared
  BY DEF Init, CurrentMetadata, Declaring, Empty
<1>3. PositionMatchesRows
  <2>1. \A r \in Recorders : { row \in {} : row[1] = r } = { << r, n >> : n \in 1..0 }
    OBVIOUS
  <2>2. widened = 0 /\ RowsOf(Live) \cup expired = {}
    BY <1>1 DEF Init, Kept
  <2> QED BY <1>2, <2>1, <2>2 DEF PositionMatchesRows, Declared
<1>4. TokensTaken
  BY DEF Init, TokensTaken
<1>5. Whole
  BY <1>1, <1>3, <1>4 DEF Init, Whole, BatchesCounted, Apart
<1>6. \A p \in Committers : Engaged(p)
  BY DEF Init, Engaged
<1> QED BY <1>5, <1>6 DEF RowsInv

LEMMA IInvNext == IInv /\ [Next]_vars => IInv'
<1> SUFFICES ASSUME IInv, [Next]_vars PROVE IInv'
  OBVIOUS
<1>1. Typed /\ LogInv /\ RowsInv /\ Typed' /\ LogInv'
  BY TypedNext, LogInvNext DEF IInv
<1> USE DEF Committers
<1>2. CASE UNCHANGED vars
  <2>1. /\ Live' = Live /\ EverLive' = EverLive /\ CurrentMetadata' = CurrentMetadata
        /\ Kept' = Kept /\ Token' = Token
        /\ \A q \in Committers : RowsOf(job[q].removes)' = RowsOf(job[q].removes)
    BY <1>2 DEF vars, committer, history, Live, EverLive, CurrentMetadata, Declaring, Kept, RowsOf, Token
  <2>2. Whole'
    BY <1>1, <1>2, <2>1 DEF vars, committer, history, RowsInv, Whole, TokensTaken, BatchesCounted,
                            Apart, PositionMatchesRows, Kept
  <2>3. ASSUME NEW q \in Committers PROVE Engaged(q)'
    <3>1. Engaged(q)
      BY <1>1 DEF RowsInv
    <3> QED
      BY <1>2, <2>1, <3>1
         DEF vars, committer, history, Engaged, Creating, Appending, Recording, Evolving, Merging,
             Expiring, CarriesFile, CarriesMetadata, Behind, Free, Changed, NextInLine
  <2> QED BY <1>1, <2>2, <2>3 DEF IInv, RowsInv
<1>3. CASE Start
  BY <1>1, <1>3, StartPublishKeeps, StartOtherKeeps, MergeKeeps DEF Start, IInv
<1>4. ASSUME NEW p \in Recorders \cup Evolvers, ReadMetadata(p) PROVE IInv'
  BY <1>1, <1>4, ReadMetadataKeeps DEF IInv
<1>5. ASSUME NEW p \in Committers, Probe(p) \/ Claim(p) \/ Rebase(p) \/ GiveUp(p) \/ Fail(p)
      PROVE  IInv'
  <2>1. CASE Probe(p)
    BY <1>1, <2>1, ProbeKeeps DEF IInv
  <2>2. CASE Claim(p)
    BY <1>1, <2>2, ClaimKeeps DEF IInv
  <2>3. CASE Rebase(p)
    BY <1>1, <2>3, RebaseKeeps DEF IInv
  <2>4. CASE GiveUp(p) \/ Fail(p)
    BY <1>1, <2>4, ReturnKeeps DEF IInv, GiveUp, Fail
  <2> QED BY <1>5, <2>1, <2>2, <2>3, <2>4
<1> QED BY <1>2, <1>3, <1>4, <1>5 DEF Next

LEMMA Inductive == Spec => []IInv
BY IInvInit, IInvNext, PTL DEF Spec

(* No row whose publish was reported as done is lost, and none is live     *)
(* twice, through any race of publishes, merges and expiries: the claim of *)
(* log.rs and the new file name of service.rs are enough.                  *)
THEOREM NoRowLost == Spec => []RowsConserved
<1>1. IInv => RowsConserved
  BY DEF IInv, RowsInv, Whole, Kept, Apart, RowsConserved
<1> QED BY <1>1, Inductive, PTL

(* Reading the metadata again at every attempt (publish.rs) is what keeps  *)
(* a feed's position and its rows together, and every evolution declared.  *)
THEOREM PositionsHold == Spec => []PositionMatchesRows
<1>1. IInv => PositionMatchesRows
  BY DEF IInv, RowsInv, Whole
<1> QED BY <1>1, Inductive, PTL

(* An expiry that commits leaves nothing of the partition it names.        *)
THEOREM ExpiryIsWhole == Spec => DetachIsWhole
<1>1. IInv /\ [Next]_vars =>
        [\A x \in Expirers :
           (log' # log /\ pc'[x] # pc[x]) =>
             \A f \in LiveIn(log') : \A g \in job[x].removes : f[2] # g[2]]_vars
  <2> SUFFICES ASSUME IInv, Next, NEW x \in Expirers, log' # log, pc'[x] # pc[x]
               PROVE  \A f \in LiveIn(log') : \A g \in job[x].removes : f[2] # g[2]
    OBVIOUS
  <2>1. x \in Committers
    BY DEF Committers
  <2>2. PICK p \in Committers : Claim(p)
    BY DEF Next, Start, StartCreate, StartAppend, StartRecord, StartEvolve, Plan,
           Execute, ReadVersion, StartExpiry, WriteFile, ReadMetadata, Probe, Rebase, GiveUp, Fail
  <2>3. Claimed(p) /\ Return(p)
    BY <2>2 DEF Claim, Claimed, Exists
  <2>4. x = p
    BY <2>1, <2>3 DEF Return, IInv, Typed, TypeOK
  <2>5. Free(x) /\ Expiring(x)
    BY <2>1, <2>3, <2>4 DEF Claimed, Free, IInv, RowsInv, Engaged
  <2>6. Live' = Live \ job[x].removes
    BY <2>3, <2>4, <2>5, LiveAfterClaim DEF IInv, Expiring
  <2>7. LiveIn(log') = Live'
    BY DEF Live, LiveIn
  <2> QED BY <2>5, <2>6, <2>7 DEF Expiring
<1> QED BY <1>1, Inductive, PTL DEF Spec, DetachIsWhole

(* With feeds for writers, the first commit is the one that declares the   *)
(* table: a feed's run reads the metadata before it claims, a merge and an *)
(* expiry have files to remove.                                            *)
THEOREM DeclaredFirst == Appenders = {} => (Spec => []BeginsWithMetadata)
<1> SUFFICES ASSUME Appenders = {} PROVE Spec => []BeginsWithMetadata
  OBVIOUS
<1>1. Init => BeginsWithMetadata
  <2> SUFFICES ASSUME Init, DOMAIN log # {} PROVE 0 \in DOMAIN log /\ log[0].meta # {}
    BY DEF BeginsWithMetadata
  <2>1. log = [v \in {0} |-> [Empty EXCEPT !.meta = {Declared}]]
    BY DEF Init
  <2>2. [Empty EXCEPT !.meta = {Declared}].meta = {Declared}
    BY DEF Empty
  <2> QED BY <2>1, <2>2
<1>2. IInv /\ BeginsWithMetadata /\ [Next]_vars => BeginsWithMetadata'
  <2> SUFFICES ASSUME IInv, BeginsWithMetadata, [Next]_vars
               PROVE  BeginsWithMetadata'
    OBVIOUS
  <2>1. CASE log' = log
    BY <2>1 DEF BeginsWithMetadata
  <2>2. ASSUME NEW p \in Committers, Claimed(p) PROVE BeginsWithMetadata'
    <3>1. /\ DOMAIN log' = DOMAIN log \cup {ver[p]} /\ log'[ver[p]] = job[p]
          /\ \A u \in DOMAIN log : log'[u] = log[u]
          /\ ver[p] > 0 => ver[p] - 1 \in DOMAIN log
          /\ ver[p] \in Nat
      BY <2>2, ClaimIsLast DEF IInv, Claimed, LogInv, ProbedHasPredecessor, Typed, TypeOK
    <3>2. CASE DOMAIN log # {}
      BY <3>1, <3>2 DEF BeginsWithMetadata
    <3>3. CASE DOMAIN log = {}
      <4>1. ver[p] = 0 /\ Free(p) /\ Engaged(p) /\ pc[p] = "probed"
        BY <2>2, <3>1, <3>3 DEF IInv, RowsInv, Claimed, Free
      <4>2. CurrentMetadata = {} /\ EverLive = {}
        BY <3>3 DEF CurrentMetadata, Declaring, EverLive
      <4>3. p \in Creators
        BY <4>1, <4>2 DEF Committers, Engaged, Recording, Evolving, CarriesMetadata, Merging, Expiring
      <4>4. job[p].meta = {Declared}
        BY <4>1, <4>3 DEF Engaged, Creating, Empty
      <4> QED BY <3>1, <4>1, <4>4 DEF BeginsWithMetadata
    <3> QED BY <3>2, <3>3
  <2> QED BY <2>1, <2>2, OnlyClaimsWrite DEF vars
<1> QED BY <1>1, <1>2, Inductive, PTL DEF Spec
=============================================================================
